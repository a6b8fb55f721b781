------------------------ MODULE DocumentServer_proofs ------------------------
(***************************************************************************)
(* Proofs about DocumentServer for any number of sessions, workers,        *)
(* compactions, evictions, faults and snapshots kept: loads never go back  *)
(* to an older snapshot; everything stays of its type, with the stages of  *)
(* handlers and compactions in order; no document shows a character that   *)
(* was not accepted; and, with one worker that keeps the entries in use,   *)
(* snapshots, cached documents and loads hold every row they stand for.    *)
(* And about Restore, which has these steps and its own: everything stays  *)
(* of its type there too, and every revision can be had as it was. That is *)
(* why ServerTypeOK allows for the rows and the snapshots of restores.     *)
(***************************************************************************)
EXTENDS Restore, RGA_proofs, FiniteSetTheorems

\* Seqs of snapshots, and of those that are going to be saved, are seqs of the
\* table.
SeqsStored ==
    /\ \E S : log \in Seq(S)
    /\ \A snap \in snapshots : snap.seq \in 0..Len(log)
    /\ \A t \in tasks : "seq" \in DOMAIN t /\ t.seq \in 0..Len(log)

----------------------------------------------------------------------------
(* The latest snapshot. *)

\* Bounded by n, the seqs of a set of snapshots have a greatest one (ORDER BY
\* seq DESC LIMIT 1 finds a row if there is any).
LEMMA GreatestSeq ==
    ASSUME NEW S, S # {}, NEW n \in Nat, \A snap \in S : snap.seq \in 0..n
    PROVE  \E snap \in S : \A other \in S : other.seq <= snap.seq
<1> DEFINE bounds == {b \in Nat : \A snap \in S : snap.seq <= b}
<1>1. PICK b \in bounds : \A m \in bounds : b <= m
  <2>1. n \in bounds
    OBVIOUS
  <2>2. QED
    BY <2>1, LeastNat, bounds \subseteq Nat
<1>2. PICK snap \in S : snap.seq = b
  <2>1. CASE b = 0
    BY <2>1, <1>1
  <2>2. CASE b # 0
    <3>1. b - 1 \in Nat /\ ~(b <= b - 1)
      BY <1>1, <2>2
    <3>2. b - 1 \notin bounds
      BY <1>1, <3>1
    <3>3. PICK snap \in S : ~(snap.seq <= b - 1)
      BY <3>1, <3>2
    <3>4. snap.seq = b
      BY <1>1, <3>1, <3>3
    <3>5. QED
      BY <3>4
  <2>3. QED
    BY <2>1, <2>2
<1>3. QED
  BY <1>1, <1>2

\* loadLatestSnapshot finds it, before a step and after it.
LEMMA LatestIsGreatest ==
    /\ SeqsStored =>
           /\ LatestSnapshot.seq \in Nat
           /\ snapshots = {} => LatestSnapshot.seq = 0
           /\ snapshots # {} => LatestSnapshot \in snapshots
           /\ \A snap \in snapshots : snap.seq <= LatestSnapshot.seq
    /\ SeqsStored' =>
           /\ LatestSnapshot'.seq \in Nat
           /\ \A snap \in snapshots' : snap.seq <= LatestSnapshot'.seq
<1>1. ASSUME SeqsStored
      PROVE  /\ LatestSnapshot.seq \in Nat
             /\ snapshots = {} => LatestSnapshot.seq = 0
             /\ snapshots # {} => LatestSnapshot \in snapshots
             /\ \A snap \in snapshots : snap.seq <= LatestSnapshot.seq
  <2>1. Len(log) \in Nat
    BY <1>1 DEF SeqsStored
  <2>2. CASE snapshots = {}
    BY <2>2 DEF LatestSnapshot, NoSnapshot
  <2>3. CASE snapshots # {}
    <3>1. \E snap \in snapshots : \A other \in snapshots : other.seq <= snap.seq
      BY <1>1, <2>1, <2>3, GreatestSeq DEF SeqsStored
    <3>2. QED
      BY <1>1, <2>1, <2>3, <3>1 DEF LatestSnapshot, SeqsStored
  <2>4. QED
    BY <2>2, <2>3
<1>2. ASSUME SeqsStored'
      PROVE  /\ LatestSnapshot'.seq \in Nat
             /\ \A snap \in snapshots' : snap.seq <= LatestSnapshot'.seq
  <2>1. Len(log') \in Nat
    BY <1>2 DEF SeqsStored
  <2>2. CASE snapshots' = {}
    BY <2>2 DEF LatestSnapshot, NoSnapshot
  <2>3. CASE snapshots' # {}
    <3>1. \E snap \in snapshots' : \A other \in snapshots' : other.seq <= snap.seq
      BY <1>2, <2>1, <2>3, GreatestSeq DEF SeqsStored
    <3>2. QED
      BY <1>2, <2>1, <2>3, <3>1 DEF LatestSnapshot, SeqsStored
  <2>4. QED
    BY <2>2, <2>3
<1>3. QED
  BY <1>1, <1>2

----------------------------------------------------------------------------
(* Steps. *)

\* Nothing is stored and nothing saved (a server that has just started on an
\* empty table).
LEMMA InitSeqsStored == Init => SeqsStored
BY DEF Init, SeqsStored

\* The table only grows, seqs of compactions come from it (getMaxSeq), and
\* snapshots are saved under these (saveSnapshot).
LEMMA StepKeepsSeqsStored == SeqsStored /\ [Next]_vars => SeqsStored'
<1> SUFFICES ASSUME SeqsStored, [Next]_vars PROVE SeqsStored'
  OBVIOUS
<1> USE DEF SeqsStored
<1>1. Len(log) \in Nat
  OBVIOUS
<1>2. ASSUME UNCHANGED <<log, snapshots, tasks>> PROVE SeqsStored'
  BY <1>2
<1>3. ASSUME NEW s \in Sessions, Handle(s) PROVE SeqsStored'
  <2>1. CASE Take(s)
    BY <1>2, <2>1 DEF Take
  <2>2. CASE Refuse(s)
    BY <1>2, <2>2 DEF Refuse
  <2>3. CASE AppendOperation(s)
    <3>1. PICK S : log \in Seq(S)
      OBVIOUS
    <3>2. PICK e : log' = Append(log, e)
      BY <2>3 DEF AppendOperation
    <3>3. log' \in Seq(S \cup {e}) /\ Len(log') = Len(log) + 1
      BY <3>1, <3>2
    <3>4. snapshots' = snapshots /\ tasks' = tasks
      BY <2>3 DEF AppendOperation
    <3>5. QED
      BY <1>1, <3>3, <3>4
  <2>4. CASE Publish(s)
    BY <1>1, <2>4 DEF Publish, StartCompaction
  <2>5. CASE HandlerFails(s)
    BY <1>2, <2>5 DEF HandlerFails
  <2>6. QED
    BY <1>3, <2>1, <2>2, <2>3, <2>4, <2>5 DEF Handle
<1>4. ASSUME NEW t \in tasks, Compact(t) PROVE SeqsStored'
  <2>1. CASE Measure(t)
    <3>1. PICK next : /\ next = [t EXCEPT !.stage = "collect", !.seq = Len(log)]
                      /\ tasks' = (tasks \ {t}) \cup {next}
      BY <2>1 DEF Measure, Becomes
    <3>2. "seq" \in DOMAIN next /\ next.seq = Len(log)
      BY <3>1
    <3>3. log' = log /\ snapshots' = snapshots
      BY <2>1 DEF Measure
    <3>4. \A u \in tasks' : "seq" \in DOMAIN u /\ u.seq \in 0..Len(log)
      <4>1. \A u \in tasks' : u \in tasks \/ u = next
        BY <3>1
      <4>2. Len(log) \in 0..Len(log)
        BY <1>1
      <4>3. QED
        BY <3>2, <4>1, <4>2
    <3>5. QED
      BY <3>3, <3>4
  <2>2. CASE Collect(t)
    BY <2>2 DEF Collect, Becomes
  <2>3. CASE Save(t)
    BY <2>3 DEF Save, Becomes
  <2>4. CASE Prune(t)
    BY <2>4 DEF Prune
  <2>5. CASE CompactionFails(t)
    BY <2>5 DEF CompactionFails
  <2>6. QED
    BY <1>4, <2>1, <2>2, <2>3, <2>4, <2>5 DEF Compact
<1>5. ASSUME NEW w \in Workers, Load(w) \/ Evict(w) \/ Crash(w) PROVE SeqsStored'
  <2>1. CASE Join(w)
    BY <1>2, <2>1 DEF Join
  <2>2. CASE ReadSnapshot(w)
    BY <1>2, <2>2 DEF ReadSnapshot
  <2>3. CASE ReadOperations(w)
    BY <1>2, <2>3 DEF ReadOperations
  <2>4. CASE Resume(w)
    BY <2>4 DEF Resume
  <2>5. CASE Evict(w)
    BY <1>2, <2>5 DEF Evict
  <2>6. CASE Crash(w)
    BY <2>6 DEF Crash
  <2>7. QED
    BY <1>5, <2>1, <2>2, <2>3, <2>4, <2>5, <2>6 DEF Load
<1>6. CASE Rest \/ UNCHANGED vars
  BY <1>2, <1>6 DEF Rest, vars, cacheVars, clientVars, boundVars
<1>7. QED
  BY <1>3, <1>4, <1>5, <1>6 DEF Next

\* Saving adds, and pruning spares the row that has no newer one.
LEMMA StepKeepsLatest ==
    SeqsStored /\ [Next]_vars => LatestSnapshot.seq <= LatestSnapshot'.seq
<1> SUFFICES ASSUME SeqsStored, [Next]_vars PROVE LatestSnapshot.seq <= LatestSnapshot'.seq
  OBVIOUS
<1>1. SeqsStored'
  BY StepKeepsSeqsStored
<1>2. /\ LatestSnapshot.seq \in Nat
      /\ snapshots = {} => LatestSnapshot.seq = 0
      /\ snapshots # {} => LatestSnapshot \in snapshots
      /\ \A snap \in snapshots : snap.seq <= LatestSnapshot.seq
  BY LatestIsGreatest
<1>3. /\ LatestSnapshot'.seq \in Nat
      /\ \A snap \in snapshots' : snap.seq <= LatestSnapshot'.seq
  BY <1>1, LatestIsGreatest
<1>4. ASSUME LatestSnapshot \in snapshots' PROVE LatestSnapshot.seq <= LatestSnapshot'.seq
  BY <1>2, <1>3, <1>4
<1>5. CASE snapshots = {}
  BY <1>2, <1>3, <1>5
<1>6. CASE snapshots # {}
  <2>1. CASE snapshots \subseteq snapshots'
    BY <1>2, <1>4, <1>6, <2>1
  <2>2. ASSUME NEW t \in tasks, Prune(t) PROVE LatestSnapshot \in snapshots'
    <3>1. {o \in snapshots : o.seq > LatestSnapshot.seq} = {}
      BY <1>2 DEF SeqsStored
    <3>2. Cardinality({o \in snapshots : o.seq > LatestSnapshot.seq}) < KeepSnapshots
      BY <3>1, FS_EmptySet, BoundsAssumption
    <3>3. QED
      BY <1>2, <1>6, <2>2, <3>2 DEF Prune
  <2>3. ASSUME ~(snapshots \subseteq snapshots') PROVE \E t \in tasks : Prune(t)
    <3>1. \A s \in Sessions : ~Handle(s)
      BY <2>3 DEF Handle, Take, Refuse, AppendOperation, Publish, HandlerFails
    <3>2. \A w \in Workers : ~(Load(w) \/ Evict(w) \/ Crash(w))
      BY <2>3 DEF Load, Join, ReadSnapshot, ReadOperations, Resume, Evict, Crash
    <3>3. ~(Rest \/ UNCHANGED vars)
      BY <2>3 DEF Rest, vars
    <3>4. PICK t \in tasks : Compact(t)
      BY <3>1, <3>2, <3>3 DEF Next
    <3>5. Prune(t)
      BY <2>3, <3>4 DEF Compact, Measure, Collect, Save, CompactionFails
    <3>6. QED
      BY <3>5
  <2>4. QED
    BY <1>4, <2>1, <2>2, <2>3
<1>7. QED
  BY <1>5, <1>6

----------------------------------------------------------------------------
\* Whatever compactions run at once, in whatever order they measure, save and
\* prune, fail or die, with other workers' (maybeTakeSnapshot,
\* pruneOldSnapshots): a load never finds an older snapshot than one before.
THEOREM LatestSnapshotStays == Spec => LatestNeverRegresses
<1>1. Spec => []SeqsStored
  BY InitSeqsStored, StepKeepsSeqsStored, PTL DEF Spec
<1>2. SeqsStored /\ [Next]_vars => [LatestSnapshot.seq <= LatestSnapshot'.seq]_vars
  BY StepKeepsLatest
<1>3. QED
  BY <1>1, <1>2, PTL DEF Spec, LatestNeverRegresses

----------------------------------------------------------------------------
(* Documents and the operations they are made from. *)

\* applyOperation keeps documents over the sessions' UIDs, and adds at most the
\* operation's character.
LEMMA ApplyIsDocument ==
    ASSUME NEW d \in Document, NEW op \in Operation
    PROVE  /\ Apply(d, op) \in Document
           /\ ToSet(Apply(d, op).list) \subseteq ToSet(d.list) \cup {op.uid}
<1>1. d = [list |-> d.list, tomb |-> d.tomb] /\ d.list \in Seq(Uids) /\ d.tomb \in SUBSET Uids
  BY DEF Document
<1>2. CASE op.type = "INSERT"
  <2>1. op.uid \in Uids /\ op.after \in Uids \cup {Root}
    BY <1>2 DEF Operation
  <2>2. /\ ToSet(Apply(d, op).list) \subseteq ToSet(d.list) \cup {op.uid}
        /\ Apply(d, op).tomb = d.tomb /\ Apply(d, op).list \in Seq(Uids)
        /\ Apply(d, op) = [list |-> Apply(d, op).list, tomb |-> Apply(d, op).tomb]
    <3>1. /\ ToSet(Apply(d, op).list) = IF Applicable(d, op) THEN ToSet(d.list) \cup {op.uid}
                                        ELSE ToSet(d.list)
          /\ Apply(d, op).tomb = d.tomb /\ Apply(d, op).list \in Seq(Uids)
      BY <1>1, <1>2, <2>1, ApplyElements
    <3>2. Apply(d, op) = [list |-> Apply(d, op).list, tomb |-> Apply(d, op).tomb]
      BY <1>1, ApplyRecord
    <3>3. QED
      BY <3>1, <3>2
  <2>3. QED
    BY <1>1, <2>2 DEF Document
<1>3. CASE op.type # "INSERT"
  <2>1. Holds(d.list, op.uid) => op.uid \in Uids
    <3>1. ToSet(d.list) \subseteq Uids
      BY <1>1 DEF ToSet
    <3>2. QED
      BY <3>1 DEF Holds
  <2>2. Apply(d, op).list = d.list /\ Apply(d, op).tomb \in SUBSET Uids
    BY <1>1, <1>3, <2>1 DEF Apply, ApplyDelete
  <2>3. Apply(d, op) = [list |-> Apply(d, op).list, tomb |-> Apply(d, op).tomb]
    BY <1>1, ApplyRecord
  <2>4. QED
    BY <1>1, <2>2, <2>3 DEF Document
<1>4. QED
  BY <1>2, <1>3

\* So does replaying a list of operations (loadDocument).
LEMMA ReplayIsDocument ==
    ASSUME NEW d \in Document, NEW ops \in Seq(Operation)
    PROVE  /\ ReplayFrom(d, ops) \in Document
           /\ ToSet(ReplayFrom(d, ops).list) \subseteq ToSet(d.list) \cup {ops[i].uid : i \in DOMAIN ops}
<1> DEFINE X == ToSet(d.list) \cup {ops[i].uid : i \in DOMAIN ops}
           V == {e \in Document : ToSet(e.list) \subseteq X}
           O == {op \in Operation : op.uid \in X}
<1>1. ApplyStaysIn(V, O)
  <2> SUFFICES ASSUME NEW e \in V, NEW op \in O PROVE Apply(e, op) \in V
    BY DEF ApplyStaysIn
  <2>1. /\ e \in Document /\ op \in Operation /\ ToSet(e.list) \subseteq X /\ op.uid \in X
    OBVIOUS
  <2> HIDE DEF X
  <2>2. Apply(e, op) \in Document /\ ToSet(Apply(e, op).list) \subseteq ToSet(e.list) \cup {op.uid}
    BY <2>1, ApplyIsDocument
  <2>3. QED
    BY <2>1, <2>2
<1>2. d \in V
  OBVIOUS
<1>3. ops \in Seq(O)
  <2>1. \A i \in 1..Len(ops) : ops[i] \in O
    OBVIOUS
  <2> HIDE DEF O, X, V
  <2>2. QED
    BY <2>1
<1>4. ReplayFrom(d, ops) = Replayed(d, ops)
  BY Zenon DEF ReplayFrom, Replayed
<1> HIDE DEF V, O
<1>5. Replayed(d, ops) \in V
  BY <1>1, <1>2, <1>3, FoldApplyStays
<1>6. QED
  BY <1>4, <1>5 DEF V

\* gc() leaves the visible characters and no tombstones.
LEMMA GcIsDocument ==
    ASSUME NEW d \in Document
    PROVE  Gc(d) \in Document /\ ToSet(Gc(d).list) = VisibleUids(d) /\ VisibleUids(d) \subseteq Uids
<1>1. d.list \in Seq(Uids)
  BY DEF Document
<1>2. Omit(d.list, d.tomb) \in Seq(Uids) /\ ToSet(Omit(d.list, d.tomb)) = ToSet(d.list) \ d.tomb
  BY <1>1, OmitElements
<1>3. ToSet(d.list) \subseteq Uids
  BY <1>1 DEF ToSet
<1>4. QED
  BY <1>2, <1>3 DEF Gc, Text, Document, VisibleUids

\* The empty document is one.
LEMMA EmptyIsDocument == EmptyDoc \in Document /\ ToSet(EmptyDoc.list) = {}
BY DEF EmptyDoc, Document, ToSet

\* The clock a client counts up from (its replica's clock) is a natural.
LEMMA ClockIsNat == ASSUME NEW d \in Document PROVE ClockOf(d) \in Nat
<1>1. d.list \in Seq(Uids) /\ \A u \in Uids : u.clock \in Nat
  BY DEF Document, Uids, UID
<1>2. QED
  BY <1>1, GreatestClock DEF ClockOf

----------------------------------------------------------------------------
(* Types. *)

HandRecords(ids, seqs) ==
    [stage : {"idle", "closed", "load", "append", "publish"}, op : Operation \cup {NoOp},
     entry : ids, seq : seqs]

LoadRecords(seqs) == [stage : {"none", "snapshot", "operations", "resume"}, seq : seqs, doc : Document]

TaskRecords(ids, seqs) ==
    [id : seqs, worker : Workers, entry : ids, stage : {"load", "measure", "collect", "save", "prune"},
     seq : {0} \cup seqs, doc : Document]

\* TypeOK, its sets named.
ServerTypeOK ==
    /\ home \in Homes
    /\ typed \in [Sessions -> Seq(Operation)]
    /\ seen \in [Sessions -> 0..Len(channel)]
    /\ entries \in Seq([doc : Document, lastSeq : 0..Len(log)])
    /\ cache \in [Workers -> 0..Len(entries)]
    /\ hand \in [Sessions -> HandRecords(0..Len(entries), 0..Len(log))]
    /\ load \in [Workers -> LoadRecords(0..(Len(log) + 1))]
    /\ log \in Seq([session : Sessions \cup {0}, op : Operation])
    /\ snapshots \subseteq [seq : 1..(Len(log) + 1), doc : Document]
    /\ channel \in Seq(DOMAIN log)
    /\ tasks \subseteq TaskRecords(0..Len(entries), DOMAIN log)
    /\ due \in 0..MaxCompactions /\ evicted \in 0..MaxEvictions
    /\ abandoned \subseteq Operation /\ faults \in 0..MaxFaults

\* What a handler and a compaction know once they are past a stage: the
\* operation, its seq, the entry they keep a reference to, the seq measured.
StagesInOrder ==
    /\ \A s \in Sessions : hand[s].stage \in {"load", "append", "publish"} => hand[s].op \in Operation
    /\ \A s \in Sessions : hand[s].stage = "publish" => hand[s].seq \in DOMAIN log
    /\ \A t \in tasks : t.stage # "load" => t.entry \in DOMAIN entries
    /\ \A t \in tasks : t.stage \in {"collect", "save", "prune"} => t.seq \in DOMAIN log
    /\ \A w \in Workers : load[w].stage = "resume" => load[w].seq \in 0..Len(log)

\* The parts that the steps below look at.
LEMMA TypeParts ==
    ASSUME ServerTypeOK
    PROVE  /\ Len(log) \in Nat /\ DOMAIN log = 1..Len(log) /\ \A i \in DOMAIN log : log[i].op \in Operation
           /\ Len(channel) \in Nat /\ DOMAIN channel = 1..Len(channel)
           /\ \A p \in DOMAIN channel : channel[p] \in DOMAIN log
           /\ Len(entries) \in Nat /\ DOMAIN entries = 1..Len(entries)
           /\ \A e \in DOMAIN entries : entries[e].doc \in Document /\ entries[e].lastSeq \in 0..Len(log)
           /\ \A w \in Workers : cache[w] \in 0..Len(entries) /\ (Cached(w) => cache[w] \in DOMAIN entries)
           /\ \A w \in Workers : load[w].seq \in 0..(Len(log) + 1) /\ load[w].doc \in Document
           /\ \A s \in Sessions : home[s] \in Workers
           /\ \A snap \in snapshots : snap.seq \in 1..(Len(log) + 1) /\ snap.doc \in Document
<1>1. Len(log) \in Nat /\ DOMAIN log = 1..Len(log) /\ \A i \in DOMAIN log : log[i].op \in Operation
  <2>1. log \in Seq([session : Sessions \cup {0}, op : Operation])
    BY DEF ServerTypeOK
  <2>2. \A i \in 1..Len(log) : log[i] \in [session : Sessions \cup {0}, op : Operation]
    BY <2>1, ElementOfSeq
  <2>3. QED
    BY <2>1, <2>2
<1>2. /\ Len(channel) \in Nat /\ DOMAIN channel = 1..Len(channel)
      /\ \A p \in DOMAIN channel : channel[p] \in DOMAIN log
  BY DEF ServerTypeOK
<1>3. /\ Len(entries) \in Nat /\ DOMAIN entries = 1..Len(entries)
      /\ \A e \in DOMAIN entries : entries[e].doc \in Document /\ entries[e].lastSeq \in 0..Len(log)
  <2>1. entries \in Seq([doc : Document, lastSeq : 0..Len(log)])
    BY DEF ServerTypeOK
  <2>2. \A e \in 1..Len(entries) : entries[e] \in [doc : Document, lastSeq : 0..Len(log)]
    BY <2>1, ElementOfSeq
  <2>3. QED
    BY <2>1, <2>2
<1>4. \A w \in Workers : cache[w] \in 0..Len(entries) /\ (Cached(w) => cache[w] \in DOMAIN entries)
  BY <1>3 DEF ServerTypeOK, Cached
<1>5. \A w \in Workers : load[w].seq \in 0..(Len(log) + 1) /\ load[w].doc \in Document
  BY DEF ServerTypeOK, LoadRecords
<1>6. \A s \in Sessions : home[s] \in Workers
  BY HomesAssumption DEF ServerTypeOK
<1>7. \A snap \in snapshots : snap.seq \in 1..(Len(log) + 1) /\ snap.doc \in Document
  BY DEF ServerTypeOK
<1>8. QED
  BY <1>1, <1>2, <1>3, <1>4, <1>5, <1>6, <1>7

\* What a load reads (loadLatestSnapshot, getOperationsAfter) is well typed.
LEMMA RowsRead ==
    ASSUME ServerTypeOK
    PROVE  /\ LatestSnapshot.seq \in 0..(Len(log) + 1) /\ LatestSnapshot.doc \in Document
           /\ snapshots # {} => LatestSnapshot \in snapshots
           /\ \A seq \in 0..(Len(log) + 1) : StoredAfter(seq) \in Seq(Operation)
           /\ \A seq \in 0..(Len(log) + 1) : \A i \in DOMAIN StoredAfter(seq) :
                 \E j \in DOMAIN log : StoredAfter(seq)[i] = log[j].op
<1>1. Len(log) \in Nat /\ DOMAIN log = 1..Len(log) /\ \A i \in DOMAIN log : log[i].op \in Operation
  BY TypeParts
<1>2. /\ LatestSnapshot.seq \in 0..(Len(log) + 1) /\ LatestSnapshot.doc \in Document
      /\ snapshots # {} => LatestSnapshot \in snapshots
  <2>1. CASE snapshots = {}
    BY <1>1, <2>1, EmptyIsDocument DEF LatestSnapshot, NoSnapshot
  <2>2. CASE snapshots # {}
    <3>1. \A snap \in snapshots : snap.seq \in 0..(Len(log) + 1) /\ snap.doc \in Document
      BY <1>1, TypeParts
    <3>2. \E snap \in snapshots : \A other \in snapshots : other.seq <= snap.seq
      BY <1>1, <2>2, <3>1, GreatestSeq
    <3>3. LatestSnapshot \in snapshots
      BY <2>2, <3>2 DEF LatestSnapshot
    <3>4. QED
      BY <3>1, <3>3
  <2>3. QED
    BY <2>1, <2>2
<1>4. ASSUME NEW seq \in 0..(Len(log) + 1)
      PROVE  /\ StoredAfter(seq) \in Seq(Operation)
             /\ \A i \in DOMAIN StoredAfter(seq) : \E j \in DOMAIN log : StoredAfter(seq)[i] = log[j].op
  <2>1. \A i \in 1..(Len(log) - seq) : seq + i \in DOMAIN log
    BY <1>1
  <2>2. \A i \in 1..(Len(log) - seq) : log[seq + i].op \in Operation
    BY <1>1, <2>1
  <2>3. DOMAIN StoredAfter(seq) = 1..(Len(log) - seq)
    BY DEF StoredAfter
  <2>4. \A i \in 1..(Len(log) - seq) : StoredAfter(seq)[i] = log[seq + i].op
    BY DEF StoredAfter
  <2>5. StoredAfter(seq) \in Seq(Operation)
    <3>1. CASE seq = Len(log) + 1
      <4>1. 1..(Len(log) - seq) = 1..0
        BY <1>1, <3>1
      <4>2. StoredAfter(seq) = [i \in 1..0 |-> log[seq + i].op]
        BY <4>1 DEF StoredAfter
      <4>3. QED
        BY <4>2
    <3>2. CASE seq # Len(log) + 1
      <4>1. Len(log) - seq \in Nat
        BY <1>1, <3>2
      <4>2. QED
        BY <2>2, <4>1 DEF StoredAfter
    <3>3. QED
      BY <3>1, <3>2
  <2>6. QED
    BY <2>1, <2>3, <2>4, <2>5
<1>5. QED
  BY <1>2, <1>4

\* What a client types on its replica of a prefix of the channel and its own
\* operations is an operation over the sessions' UIDs (submitInsert, submitDelete).
LEMMA KeystrokesAreOperations ==
    ASSUME ServerTypeOK, NEW s \in Sessions, NEW n \in 0..Len(channel)
    PROVE  Keystrokes(s, n) \subseteq Operation
<1> DEFINE published == [i \in 1..n |-> log[channel[i]].op]
           view == View(s, n)
<1>1. published \in Seq(Operation)
  <2>1. \A i \in 1..n : i \in DOMAIN channel
    BY TypeParts
  <2>2. \A i \in 1..n : log[channel[i]].op \in Operation
    BY <2>1, TypeParts
  <2>3. n \in Nat
    BY TypeParts
  <2>4. QED
    BY <2>2, <2>3
<1>2. typed[s] \in Seq(Operation)
  BY DEF ServerTypeOK
<1> HIDE DEF published
<1>3. ReplayFrom(EmptyDoc, published) \in Document
  BY <1>1, EmptyIsDocument, ReplayIsDocument
<1>4. view \in Document
  <2>1. view = ReplayFrom(ReplayFrom(EmptyDoc, published), typed[s])
    BY Zenon DEF View, published
  <2> HIDE DEF view
  <2>2. QED
    BY <1>2, <1>3, <2>1, ReplayIsDocument
<1> HIDE DEF view
<1>5. ClockOf(view) \in Nat /\ VisibleUids(view) \subseteq Uids
  BY <1>4, ClockIsNat, GcIsDocument
<1>6. [clock |-> ClockOf(view) + 1, site |-> s] \in Uids
  BY <1>5 DEF Uids, UID
<1>7. Keystrokes(s, n) = {InsertOp([clock |-> ClockOf(view) + 1, site |-> s], a) :
                              a \in VisibleUids(view) \cup {Root}}
                            \cup {DeleteOp(u) : u \in VisibleUids(view)}
  BY Zenon DEF Keystrokes, view
<1>8. QED
  BY <1>5, <1>6, <1>7 DEF InsertOp, DeleteOp, Operation

\* The handlers that wait for a load go on one after the other, each once.
LEMMA WaitingAreSessions ==
    ASSUME NEW S \in SUBSET Sessions
    PROVE  /\ Cardinality(S) \in Nat
           /\ SetToSeq(S) \in [1..Cardinality(S) -> S]
<1>1. IsFiniteSet(S)
  BY SessionsAssumption, FS_Subset
<1>2. Cardinality(S) \in Nat /\ ExistsBijection(1..Cardinality(S), S)
  BY <1>1, FS_CardinalityType
<1>3. \E f \in [1..Cardinality(S) -> S] : IsInjective(f)
  BY <1>2 DEF ExistsBijection, Bijection, Injection
<1>4. QED
  BY <1>2, <1>3 DEF SetToSeq

-----------------------------------------------------------------------------
(* What is typed stays so.                                                 *)

\* What is well typed stays so when table, channel and entries grow.
LEMMA TypesGrow ==
    ASSUME ServerTypeOK, NEW l \in Nat, Len(log) <= l, NEW e \in Nat, Len(entries) <= e
    PROVE  /\ entries \in Seq([doc : Document, lastSeq : 0..l])
           /\ cache \in [Workers -> 0..e]
           /\ hand \in [Sessions -> HandRecords(0..e, 0..l)]
           /\ load \in [Workers -> LoadRecords(0..(l + 1))]
           /\ snapshots \subseteq [seq : 1..(l + 1), doc : Document]
           /\ channel \in Seq(1..l)
           /\ tasks \subseteq TaskRecords(0..e, 1..l)
<1>1. /\ Len(log) \in Nat /\ DOMAIN log = 1..Len(log) /\ Len(entries) \in Nat
      /\ DOMAIN entries = 1..Len(entries)
  BY TypeParts
<1>2. 0..Len(log) \subseteq 0..l /\ 1..Len(log) \subseteq 1..l /\ 0..Len(entries) \subseteq 0..e
  BY <1>1
<1>3. entries \in Seq([doc : Document, lastSeq : 0..l])
  <2> DEFINE R == [doc : Document, lastSeq : 0..Len(log)]
             Q == [doc : Document, lastSeq : 0..l]
  <2>1. entries \in Seq(R) /\ R \subseteq Q
    BY <1>2 DEF ServerTypeOK
  <2> HIDE DEF R, Q
  <2>2. \A i \in 1..Len(entries) : entries[i] \in Q
    BY <2>1, ElementOfSeq
  <2>3. entries \in Seq(Q)
    BY <2>1, <2>2, SeqOfMembers
  <2>4. QED
    BY <2>3 DEF Q
<1>4. cache \in [Workers -> 0..e]
  BY <1>2 DEF ServerTypeOK
<1>5. hand \in [Sessions -> HandRecords(0..e, 0..l)]
  <2>1. HandRecords(0..Len(entries), 0..Len(log)) \subseteq HandRecords(0..e, 0..l)
    BY <1>2 DEF HandRecords
  <2>2. QED
    BY <2>1 DEF ServerTypeOK
<1>6. load \in [Workers -> LoadRecords(0..(l + 1))]
  <2>1. LoadRecords(0..(Len(log) + 1)) \subseteq LoadRecords(0..(l + 1))
    BY <1>2 DEF LoadRecords
  <2>2. QED
    BY <2>1 DEF ServerTypeOK
<1>7. snapshots \subseteq [seq : 1..(l + 1), doc : Document]
  BY <1>1, <1>2 DEF ServerTypeOK
<1>8. channel \in Seq(1..l)
  <2>1. channel \in Seq(1..Len(log))
    BY <1>1 DEF ServerTypeOK
  <2>2. QED
    BY <1>2, <2>1
<1>9. tasks \subseteq TaskRecords(0..e, 1..l)
  <2>1. TaskRecords(0..Len(entries), 1..Len(log)) \subseteq TaskRecords(0..e, 1..l)
    BY <1>2 DEF TaskRecords
  <2>2. QED
    BY <1>1, <2>1 DEF ServerTypeOK
<1>10. QED
  BY <1>3, <1>4, <1>5, <1>6, <1>7, <1>8, <1>9

\* A handler's new record, when it is in order, leaves all handlers in order.
LEMMA HandIsTyped ==
    ASSUME NEW ids, NEW seqs, hand \in [Sessions -> HandRecords(ids, seqs)],
           NEW s \in Sessions, NEW h \in HandRecords(ids, seqs), hand' = [hand EXCEPT ![s] = h]
    PROVE  /\ hand' \in [Sessions -> HandRecords(ids, seqs)]
           /\ hand'[s] = h /\ \A r \in Sessions : r # s => hand'[r] = hand[r]
<1> HIDE DEF HandRecords
<1>1. QED
  OBVIOUS

\* An entry's document changes in place.
LEMMA EntryIsTyped ==
    ASSUME ServerTypeOK, NEW e \in DOMAIN entries, NEW d \in Document,
           entries' = [entries EXCEPT ![e].doc = d]
    PROVE  /\ entries' \in Seq([doc : Document, lastSeq : 0..Len(log)])
           /\ Len(entries') = Len(entries) /\ DOMAIN entries' = DOMAIN entries
           /\ entries'[e].doc = d
           /\ \A i \in DOMAIN entries : i # e => entries'[i].doc = entries[i].doc
<1>1. /\ Len(entries) \in Nat /\ DOMAIN entries = 1..Len(entries)
      /\ entries \in Seq([doc : Document, lastSeq : 0..Len(log)])
  BY TypeParts DEF ServerTypeOK
<1>2. entries[e] \in [doc : Document, lastSeq : 0..Len(log)]
  BY <1>1, ElementOfSeq
<1>3. [entries[e] EXCEPT !.doc = d] \in [doc : Document, lastSeq : 0..Len(log)]
  BY <1>2
<1>4. entries' = [entries EXCEPT ![e] = [entries[e] EXCEPT !.doc = d]]
  OBVIOUS
<1>5. QED
  BY <1>1, <1>2, <1>3, <1>4, ExceptSeq

-----------------------------------------------------------------------------
(* Steps of handlers, compactions and loads.                               *)

\* The document of a cache entry takes in an operation (getOrLoadDocument's
\* entry, handleOperation).
LEMMA ApplyInIsTyped ==
    ASSUME ServerTypeOK, NEW e \in DOMAIN entries, NEW op \in Operation, ApplyIn(e, op)
    PROVE  /\ entries' \in Seq([doc : Document, lastSeq : 0..Len(log)])
           /\ Len(entries') = Len(entries) /\ DOMAIN entries' = DOMAIN entries
           /\ entries'[e].doc = Apply(entries[e].doc, op)
           /\ \A i \in DOMAIN entries : i # e => entries'[i].doc = entries[i].doc
<1> DEFINE d == Apply(entries[e].doc, op)
<1>1. d \in Document
  BY TypeParts, ApplyIsDocument
<1>2. entries' = [entries EXCEPT ![e].doc = d]
  BY DEF ApplyIn
<1> HIDE DEF d
<1>3. QED
  BY <1>1, <1>2, EntryIsTyped DEF d

\* Waiting for a load starts one at most.
LEMMA AwaitLoadIsTyped ==
    ASSUME ServerTypeOK, NEW w \in Workers, AwaitLoad(w)
    PROVE  /\ load' \in [Workers -> LoadRecords(0..(Len(log) + 1))]
           /\ \A v \in Workers : load'[v].doc = load[v].doc
           /\ \A v \in Workers : load'[v].stage = "resume" => load'[v] = load[v]
<1>1. load \in [Workers -> LoadRecords(0..(Len(log) + 1))] /\ load[w] \in LoadRecords(0..(Len(log) + 1))
  BY DEF ServerTypeOK
<1>2. /\ [load[w] EXCEPT !.stage = "snapshot"] \in LoadRecords(0..(Len(log) + 1))
      /\ [load[w] EXCEPT !.stage = "snapshot"].doc = load[w].doc
      /\ [load[w] EXCEPT !.stage = "snapshot"].stage = "snapshot"
  BY <1>1 DEF LoadRecords
<1>3. load' = load \/ load' = [load EXCEPT ![w] = [load[w] EXCEPT !.stage = "snapshot"]]
  BY DEF AwaitLoad
<1>4. QED
  BY <1>1, <1>2, <1>3

\* What becomes of an operation that is taken up: applied to the cached
\* document, held until a load ends, or refused.
Applies(s, op) ==
    /\ Cached(home[s]) /\ ApplyIn(cache[home[s]], op)
    /\ hand' = [hand EXCEPT ![s] = [stage |-> "append", op |-> op, entry |-> cache[home[s]], seq |-> 0]]
    /\ UNCHANGED <<load, faults>>

Waits(s, op) ==
    /\ ~Cached(home[s]) /\ AwaitLoad(home[s])
    /\ hand' = [hand EXCEPT ![s] = [stage |-> "load", op |-> op, entry |-> 0, seq |-> 0]]
    /\ UNCHANGED <<entries, faults>>

Refuses == faults < MaxFaults /\ faults' = faults + 1 /\ UNCHANGED <<hand, entries, load>>

\* Some keystroke of a session is taken up or refused.
LEMMA TakenUp ==
    ASSUME ServerTypeOK, NEW s \in Sessions, Take(s) \/ Refuse(s)
    PROVE  \E n \in seen[s]..Len(channel) : \E op \in Keystrokes(s, n) :
               Sent(s, n, op) /\ (Applies(s, op) \/ Waits(s, op) \/ Refuses)
<1>1. CASE Take(s)
  BY <1>1, Zenon DEF Take, boundVars, Applies, Waits
<1>2. CASE Refuse(s)
  <2>1. \E n \in seen[s]..Len(channel) : \E op \in Keystrokes(s, n) : Sent(s, n, op)
    BY <1>2, Zenon DEF Refuse
  <2>2. Refuses
    BY <1>2 DEF Refuse, cacheVars, Refuses
  <2>3. QED
    BY <2>1, <2>2
<1>3. QED
  BY <1>1, <1>2

\* One of the three, and nothing else on the server.
LEMMA TakeIs ==
    ASSUME ServerTypeOK, NEW s \in Sessions, Take(s) \/ Refuse(s)
    PROVE  /\ \E n \in 0..Len(channel) : \E op \in Operation :
                 Sent(s, n, op) /\ (Applies(s, op) \/ Waits(s, op) \/ Refuses)
           /\ hand[s].stage = "idle"
           /\ UNCHANGED <<cache, log, snapshots, channel, tasks, due, evicted, abandoned>>
<1>1. PICK n \in seen[s]..Len(channel) : \E op \in Keystrokes(s, n) :
          Sent(s, n, op) /\ (Applies(s, op) \/ Waits(s, op) \/ Refuses)
  BY TakenUp
<1>2. PICK op \in Keystrokes(s, n) : Sent(s, n, op) /\ (Applies(s, op) \/ Waits(s, op) \/ Refuses)
  BY <1>1
<1>3. n \in 0..Len(channel)
  <2>1. seen[s] \in 0..Len(channel) /\ Len(channel) \in Nat
    BY TypeParts DEF ServerTypeOK
  <2>2. QED
    BY <2>1
<1>4. op \in Operation
  BY <1>2, <1>3, KeystrokesAreOperations
<1>5. UNCHANGED <<cache, log, snapshots, channel, tasks, due, evicted, abandoned>>
  BY DEF Take, Refuse, cacheVars, boundVars
<1>6. hand[s].stage = "idle"
  BY DEF Take, Refuse, Ready
<1>7. QED
  BY <1>2, <1>3, <1>4, <1>5, <1>6

\* Taking up an operation, or refusing it, leaves everything of its type.
LEMMA TakeKeepsTypes ==
    ASSUME ServerTypeOK, StagesInOrder, NEW s \in Sessions, Take(s) \/ Refuse(s)
    PROVE  ServerTypeOK' /\ StagesInOrder'
<1>1. PICK n \in 0..Len(channel) : \E op \in Operation :
          Sent(s, n, op) /\ (Applies(s, op) \/ Waits(s, op) \/ Refuses)
  BY TakeIs
<1>2. PICK op \in Operation : Sent(s, n, op) /\ (Applies(s, op) \/ Waits(s, op) \/ Refuses)
  BY <1>1
<1>3. typed' \in [Sessions -> Seq(Operation)] /\ seen' \in [Sessions -> 0..Len(channel)] /\ home' = home
  BY <1>2 DEF Sent, ServerTypeOK
<1>4. UNCHANGED <<cache, log, snapshots, channel, tasks, due, evicted, abandoned>>
  BY TakeIs
<1>5. home[s] \in Workers /\ Len(entries) \in Nat /\ Len(log) \in Nat /\ DOMAIN entries = 1..Len(entries)
  BY TypeParts
<1>6. hand \in [Sessions -> HandRecords(0..Len(entries), 0..Len(log))]
  BY DEF ServerTypeOK
<1>7. CASE Applies(s, op)
  <2>1. cache[home[s]] \in DOMAIN entries /\ cache[home[s]] \in 0..Len(entries)
    BY <1>5, <1>7, TypeParts DEF Applies
  <2>2. /\ entries' \in Seq([doc : Document, lastSeq : 0..Len(log)])
        /\ Len(entries') = Len(entries) /\ DOMAIN entries' = DOMAIN entries
    BY <1>7, <2>1, ApplyInIsTyped DEF Applies
  <2> DEFINE h == [stage |-> "append", op |-> op, entry |-> cache[home[s]], seq |-> 0]
  <2>3. h \in HandRecords(0..Len(entries), 0..Len(log))
    BY <1>5, <2>1 DEF HandRecords
  <2>4. h.stage = "append" /\ h.op = op
    OBVIOUS
  <2>5. hand' = [hand EXCEPT ![s] = h]
    BY <1>7 DEF Applies
  <2> HIDE DEF h
  <2>6. /\ hand' \in [Sessions -> HandRecords(0..Len(entries), 0..Len(log))]
        /\ hand'[s] = h /\ \A r \in Sessions : r # s => hand'[r] = hand[r]
    BY <1>6, <2>3, <2>5, HandIsTyped
  <2>7. ServerTypeOK'
    BY <1>3, <1>4, <1>7, <2>2, <2>6 DEF ServerTypeOK, Applies
  <2>8. StagesInOrder'
    BY <1>4, <1>7, <2>2, <2>4, <2>6 DEF StagesInOrder, Applies
  <2>9. QED
    BY <2>7, <2>8
<1>8. CASE Waits(s, op)
  <2> DEFINE h == [stage |-> "load", op |-> op, entry |-> 0, seq |-> 0]
  <2>1. h \in HandRecords(0..Len(entries), 0..Len(log))
    BY <1>5 DEF HandRecords
  <2>2. h.stage = "load" /\ h.op = op
    OBVIOUS
  <2>3. hand' = [hand EXCEPT ![s] = h]
    BY <1>8 DEF Waits
  <2> HIDE DEF h
  <2>4. /\ hand' \in [Sessions -> HandRecords(0..Len(entries), 0..Len(log))]
        /\ hand'[s] = h /\ \A r \in Sessions : r # s => hand'[r] = hand[r]
    BY <1>6, <2>1, <2>3, HandIsTyped
  <2>5. /\ load' \in [Workers -> LoadRecords(0..(Len(log) + 1))]
        /\ \A w \in Workers : load'[w].stage = "resume" => load'[w] = load[w]
    BY <1>5, <1>8, AwaitLoadIsTyped DEF Waits
  <2>6. ServerTypeOK'
    BY <1>3, <1>4, <1>8, <2>4, <2>5 DEF ServerTypeOK, Waits
  <2>7. StagesInOrder'
    BY <1>4, <1>8, <2>2, <2>4, <2>5 DEF StagesInOrder, Waits
  <2>8. QED
    BY <2>6, <2>7
<1>9. CASE Refuses
  <2>1. faults' \in 0..MaxFaults
    BY <1>9, BoundsAssumption DEF ServerTypeOK, Refuses
  <2>2. QED
    BY <1>3, <1>4, <1>9, <2>1 DEF ServerTypeOK, StagesInOrder, Refuses
<1>10. QED
  BY <1>2, <1>7, <1>8, <1>9

\* A stored operation is a row more, its seq on the handler and on the entry
\* the worker has in its cache (appendOperation, updateCachedDocument).
LEMMA AppendIs ==
    ASSUME ServerTypeOK, StagesInOrder, NEW s \in Sessions, AppendOperation(s)
    PROVE  /\ hand[s].stage = "append" /\ hand[s].op \in Operation
           /\ log' = Append(log, [session |-> s, op |-> hand[s].op])
           /\ log' \in Seq([session : Sessions \cup {0}, op : Operation])
           /\ Len(log') = Len(log) + 1 /\ DOMAIN log' = 1..(Len(log) + 1)
           /\ log'[Len(log) + 1].op = hand[s].op
           /\ \A i \in DOMAIN log : i \in DOMAIN log' /\ log'[i] = log[i]
           /\ entries' \in Seq([doc : Document, lastSeq : 0..(Len(log) + 1)])
           /\ Len(entries') = Len(entries) /\ DOMAIN entries' = DOMAIN entries
           /\ \A e \in DOMAIN entries : entries'[e].doc = entries[e].doc
           /\ hand' \in [Sessions -> HandRecords(0..Len(entries), 0..(Len(log) + 1))]
           /\ hand'[s].stage = "publish" /\ hand'[s].seq = Len(log) + 1 /\ hand'[s].op = hand[s].op
           /\ \A r \in Sessions : r # s => hand'[r] = hand[r]
           /\ UNCHANGED <<clientVars, cache, load, snapshots, channel, tasks, boundVars>>
<1> DEFINE l == Len(log) + 1
           row == [session |-> s, op |-> hand[s].op]
<1>1. /\ Len(log) \in Nat /\ l \in Nat /\ Len(log) <= l /\ Len(entries) \in Nat /\ home[s] \in Workers
      /\ DOMAIN log = 1..Len(log) /\ DOMAIN entries = 1..Len(entries)
  BY TypeParts
<1>2. hand[s].stage = "append" /\ hand[s].op \in Operation
  BY DEF AppendOperation, StagesInOrder
<1>3. /\ log' \in Seq([session : Sessions \cup {0}, op : Operation])
      /\ Len(log') = l /\ DOMAIN log' = 1..l /\ log'[l] = row
      /\ \A i \in DOMAIN log : i \in DOMAIN log' /\ log'[i] = log[i]
  <2> DEFINE R == [session : Sessions \cup {0}, op : Operation]
  <2>1. log \in Seq(R) /\ row \in R /\ log' = Append(log, row)
    BY <1>2 DEF ServerTypeOK, AppendOperation
  <2> HIDE DEF R, row
  <2>2. /\ log' \in Seq(R) /\ Len(log') = Len(log) + 1 /\ log'[Len(log) + 1] = row
        /\ \A i \in 1..Len(log) : log'[i] = log[i]
    BY <2>1, AppendProperties
  <2>3. DOMAIN log' = 1..(Len(log) + 1)
    BY <2>2
  <2>4. \A i \in 1..Len(log) : i \in 1..(Len(log) + 1)
    BY <1>1
  <2>5. QED
    BY <1>1, <2>2, <2>3, <2>4 DEF R
<1>4. /\ entries \in Seq([doc : Document, lastSeq : 0..l])
      /\ hand \in [Sessions -> HandRecords(0..Len(entries), 0..l)]
  <2>1. Len(entries) <= Len(entries)
    BY <1>1
  <2> HIDE DEF l
  <2>2. QED
    BY <1>1, <2>1, TypesGrow
<1>5. /\ entries' \in Seq([doc : Document, lastSeq : 0..l])
      /\ Len(entries') = Len(entries) /\ DOMAIN entries' = DOMAIN entries
      /\ \A e \in DOMAIN entries : entries'[e].doc = entries[e].doc
  <2>1. CASE ~Cached(home[s])
    BY <1>4, <2>1 DEF AppendOperation
  <2>2. CASE Cached(home[s])
    <3> DEFINE e == cache[home[s]]
               R == [doc : Document, lastSeq : 0..l]
               x == [entries[e] EXCEPT !.lastSeq = l]
    <3>1. e \in 1..Len(entries)
      BY <1>1, <2>2, TypeParts
    <3>2. entries' = [entries EXCEPT ![e] = x]
      BY <2>2 DEF AppendOperation
    <3> HIDE DEF e
    <3>3. entries[e] \in R
      BY <1>4, <3>1, ElementOfSeq
    <3>4. x \in R /\ x.doc = entries[e].doc
      BY <1>1, <3>3
    <3> HIDE DEF R, x
    <3>5. entries \in Seq(R)
      BY <1>4 DEF R
    <3>6. /\ entries' \in Seq(R) /\ Len(entries') = Len(entries)
          /\ \A j \in 1..Len(entries) : entries'[j] = IF j = e THEN x ELSE entries[j]
      BY <3>1, <3>2, <3>4, <3>5, ExceptSeq
    <3>7. DOMAIN entries' = 1..Len(entries)
      BY <1>1, <3>2
    <3>8. QED
      BY <1>1, <3>4, <3>6, <3>7 DEF R
  <2>3. QED
    BY <2>1, <2>2
<1>6. /\ hand' \in [Sessions -> HandRecords(0..Len(entries), 0..l)]
      /\ hand'[s].stage = "publish" /\ hand'[s].seq = l /\ hand'[s].op = hand[s].op
      /\ \A r \in Sessions : r # s => hand'[r] = hand[r]
  <2> DEFINE h == [hand[s] EXCEPT !.stage = "publish", !.seq = l]
  <2>1. hand' = [hand EXCEPT ![s] = h]
    BY DEF AppendOperation
  <2>2. hand[s] \in HandRecords(0..Len(entries), 0..l)
    BY <1>4
  <2>3. h \in HandRecords(0..Len(entries), 0..l) /\ h.stage = "publish" /\ h.seq = l /\ h.op = hand[s].op
    <3>1. l \in 0..l
      BY <1>1
    <3> HIDE DEF l
    <3>2. QED
      BY <2>2, <3>1 DEF HandRecords
  <2> HIDE DEF h
  <2>4. QED
    BY <1>4, <2>1, <2>3, HandIsTyped
<1>7. UNCHANGED <<clientVars, cache, load, snapshots, channel, tasks, boundVars>>
  BY DEF AppendOperation
<1>8. log' = Append(log, row) /\ row.op = hand[s].op
  BY DEF AppendOperation
<1>9. QED
  BY <1>2, <1>3, <1>5, <1>6, <1>7, <1>8

\* Storing an operation leaves everything of its type.
LEMMA AppendKeepsTypes ==
    ASSUME ServerTypeOK, StagesInOrder, NEW s \in Sessions, AppendOperation(s)
    PROVE  ServerTypeOK' /\ StagesInOrder'
<1> DEFINE l == Len(log) + 1
<1>1. /\ Len(log) \in Nat /\ l \in Nat /\ Len(log) <= l /\ Len(entries) \in Nat /\ Len(entries) <= Len(entries)
      /\ DOMAIN log = 1..Len(log)
  BY TypeParts
<1>2. /\ log' \in Seq([session : Sessions \cup {0}, op : Operation])
      /\ Len(log') = l /\ DOMAIN log' = 1..l
      /\ entries' \in Seq([doc : Document, lastSeq : 0..l])
      /\ Len(entries') = Len(entries) /\ DOMAIN entries' = DOMAIN entries
      /\ hand' \in [Sessions -> HandRecords(0..Len(entries), 0..l)]
      /\ hand'[s].stage = "publish" /\ hand'[s].seq = l
      /\ \A r \in Sessions : r # s => hand'[r] = hand[r]
      /\ UNCHANGED <<clientVars, cache, load, snapshots, channel, tasks, boundVars>>
  BY AppendIs
<1> HIDE DEF l
<1>3. /\ load \in [Workers -> LoadRecords(0..(l + 1))]
      /\ snapshots \subseteq [seq : 1..(l + 1), doc : Document]
      /\ channel \in Seq(1..l)
      /\ tasks \subseteq TaskRecords(0..Len(entries), 1..l)
  BY <1>1, TypesGrow
<1>4. ServerTypeOK'
  BY <1>2, <1>3 DEF ServerTypeOK, clientVars, boundVars
<1>5. l \in 1..l /\ 1..Len(log) \subseteq 1..l
  BY <1>1 DEF l
<1>6. StagesInOrder'
  <2>1. \A r \in Sessions : hand'[r].stage \in {"load", "append", "publish"} => hand'[r].op \in Operation
    <3>1. hand'[s].op = hand[s].op /\ hand[s].op \in Operation
      BY AppendIs
    <3>2. QED
      BY <1>2, <3>1 DEF StagesInOrder
  <2>2. \A r \in Sessions : hand'[r].stage = "publish" => hand'[r].seq \in DOMAIN log'
    BY <1>1, <1>2, <1>5 DEF StagesInOrder
  <2>3. \A t \in tasks' : /\ t.stage # "load" => t.entry \in DOMAIN entries'
                          /\ t.stage \in {"collect", "save", "prune"} => t.seq \in DOMAIN log'
    BY <1>1, <1>2, <1>5 DEF StagesInOrder
  <2>4. \A w \in Workers : load'[w].stage = "resume" => load'[w].seq \in 0..Len(log')
    <3>1. \A w \in Workers : load[w].stage = "resume" => load[w].seq \in 0..Len(log)
      BY DEF StagesInOrder
    <3>2. QED
      BY <1>1, <1>2, <3>1 DEF l
  <2>5. QED
    BY <2>1, <2>2, <2>3, <2>4 DEF StagesInOrder
<1>7. QED
  BY <1>4, <1>6

\* Idle handlers, and those whose client is gone, know nothing.
LEMMA IdleIsTyped ==
    ASSUME NEW ids, NEW seqs, 0 \in ids, 0 \in seqs
    PROVE  /\ Idle \in HandRecords(ids, seqs) /\ Idle.stage = "idle"
           /\ Closed \in HandRecords(ids, seqs) /\ Closed.stage = "closed"
BY DEF Idle, Closed, HandRecords

\* A published operation ends its handler and may start a compaction
\* (publishOperation, maybeTakeSnapshot).
LEMMA PublishKeepsTypes ==
    ASSUME ServerTypeOK, StagesInOrder, NEW s \in Sessions, Publish(s)
    PROVE  ServerTypeOK' /\ StagesInOrder'
<1>1. /\ Len(log) \in Nat /\ Len(channel) \in Nat /\ Len(entries) \in Nat /\ home[s] \in Workers
      /\ DOMAIN log = 1..Len(log) /\ DOMAIN entries = 1..Len(entries)
  BY TypeParts
<1>2. hand[s].stage = "publish" /\ hand[s].seq \in DOMAIN log
  BY DEF Publish, StagesInOrder
<1>3. channel' \in Seq(DOMAIN log) /\ Len(channel') = Len(channel) + 1
  <2>1. channel \in Seq(DOMAIN log) /\ channel' = Append(channel, hand[s].seq)
    BY DEF Publish, ServerTypeOK
  <2>2. QED
    BY <1>2, <2>1
<1>4. seen \in [Sessions -> 0..(Len(channel) + 1)]
  <2>1. 0..Len(channel) \subseteq 0..(Len(channel) + 1)
    BY <1>1
  <2>2. QED
    BY <2>1 DEF ServerTypeOK
<1>5. /\ hand' \in [Sessions -> HandRecords(0..Len(entries), 0..Len(log))]
      /\ hand'[s].stage = "idle" /\ \A r \in Sessions : r # s => hand'[r] = hand[r]
  <2>1. /\ hand \in [Sessions -> HandRecords(0..Len(entries), 0..Len(log))]
        /\ hand' = [hand EXCEPT ![s] = Idle]
    BY DEF ServerTypeOK, Publish
  <2>2. Idle \in HandRecords(0..Len(entries), 0..Len(log)) /\ Idle.stage = "idle"
    BY <1>1, IdleIsTyped
  <2>3. QED
    BY <2>1, <2>2, HandIsTyped
<1>6. /\ load' \in [Workers -> LoadRecords(0..(Len(log) + 1))]
      /\ \A w \in Workers : load'[w].stage = "resume" => load'[w] = load[w]
  <2>1. load' = load \/ AwaitLoad(home[s])
    BY DEF Publish
  <2>2. QED
    BY <1>1, <2>1, AwaitLoadIsTyped DEF ServerTypeOK
<1>7. UNCHANGED <<home, typed, seen, entries, cache, log, snapshots, evicted, abandoned, faults>>
  BY DEF Publish, clientVars
<1>8. CASE UNCHANGED <<due, tasks>>
  <2>1. ServerTypeOK'
    BY <1>3, <1>4, <1>5, <1>6, <1>7, <1>8 DEF ServerTypeOK
  <2>2. StagesInOrder'
    BY <1>5, <1>6, <1>7, <1>8 DEF StagesInOrder
  <2>3. QED
    BY <2>1, <2>2
<1>9. CASE ~UNCHANGED <<due, tasks>>
  <2> DEFINE t == [id |-> hand[s].seq, worker |-> home[s], entry |-> cache[home[s]],
                   stage |-> IF Cached(home[s]) THEN "measure" ELSE "load", seq |-> 0, doc |-> EmptyDoc]
  <2>1. due < MaxCompactions /\ due' = due + 1 /\ tasks' = tasks \cup {t}
    BY <1>9 DEF Publish, StartCompaction
  <2>2. due' \in 0..MaxCompactions
    BY <2>1, BoundsAssumption DEF ServerTypeOK
  <2>3. cache[home[s]] \in 0..Len(entries) /\ (Cached(home[s]) => cache[home[s]] \in DOMAIN entries)
    BY <1>1, TypeParts
  <2>4. t \in TaskRecords(0..Len(entries), DOMAIN log)
    BY <1>1, <1>2, <2>3, EmptyIsDocument DEF TaskRecords
  <2>5. /\ t.stage # "load" => t.entry \in DOMAIN entries
        /\ t.stage \notin {"collect", "save", "prune"}
    BY <2>3
  <2> HIDE DEF t
  <2>6. tasks' \subseteq TaskRecords(0..Len(entries), DOMAIN log)
    BY <2>1, <2>4 DEF ServerTypeOK
  <2>7. ServerTypeOK'
    BY <1>3, <1>4, <1>5, <1>6, <1>7, <2>2, <2>6 DEF ServerTypeOK
  <2>8. StagesInOrder'
    BY <1>5, <1>6, <1>7, <2>1, <2>5 DEF StagesInOrder
  <2>9. QED
    BY <2>7, <2>8
<1>10. QED
  BY <1>8, <1>9

\* What handlers have applied but not stored are operations.
LEMMA UnstoredAreOperations ==
    ASSUME StagesInOrder, NEW S \in SUBSET Sessions
    PROVE  Unstored(S) \subseteq Operation
BY DEF Unstored, StagesInOrder

\* One more fault is counted while the bound allows it.
LEMMA FaultsCounted ==
    ASSUME ServerTypeOK, faults < MaxFaults, faults' = faults + 1
    PROVE  faults' \in 0..MaxFaults
BY BoundsAssumption DEF ServerTypeOK

\* A handler that throws leaves everything of its type.
LEMMA FailingKeepsTypes ==
    ASSUME ServerTypeOK, StagesInOrder, NEW s \in Sessions, HandlerFails(s)
    PROVE  ServerTypeOK' /\ StagesInOrder'
<1>1. /\ hand' \in [Sessions -> HandRecords(0..Len(entries), 0..Len(log))]
      /\ hand'[s].stage = "idle" /\ \A r \in Sessions : r # s => hand'[r] = hand[r]
  <2>1. /\ hand \in [Sessions -> HandRecords(0..Len(entries), 0..Len(log))]
        /\ hand' = [hand EXCEPT ![s] = Idle]
    BY DEF ServerTypeOK, HandlerFails
  <2>2. Idle \in HandRecords(0..Len(entries), 0..Len(log)) /\ Idle.stage = "idle"
    <3>1. 0 \in 0..Len(entries) /\ 0 \in 0..Len(log)
      BY TypeParts
    <3>2. QED
      BY <3>1, IdleIsTyped
  <2>3. QED
    BY <2>1, <2>2, HandIsTyped
<1>2. abandoned' \subseteq Operation
  <2>1. Unstored({s}) \subseteq Operation
    BY UnstoredAreOperations
  <2>2. QED
    BY <2>1 DEF HandlerFails, ServerTypeOK
<1>3. faults' \in 0..MaxFaults
  BY FaultsCounted DEF HandlerFails
<1>4. UNCHANGED <<home, typed, seen, entries, cache, load, log, snapshots, channel, tasks, due, evicted>>
  BY DEF HandlerFails, clientVars, cacheVars
<1>5. ServerTypeOK'
  BY <1>1, <1>2, <1>3, <1>4 DEF ServerTypeOK
<1>6. StagesInOrder'
  BY <1>1, <1>4 DEF StagesInOrder
<1>7. QED
  BY <1>5, <1>6

\* A compaction's next record, when it is in order, leaves all in order.
LEMMA TaskIsTyped ==
    ASSUME ServerTypeOK, StagesInOrder, NEW t \in tasks, NEW next \in TaskRecords(0..Len(entries), DOMAIN log),
           Becomes(t, next), next.stage # "load" => next.entry \in DOMAIN entries,
           next.stage \in {"collect", "save", "prune"} => next.seq \in DOMAIN log
    PROVE  /\ tasks' \subseteq TaskRecords(0..Len(entries), DOMAIN log)
           /\ \A u \in tasks' : u.stage # "load" => u.entry \in DOMAIN entries
           /\ \A u \in tasks' : u.stage \in {"collect", "save", "prune"} => u.seq \in DOMAIN log
<1>1. tasks' = (tasks \ {t}) \cup {next}
  BY DEF Becomes
<1>2. tasks \subseteq TaskRecords(0..Len(entries), DOMAIN log)
  BY DEF ServerTypeOK
<1>3. QED
  BY <1>1, <1>2 DEF StagesInOrder

\* What a compaction knows of its record.
LEMMA TaskParts ==
    ASSUME ServerTypeOK, StagesInOrder, NEW t \in tasks
    PROVE  /\ t \in TaskRecords(0..Len(entries), DOMAIN log)
           /\ t.id \in DOMAIN log /\ t.worker \in Workers /\ t.doc \in Document
           /\ t.stage # "load" => t.entry \in DOMAIN entries /\ entries[t.entry].doc \in Document
           /\ t.stage \in {"collect", "save", "prune"} => t.seq \in DOMAIN log
<1>1. t \in TaskRecords(0..Len(entries), DOMAIN log)
  BY DEF ServerTypeOK
<1>2. t.id \in DOMAIN log /\ t.worker \in Workers /\ t.doc \in Document
  BY <1>1 DEF TaskRecords
<1>3. t.stage # "load" => t.entry \in DOMAIN entries /\ entries[t.entry].doc \in Document
  BY TypeParts DEF StagesInOrder
<1>4. t.stage \in {"collect", "save", "prune"} => t.seq \in DOMAIN log
  BY DEF StagesInOrder
<1>5. QED
  BY <1>1, <1>2, <1>3, <1>4

\* Measuring: the table has the operation it began behind, so its greatest seq
\* is a row's (getMaxSeq).
LEMMA MeasureKeepsTypes ==
    ASSUME ServerTypeOK, StagesInOrder, NEW t \in tasks, Measure(t)
    PROVE  ServerTypeOK' /\ StagesInOrder'
<1> DEFINE next == [t EXCEPT !.stage = "collect", !.seq = Len(log)]
<1>1. /\ t \in TaskRecords(0..Len(entries), DOMAIN log) /\ t.id \in DOMAIN log
      /\ t.stage = "measure" /\ t.entry \in DOMAIN entries
  BY TaskParts DEF Measure
<1>2. Len(log) \in DOMAIN log
  <2>1. Len(log) \in Nat /\ DOMAIN log = 1..Len(log)
    BY TypeParts
  <2>2. QED
    BY <1>1, <2>1
<1>3. /\ next \in TaskRecords(0..Len(entries), DOMAIN log) /\ next.stage = "collect"
      /\ next.entry = t.entry /\ next.seq = Len(log)
  BY <1>1, <1>2 DEF TaskRecords
<1>4. Becomes(t, next) /\ UNCHANGED <<home, typed, seen, hand, entries, cache, load, log, snapshots, channel,
                                      due, evicted, abandoned, faults>>
  BY DEF Measure, clientVars, cacheVars, boundVars
<1> HIDE DEF next
<1>5. /\ tasks' \subseteq TaskRecords(0..Len(entries), DOMAIN log)
      /\ \A u \in tasks' : u.stage # "load" => u.entry \in DOMAIN entries
      /\ \A u \in tasks' : u.stage \in {"collect", "save", "prune"} => u.seq \in DOMAIN log
  BY <1>1, <1>2, <1>3, <1>4, TaskIsTyped
<1>6. ServerTypeOK'
  BY <1>4, <1>5 DEF ServerTypeOK
<1>7. StagesInOrder'
  BY <1>4, <1>5 DEF StagesInOrder
<1>8. QED
  BY <1>6, <1>7

\* Collecting: the entry the compaction got, which need not be the cached one,
\* is left with its visible characters, and so is the copy (gc, serialize).
LEMMA CollectIs ==
    ASSUME ServerTypeOK, StagesInOrder, NEW t \in tasks, Collect(t)
    PROVE  LET kept == Gc(entries[t.entry].doc)
               next == [t EXCEPT !.stage = "save", !.doc = kept]
           IN /\ t.stage = "collect" /\ t.entry \in DOMAIN entries /\ entries[t.entry].doc \in Document
              /\ kept \in Document /\ ToSet(kept.list) = VisibleUids(entries[t.entry].doc)
              /\ next \in TaskRecords(0..Len(entries), DOMAIN log)
              /\ next.stage = "save" /\ next.entry = t.entry /\ next.seq = t.seq /\ next.doc = kept
              /\ t.seq \in DOMAIN log /\ Becomes(t, next)
              /\ entries' \in Seq([doc : Document, lastSeq : 0..Len(log)])
              /\ Len(entries') = Len(entries) /\ DOMAIN entries' = DOMAIN entries
              /\ entries'[t.entry].doc = kept
              /\ \A i \in DOMAIN entries : i # t.entry => entries'[i].doc = entries[i].doc
              /\ UNCHANGED <<home, typed, seen, hand, cache, load, log, snapshots, channel,
                             due, evicted, abandoned, faults>>
<1> DEFINE kept == Gc(entries[t.entry].doc)
           next == [t EXCEPT !.stage = "save", !.doc = kept]
<1>1. /\ t \in TaskRecords(0..Len(entries), DOMAIN log)
      /\ t.stage = "collect" /\ t.entry \in DOMAIN entries /\ entries[t.entry].doc \in Document
      /\ t.seq \in DOMAIN log
  BY TaskParts DEF Collect
<1>2. kept \in Document /\ ToSet(kept.list) = VisibleUids(entries[t.entry].doc)
  BY <1>1, GcIsDocument
<1>3. entries' = [entries EXCEPT ![t.entry].doc = kept] /\ Becomes(t, next)
  BY DEF Collect
<1>4. UNCHANGED <<home, typed, seen, hand, cache, load, log, snapshots, channel,
                  due, evicted, abandoned, faults>>
  BY DEF Collect, clientVars, boundVars
<1> HIDE DEF kept
<1>5. /\ next \in TaskRecords(0..Len(entries), DOMAIN log)
      /\ next.stage = "save" /\ next.entry = t.entry /\ next.seq = t.seq /\ next.doc = kept
  BY <1>1, <1>2 DEF TaskRecords
<1>6. /\ entries' \in Seq([doc : Document, lastSeq : 0..Len(log)])
      /\ Len(entries') = Len(entries) /\ DOMAIN entries' = DOMAIN entries
      /\ entries'[t.entry].doc = kept
      /\ \A i \in DOMAIN entries : i # t.entry => entries'[i].doc = entries[i].doc
  BY <1>1, <1>2, <1>3, EntryIsTyped
<1>7. QED
  BY <1>1, <1>2, <1>3, <1>4, <1>5, <1>6 DEF kept

\* Collecting leaves everything of its type.
LEMMA CollectKeepsTypes ==
    ASSUME ServerTypeOK, StagesInOrder, NEW t \in tasks, Collect(t)
    PROVE  ServerTypeOK' /\ StagesInOrder'
<1>1. PICK next : /\ next \in TaskRecords(0..Len(entries), DOMAIN log)
                  /\ next.stage = "save" /\ next.entry \in DOMAIN entries /\ next.seq \in DOMAIN log
                  /\ Becomes(t, next)
  BY CollectIs
<1>2. /\ entries' \in Seq([doc : Document, lastSeq : 0..Len(log)])
      /\ Len(entries') = Len(entries) /\ DOMAIN entries' = DOMAIN entries
      /\ UNCHANGED <<home, typed, seen, hand, cache, load, log, snapshots, channel,
                     due, evicted, abandoned, faults>>
  BY CollectIs
<1>3. /\ tasks' \subseteq TaskRecords(0..Len(entries), DOMAIN log)
      /\ \A u \in tasks' : u.stage # "load" => u.entry \in DOMAIN entries
      /\ \A u \in tasks' : u.stage \in {"collect", "save", "prune"} => u.seq \in DOMAIN log
  BY <1>1, TaskIsTyped
<1>4. ServerTypeOK'
  BY <1>2, <1>3 DEF ServerTypeOK
<1>5. StagesInOrder'
  BY <1>2, <1>3 DEF StagesInOrder
<1>6. QED
  BY <1>4, <1>5

\* Saving, pruning and giving up: snapshots are of measured seqs.
LEMMA SaveOrPruneKeepsTypes ==
    ASSUME ServerTypeOK, StagesInOrder, NEW t \in tasks, Save(t) \/ Prune(t) \/ CompactionFails(t)
    PROVE  ServerTypeOK' /\ StagesInOrder'
<1>1. /\ t \in TaskRecords(0..Len(entries), DOMAIN log) /\ t.doc \in Document
      /\ t.stage \in {"measure", "save", "prune"} /\ t.entry \in DOMAIN entries
      /\ Save(t) => t.seq \in DOMAIN log
  BY TaskParts DEF Save, Prune, CompactionFails
<1>2. snapshots' \subseteq [seq : 1..(Len(log) + 1), doc : Document]
  <2>1. snapshots \subseteq [seq : 1..(Len(log) + 1), doc : Document]
    BY DEF ServerTypeOK
  <2>2. CASE Save(t)
    <3>1. snapshots' \subseteq snapshots \cup {[seq |-> t.seq, doc |-> t.doc]}
      BY <2>2 DEF Save
    <3>2. t.seq \in 1..(Len(log) + 1)
      BY <1>1, <2>2, TypeParts
    <3>3. QED
      BY <1>1, <2>1, <3>1, <3>2
  <2>3. CASE Prune(t)
    BY <2>1, <2>3 DEF Prune
  <2>4. CASE CompactionFails(t)
    BY <2>1, <2>4 DEF CompactionFails
  <2>5. QED
    BY <2>2, <2>3, <2>4
<1>3. /\ tasks' \subseteq TaskRecords(0..Len(entries), DOMAIN log)
      /\ \A u \in tasks' : u.stage # "load" => u.entry \in DOMAIN entries
      /\ \A u \in tasks' : u.stage \in {"collect", "save", "prune"} => u.seq \in DOMAIN log
  <2>1. CASE tasks' = tasks \ {t}
    <3>1. tasks' \subseteq tasks
      BY <2>1
    <3>2. QED
      BY <3>1 DEF ServerTypeOK, StagesInOrder
  <2>2. CASE Save(t) /\ Becomes(t, [t EXCEPT !.stage = "prune"])
    <3> DEFINE next == [t EXCEPT !.stage = "prune"]
    <3>1. next \in TaskRecords(0..Len(entries), DOMAIN log) /\ next.entry = t.entry /\ next.seq = t.seq
      BY <1>1 DEF TaskRecords
    <3>2. Becomes(t, next)
      BY <2>2
    <3> HIDE DEF next
    <3>3. QED
      BY <1>1, <2>2, <3>1, <3>2, TaskIsTyped
  <2>3. QED
    BY <2>1, <2>2 DEF Save, Prune, CompactionFails
<1>4. faults' \in 0..MaxFaults
  BY FaultsCounted DEF Save, Prune, CompactionFails, boundVars, ServerTypeOK
<1>5. UNCHANGED <<home, typed, seen, hand, entries, cache, load, log, channel, due, evicted, abandoned>>
  BY DEF Save, Prune, CompactionFails, clientVars, cacheVars, boundVars
<1>6. ServerTypeOK'
  BY <1>2, <1>3, <1>4, <1>5 DEF ServerTypeOK
<1>7. StagesInOrder'
  BY <1>3, <1>5 DEF StagesInOrder
<1>8. QED
  BY <1>6, <1>7

\* A load's new record.
LEMMA LoadIsTyped ==
    ASSUME ServerTypeOK, NEW w \in Workers, NEW r \in LoadRecords(0..(Len(log) + 1)), load' = [load EXCEPT ![w] = r]
    PROVE  /\ load' \in [Workers -> LoadRecords(0..(Len(log) + 1))]
           /\ load'[w] = r /\ \A v \in Workers : v # w => load'[v] = load[v]
<1>1. load \in [Workers -> LoadRecords(0..(Len(log) + 1))]
  BY DEF ServerTypeOK
<1> HIDE DEF LoadRecords
<1>2. QED
  BY <1>1

\* The snapshot that a load begins with (loadLatestSnapshot).
LEMMA ReadSnapshotIs ==
    ASSUME ServerTypeOK, NEW w \in Workers, ReadSnapshot(w)
    PROVE  /\ load' \in [Workers -> LoadRecords(0..(Len(log) + 1))]
           /\ load'[w].doc = LatestSnapshot.doc /\ load'[w].stage = "operations"
           /\ \A v \in Workers : v # w => load'[v] = load[v]
<1> DEFINE r == [stage |-> "operations", seq |-> LatestSnapshot.seq, doc |-> LatestSnapshot.doc]
<1>1. r \in LoadRecords(0..(Len(log) + 1)) /\ r.doc = LatestSnapshot.doc /\ r.stage = "operations"
  BY RowsRead DEF LoadRecords
<1>2. load' = [load EXCEPT ![w] = r]
  BY DEF ReadSnapshot
<1> HIDE DEF r
<1>3. QED
  BY <1>1, <1>2, LoadIsTyped

\* The rows after it, replayed (getOperationsAfter).
LEMMA ReadOperationsIs ==
    ASSUME ServerTypeOK, NEW w \in Workers, ReadOperations(w)
    PROVE  /\ load' \in [Workers -> LoadRecords(0..(Len(log) + 1))]
           /\ load'[w].doc = ReplayFrom(load[w].doc, StoredAfter(load[w].seq))
           /\ load'[w].stage = "resume" /\ load'[w].seq = Len(log)
           /\ \A v \in Workers : v # w => load'[v] = load[v]
<1> DEFINE d == ReplayFrom(load[w].doc, StoredAfter(load[w].seq))
           r == [stage |-> "resume", seq |-> Len(log), doc |-> d]
<1>1. load[w].seq \in 0..(Len(log) + 1) /\ load[w].doc \in Document /\ Len(log) \in 0..Len(log)
  BY TypeParts
<1>2. StoredAfter(load[w].seq) \in Seq(Operation)
  BY <1>1, RowsRead
<1>3. d \in Document
  BY <1>1, <1>2, ReplayIsDocument
<1>4. load' = [load EXCEPT ![w] = r]
  BY DEF ReadOperations
<1> HIDE DEF d
<1>5. r \in LoadRecords(0..(Len(log) + 1)) /\ r.doc = d /\ r.stage = "resume" /\ r.seq = Len(log)
  BY <1>1, <1>3 DEF LoadRecords
<1> HIDE DEF r
<1>6. QED
  BY <1>4, <1>5, LoadIsTyped DEF d

\* Joining and reading leave everything of its type.
LEMMA ReadingKeepsTypes ==
    ASSUME ServerTypeOK, StagesInOrder, NEW w \in Workers, Join(w) \/ ReadSnapshot(w) \/ ReadOperations(w)
    PROVE  ServerTypeOK' /\ StagesInOrder'
<1>1. load' \in [Workers -> LoadRecords(0..(Len(log) + 1))]
  BY AwaitLoadIsTyped, ReadSnapshotIs, ReadOperationsIs DEF Join
<1>2. UNCHANGED <<home, typed, seen, hand, entries, cache, log, snapshots, channel, tasks,
                  due, evicted, abandoned, faults>>
  BY DEF Join, ReadSnapshot, ReadOperations, clientVars, boundVars
<1>3. ServerTypeOK'
  BY <1>1, <1>2 DEF ServerTypeOK
<1>4. \A v \in Workers : load'[v].stage = "resume" => load'[v] = load[v] \/ load'[v].seq = Len(log)
  BY AwaitLoadIsTyped, ReadSnapshotIs, ReadOperationsIs DEF Join
<1>5. Len(log) \in 0..Len(log)
  BY TypeParts
<1>6. StagesInOrder'
  BY <1>2, <1>4, <1>5 DEF StagesInOrder
<1>7. QED
  BY <1>3, <1>6

\* The sessions whose handlers wait for the load on w.
Waiting(w) == {s \in Sessions : home[s] = w /\ hand[s].stage = "load"}

\* When a load ends its document is a new entry, with the operations that
\* waited for it, and those who waited have the entry in hand.
LEMMA ResumeIs ==
    ASSUME ServerTypeOK, StagesInOrder, NEW w \in Workers, Resume(w)
    PROVE  LET e == Len(entries) + 1
           IN /\ entries' \in Seq([doc : Document, lastSeq : 0..Len(log)])
              /\ Len(entries') = e /\ DOMAIN entries' = DOMAIN entries \cup {e}
              /\ \A i \in DOMAIN entries : entries'[i] = entries[i]
              /\ ToSet(entries'[e].doc.list) \subseteq
                    ToSet(load[w].doc.list) \cup {hand[s].op.uid : s \in Waiting(w)}
              /\ cache' \in [Workers -> 0..e]
              /\ load' \in [Workers -> LoadRecords(0..(Len(log) + 1))]
              /\ load'[w].doc = EmptyDoc /\ load'[w].stage = "none"
              /\ \A v \in Workers : v # w => load'[v] = load[v]
              /\ hand' \in [Sessions -> HandRecords(0..e, 0..Len(log))]
              /\ \A s \in Waiting(w) : hand'[s].stage = "append" /\ hand'[s].op = hand[s].op
              /\ \A s \in Sessions \ Waiting(w) : hand'[s] = hand[s]
              /\ tasks' \subseteq TaskRecords(0..e, DOMAIN log)
              /\ \A t \in tasks' : \E u \in tasks : /\ t.doc = u.doc /\ t.seq = u.seq
                                                    /\ t = u \/ (t.stage = "measure" /\ t.entry = e)
              /\ UNCHANGED <<home, typed, seen, log, snapshots, channel, due, evicted, abandoned, faults>>
<1> DEFINE e == Len(entries) + 1
           S == Waiting(w)
           ops == [i \in 1..Cardinality(S) |-> hand[SetToSeq(S)[i]].op]
           d == ReplayFrom(load[w].doc, ops)
           x == [doc |-> d, lastSeq |-> load[w].seq]
           R == [doc : Document, lastSeq : 0..Len(log)]
<1>1. /\ Len(entries) \in Nat /\ e \in Nat /\ Len(entries) <= e /\ Len(log) \in Nat /\ Len(log) <= Len(log)
      /\ e \in 0..e /\ DOMAIN entries = 1..Len(entries) /\ DOMAIN log = 1..Len(log)
      /\ load[w].seq \in 0..Len(log) /\ load[w].doc \in Document
  <2>1. load[w].seq \in 0..Len(log)
    BY DEF StagesInOrder, Resume
  <2>2. QED
    BY <2>1, TypeParts
<1>2. S \in SUBSET Sessions /\ \A s \in S : hand[s].stage = "load" /\ hand[s].op \in Operation
  BY DEF Waiting, StagesInOrder
<1>3. Cardinality(S) \in Nat /\ SetToSeq(S) \in [1..Cardinality(S) -> S]
  BY <1>2, WaitingAreSessions
<1>4. /\ entries' = Append(entries, x)
      /\ cache' = [cache EXCEPT ![w] = e]
      /\ load' = [load EXCEPT ![w] = NoLoad]
      /\ hand' = [s \in Sessions |-> IF s \in S THEN [hand[s] EXCEPT !.stage = "append", !.entry = e]
                                     ELSE hand[s]]
      /\ tasks' = {IF t.worker = w /\ t.stage = "load"
                   THEN [t EXCEPT !.stage = "measure", !.entry = e] ELSE t : t \in tasks}
      /\ UNCHANGED <<home, typed, seen, log, snapshots, channel, due, evicted, abandoned, faults>>
  BY Zenon DEF Resume, clientVars, boundVars, Waiting
<1>5. ops \in Seq(Operation) /\ {ops[i].uid : i \in DOMAIN ops} \subseteq {hand[s].op.uid : s \in S}
  <2> HIDE DEF S
  <2>1. \A i \in 1..Cardinality(S) : SetToSeq(S)[i] \in S
    BY <1>3
  <2>2. QED
    BY <1>2, <1>3, <2>1
<1> HIDE DEF ops
<1>6. d \in Document /\ ToSet(d.list) \subseteq ToSet(load[w].doc.list) \cup {ops[i].uid : i \in DOMAIN ops}
  BY <1>1, <1>5, ReplayIsDocument
<1> HIDE DEF d, S
<1>7. /\ entries' \in Seq(R) /\ Len(entries') = e /\ DOMAIN entries' = DOMAIN entries \cup {e}
      /\ entries'[e] = x /\ \A i \in DOMAIN entries : entries'[i] = entries[i]
  <2>1. x \in R
    BY <1>1, <1>6
  <2>2. entries \in Seq(R)
    BY DEF ServerTypeOK
  <2> HIDE DEF R, x
  <2>3. /\ entries' \in Seq(R) /\ Len(entries') = e /\ entries'[e] = x
        /\ \A i \in 1..Len(entries) : entries'[i] = entries[i]
    BY ZenonT(60), <1>4, <2>1, <2>2, AppendProperties
  <2>4. DOMAIN entries' = 1..e
    BY <2>3
  <2>5. 1..e = (1..Len(entries)) \cup {e}
    BY <1>1
  <2>6. QED
    BY <1>1, <2>3, <2>4, <2>5
<1>8. /\ cache \in [Workers -> 0..e] /\ hand \in [Sessions -> HandRecords(0..e, 0..Len(log))]
      /\ tasks \subseteq TaskRecords(0..e, DOMAIN log)
  <2> HIDE DEF e
  <2>1. QED
    BY <1>1, TypesGrow
<1>9. cache' \in [Workers -> 0..e]
  BY <1>1, <1>4, <1>8
<1>10. /\ load' \in [Workers -> LoadRecords(0..(Len(log) + 1))]
       /\ load'[w].doc = EmptyDoc /\ load'[w].stage = "none"
       /\ \A v \in Workers : v # w => load'[v] = load[v]
  <2>1. /\ NoLoad \in LoadRecords(0..(Len(log) + 1)) /\ NoLoad.doc = EmptyDoc
        /\ NoLoad.stage = "none"
    BY <1>1, EmptyIsDocument DEF NoLoad, LoadRecords
  <2>2. QED
    BY <1>4, <2>1, LoadIsTyped
<1>11. /\ hand' \in [Sessions -> HandRecords(0..e, 0..Len(log))]
       /\ \A s \in S : hand'[s].stage = "append" /\ hand'[s].op = hand[s].op
       /\ \A s \in Sessions \ S : hand'[s] = hand[s]
  <2>1. ASSUME NEW s \in Sessions
        PROVE  LET h == [hand[s] EXCEPT !.stage = "append", !.entry = e]
               IN h \in HandRecords(0..e, 0..Len(log)) /\ h.stage = "append" /\ h.op = hand[s].op
    <3>1. hand[s] \in HandRecords(0..e, 0..Len(log)) /\ e \in 0..e
      BY <1>1, <1>8
    <3> HIDE DEF e
    <3>2. QED
      BY <3>1 DEF HandRecords
  <2> HIDE DEF e
  <2>2. QED
    BY <1>2, <1>4, <1>8, <2>1
<1>12. /\ tasks' \subseteq TaskRecords(0..e, DOMAIN log)
       /\ \A t \in tasks' : \E u \in tasks : /\ t.doc = u.doc /\ t.seq = u.seq
                                             /\ t = u \/ (t.stage = "measure" /\ t.entry = e)
  <2>1. ASSUME NEW u \in tasks
        PROVE  LET t == [u EXCEPT !.stage = "measure", !.entry = e]
               IN /\ t \in TaskRecords(0..e, DOMAIN log) /\ t.doc = u.doc /\ t.seq = u.seq
                  /\ t.stage = "measure" /\ t.entry = e
    <3>1. u \in TaskRecords(0..e, DOMAIN log) /\ e \in 0..e
      BY <1>1, <1>8
    <3> HIDE DEF e
    <3>2. QED
      BY <3>1 DEF TaskRecords
  <2> HIDE DEF e
  <2>2. QED
    BY ZenonT(60), <1>4, <1>8, <2>1
<1>13. ToSet(entries'[e].doc.list) \subseteq ToSet(load[w].doc.list) \cup {hand[s].op.uid : s \in Waiting(w)}
  <2>1. entries'[e].doc = d
    BY <1>7
  <2>2. QED
    BY <1>5, <1>6, <2>1 DEF S
<1> HIDE DEF x
<1>14. QED
  BY Zenon, <1>4, <1>7, <1>9, <1>10, <1>11, <1>12, <1>13 DEF S

\* The end of a load leaves everything of its type.
LEMMA ResumeKeepsTypes ==
    ASSUME ServerTypeOK, StagesInOrder, NEW w \in Workers, Resume(w)
    PROVE  ServerTypeOK' /\ StagesInOrder'
<1> DEFINE e == Len(entries) + 1
<1>1. /\ entries' \in Seq([doc : Document, lastSeq : 0..Len(log)])
      /\ Len(entries') = e /\ DOMAIN entries' = DOMAIN entries \cup {e}
      /\ cache' \in [Workers -> 0..e]
      /\ load' \in [Workers -> LoadRecords(0..(Len(log) + 1))]
      /\ hand' \in [Sessions -> HandRecords(0..e, 0..Len(log))]
      /\ tasks' \subseteq TaskRecords(0..e, DOMAIN log)
      /\ UNCHANGED <<home, typed, seen, log, snapshots, channel, due, evicted, abandoned, faults>>
  BY ResumeIs
<1>2. /\ \A s \in Waiting(w) : hand'[s].stage = "append" /\ hand'[s].op = hand[s].op
      /\ \A s \in Sessions \ Waiting(w) : hand'[s] = hand[s]
      /\ \A t \in tasks' : \E u \in tasks : /\ t.doc = u.doc /\ t.seq = u.seq
                                            /\ t = u \/ (t.stage = "measure" /\ t.entry = e)
      /\ \A v \in Workers : load'[v].stage = "resume" => load'[v] = load[v]
  BY ResumeIs
<1> HIDE DEF e
<1>3. ServerTypeOK'
  BY <1>1 DEF ServerTypeOK
<1>4. StagesInOrder'
  BY ZenonT(60), <1>1, <1>2 DEF StagesInOrder, Waiting
<1>5. QED
  BY <1>3, <1>4

\* An eviction, or the end of a process, leaves everything of its type.
LEMMA LossKeepsTypes ==
    ASSUME ServerTypeOK, StagesInOrder, NEW w \in Workers, Evict(w) \/ Crash(w)
    PROVE  ServerTypeOK' /\ StagesInOrder'
<1>1. /\ Len(entries) \in Nat /\ Len(log) \in Nat
      /\ 0 \in 0..Len(entries) /\ 0 \in 0..Len(log)
  BY TypeParts
<1>2. cache' \in [Workers -> 0..Len(entries)]
  BY <1>1 DEF Evict, Crash, ServerTypeOK
<1>3. CASE Evict(w)
  <2>1. evicted' \in 0..MaxEvictions
    BY <1>3, BoundsAssumption DEF Evict, ServerTypeOK
  <2>2. UNCHANGED <<home, typed, seen, hand, entries, load, log, snapshots, channel, tasks, due, abandoned, faults>>
    BY <1>3 DEF Evict, clientVars
  <2>3. QED
    BY <1>2, <2>1, <2>2 DEF ServerTypeOK, StagesInOrder
<1>4. CASE Crash(w)
  <2>1. /\ load' \in [Workers -> LoadRecords(0..(Len(log) + 1))]
        /\ \A v \in Workers : load'[v].stage = "resume" => load'[v] = load[v]
    <3>1. NoLoad \in LoadRecords(0..(Len(log) + 1)) /\ NoLoad.stage = "none"
      BY <1>1, EmptyIsDocument DEF NoLoad, LoadRecords
    <3>2. QED
      BY <1>4, <3>1, LoadIsTyped DEF Crash
  <2>2. /\ hand' \in [Sessions -> HandRecords(0..Len(entries), 0..Len(log))]
        /\ \A s \in Sessions : hand'[s].stage = "closed" \/ hand'[s] = hand[s]
    <3>1. /\ Closed \in HandRecords(0..Len(entries), 0..Len(log)) /\ Closed.stage = "closed"
          /\ hand \in [Sessions -> HandRecords(0..Len(entries), 0..Len(log))]
      BY <1>1, IdleIsTyped DEF ServerTypeOK
    <3>2. hand' = [s \in Sessions |-> IF home[s] = w THEN Closed ELSE hand[s]]
      BY <1>4 DEF Crash
    <3> HIDE DEF HandRecords, Closed
    <3>3. QED
      BY <3>1, <3>2
  <2>3. abandoned' \subseteq Operation
    <3>1. Unstored({s \in Sessions : home[s] = w}) \subseteq Operation
      BY UnstoredAreOperations
    <3>2. QED
      BY <1>4, <3>1 DEF Crash, ServerTypeOK
  <2>4. faults' \in 0..MaxFaults
    BY <1>4, FaultsCounted DEF Crash
  <2>5. tasks' \subseteq tasks
    BY <1>4 DEF Crash
  <2>6. UNCHANGED <<home, typed, seen, entries, log, snapshots, channel, due, evicted>>
    BY <1>4 DEF Crash, clientVars
  <2>7. ServerTypeOK'
    BY <1>2, <2>1, <2>2, <2>3, <2>4, <2>5, <2>6 DEF ServerTypeOK
  <2>8. StagesInOrder'
    BY <2>1, <2>2, <2>5, <2>6 DEF StagesInOrder
  <2>9. QED
    BY <2>7, <2>8
<1>5. QED
  BY <1>3, <1>4

-----------------------------------------------------------------------------
(* The types.                                                              *)

\* Everybody has joined the empty document.
LEMMA InitServerTypes == Init => ServerTypeOK /\ StagesInOrder
<1> SUFFICES ASSUME Init PROVE ServerTypeOK /\ StagesInOrder
  OBVIOUS
<1> DEFINE x == [doc |-> EmptyDoc, lastSeq |-> 0]
<1>1. log = << >> /\ Len(log) = 0 /\ channel = << >> /\ Len(channel) = 0 /\ DOMAIN log = {}
  BY DEF Init
<1>2. NumWorkers \in Nat /\ Workers = 1..NumWorkers /\ 0..0 = {0}
  BY BoundsAssumption DEF Workers
<1>3. entries = [w \in 1..NumWorkers |-> x]
  BY <1>2 DEF Init
<1>4. entries \in Seq([doc : Document, lastSeq : 0..Len(log)]) /\ Len(entries) = NumWorkers
  <2> DEFINE R == [doc : Document, lastSeq : 0..Len(log)]
  <2>1. x \in R
    BY <1>1, EmptyIsDocument
  <2> HIDE DEF R, x
  <2>2. entries \in Seq(R) /\ Len(entries) = NumWorkers
    BY <1>2, <1>3, <2>1
  <2>3. QED
    BY <2>2 DEF R
<1>5. cache \in [Workers -> 0..Len(entries)]
  BY <1>2, <1>4 DEF Init
<1>6. hand \in [Sessions -> HandRecords(0..Len(entries), 0..Len(log))]
      /\ \A s \in Sessions : hand[s].stage = "idle"
  <2>1. Idle \in HandRecords(0..Len(entries), 0..Len(log)) /\ Idle.stage = "idle"
    BY SMTT(60), <1>1, <1>2, <1>4, IdleIsTyped
  <2>2. hand = [s \in Sessions |-> Idle]
    BY DEF Init
  <2> HIDE DEF HandRecords, Idle
  <2>3. QED
    BY <2>1, <2>2
<1>7. /\ load \in [Workers -> LoadRecords(0..(Len(log) + 1))]
      /\ \A w \in Workers : load[w].stage = "none"
  <2>1. NoLoad \in LoadRecords(0..(Len(log) + 1)) /\ NoLoad.stage = "none"
    BY <1>1, EmptyIsDocument DEF NoLoad, LoadRecords
  <2>2. load = [w \in Workers |-> NoLoad]
    BY DEF Init
  <2> HIDE DEF LoadRecords, NoLoad
  <2>3. QED
    BY <2>1, <2>2
<1>8. /\ home \in Homes /\ tasks = {} /\ snapshots = {} /\ abandoned = {}
      /\ typed \in [Sessions -> Seq(Operation)]
      /\ seen \in [Sessions -> 0..Len(channel)]
      /\ due \in 0..MaxCompactions /\ evicted \in 0..MaxEvictions /\ faults \in 0..MaxFaults
  BY <1>1, <1>2, BoundsAssumption DEF Init
<1>9. log \in Seq([session : Sessions \cup {0}, op : Operation]) /\ channel \in Seq(DOMAIN log)
  BY <1>1
<1>10. ServerTypeOK
  BY <1>4, <1>5, <1>6, <1>7, <1>8, <1>9 DEF ServerTypeOK
<1>11. StagesInOrder
  BY <1>6, <1>7, <1>8 DEF StagesInOrder
<1>12. QED
  BY <1>10, <1>11

\* Every step leaves everything of its type.
LEMMA NextKeepsServerTypes ==
    ServerTypeOK /\ StagesInOrder /\ [Next]_vars => ServerTypeOK' /\ StagesInOrder'
<1> SUFFICES ASSUME ServerTypeOK, StagesInOrder, [Next]_vars PROVE ServerTypeOK' /\ StagesInOrder'
  OBVIOUS
<1>1. ASSUME NEW s \in Sessions, Handle(s) PROVE ServerTypeOK' /\ StagesInOrder'
  BY <1>1, TakeKeepsTypes, AppendKeepsTypes, PublishKeepsTypes, FailingKeepsTypes DEF Handle
<1>2. ASSUME NEW t \in tasks, Compact(t) PROVE ServerTypeOK' /\ StagesInOrder'
  BY <1>2, MeasureKeepsTypes, CollectKeepsTypes, SaveOrPruneKeepsTypes DEF Compact
<1>3. ASSUME NEW w \in Workers, Load(w) PROVE ServerTypeOK' /\ StagesInOrder'
  BY <1>3, ReadingKeepsTypes, ResumeKeepsTypes DEF Load
<1>4. ASSUME NEW w \in Workers, Evict(w) \/ Crash(w) PROVE ServerTypeOK' /\ StagesInOrder'
  BY <1>4, LossKeepsTypes
<1>5. CASE Rest \/ UNCHANGED vars
  <2>1. UNCHANGED <<home, typed, seen, hand, entries, cache, load, log, snapshots, channel, tasks,
                    due, evicted, abandoned, faults>>
    BY <1>5 DEF Rest, vars, clientVars, cacheVars, boundVars
  <2>2. ServerTypeOK'
    BY <2>1 DEF ServerTypeOK
  <2>3. StagesInOrder'
    BY <2>1 DEF StagesInOrder
  <2>4. QED
    BY <2>2, <2>3
<1>6. QED
  BY <1>1, <1>2, <1>3, <1>4, <1>5 DEF Next

\* Where nothing is restored, the rows are the sessions' operations, and
\* snapshots and loads stand for rows of the table.
SessionsOnly ==
    /\ \A i \in DOMAIN log : log[i].session \in Sessions
    /\ \A snap \in snapshots : snap.seq \in DOMAIN log
    /\ \A w \in Workers : load[w].seq \in 0..Len(log)

\* Then a load begins at a row, or at the beginning (loadLatestSnapshot).
LEMMA LatestOfRows ==
    ASSUME ServerTypeOK, SessionsOnly
    PROVE  LatestSnapshot.seq \in 0..Len(log)
<1>1. Len(log) \in Nat /\ DOMAIN log = 1..Len(log)
  BY TypeParts
<1>2. CASE snapshots = {}
  BY <1>1, <1>2 DEF LatestSnapshot, NoSnapshot
<1>3. CASE snapshots # {}
  BY <1>1, <1>3, RowsRead DEF SessionsOnly
<1>4. QED
  BY <1>2, <1>3

\* A load that begins to read has the latest snapshot's seq (loadLatestSnapshot),
\* and one that goes on that of the last row.
LEMMA LoadsAreOfRows ==
    ASSUME ServerTypeOK, SessionsOnly, NEW w \in Workers,
           AwaitLoad(w) \/ ReadSnapshot(w) \/ ReadOperations(w) \/ load' = [load EXCEPT ![w] = NoLoad]
    PROVE  \A v \in Workers : load'[v].seq \in 0..Len(log)
<1>1. /\ load \in [Workers -> LoadRecords(0..(Len(log) + 1))] /\ load[w] \in LoadRecords(0..(Len(log) + 1))
      /\ Len(log) \in Nat /\ DOMAIN log = 1..Len(log) /\ 0 \in 0..Len(log) /\ Len(log) \in 0..Len(log)
  BY TypeParts DEF ServerTypeOK
<1>2. ASSUME NEW r, load' = [load EXCEPT ![w] = r], r.seq \in 0..Len(log)
      PROVE  \A v \in Workers : load'[v].seq \in 0..Len(log)
  BY <1>1, <1>2 DEF SessionsOnly
<1>3. CASE AwaitLoad(w)
  <2>1. load' = load \/ load' = [load EXCEPT ![w] = [load[w] EXCEPT !.stage = "snapshot"]]
    BY <1>3 DEF AwaitLoad
  <2>2. [load[w] EXCEPT !.stage = "snapshot"].seq = load[w].seq
    BY <1>1 DEF LoadRecords
  <2>3. QED
    BY <1>2, <2>1, <2>2 DEF SessionsOnly
<1>4. CASE ReadSnapshot(w)
  <2> DEFINE r == [stage |-> "operations", seq |-> LatestSnapshot.seq, doc |-> LatestSnapshot.doc]
  <2>1. LatestSnapshot.seq \in 0..Len(log)
    BY LatestOfRows
  <2>2. load' = [load EXCEPT ![w] = r] /\ r.seq = LatestSnapshot.seq
    BY <1>4 DEF ReadSnapshot
  <2> HIDE DEF r
  <2>3. QED
    BY <1>2, <2>1, <2>2
<1>5. CASE ReadOperations(w)
  <2>1. load'[w].seq = Len(log) /\ \A v \in Workers : v # w => load'[v] = load[v]
    BY <1>5, ReadOperationsIs
  <2>2. QED
    BY <1>1, <2>1 DEF SessionsOnly
<1>6. CASE load' = [load EXCEPT ![w] = NoLoad]
  BY <1>1, <1>2, <1>6 DEF NoLoad
<1>7. QED
  BY <1>3, <1>4, <1>5, <1>6

\* Rows are appended by sessions, and snapshots saved under seqs measured.
LEMMA NextKeepsSessionsOnly ==
    ServerTypeOK /\ StagesInOrder /\ SessionsOnly /\ [Next]_vars => SessionsOnly'
<1> SUFFICES ASSUME ServerTypeOK, StagesInOrder, SessionsOnly, [Next]_vars PROVE SessionsOnly'
  OBVIOUS
<1>1. Len(log) \in Nat /\ DOMAIN log = 1..Len(log)
  BY TypeParts
<1>2. ASSUME log' = log, snapshots' \subseteq snapshots, \A v \in Workers : load'[v].seq \in 0..Len(log)
      PROVE  SessionsOnly'
  BY <1>2 DEF SessionsOnly
<1>3. ASSUME NEW s \in Sessions, AppendOperation(s) PROVE SessionsOnly'
  <2>1. /\ log' = Append(log, [session |-> s, op |-> hand[s].op])
        /\ Len(log') = Len(log) + 1 /\ DOMAIN log' = 1..(Len(log) + 1)
        /\ \A i \in DOMAIN log : i \in DOMAIN log' /\ log'[i] = log[i]
        /\ load' = load /\ snapshots' = snapshots
    BY <1>3, AppendIs
  <2>2. log'[Len(log) + 1].session = s
    BY <1>1, <2>1
  <2>3. QED
    BY <1>1, <2>1, <2>2 DEF SessionsOnly
<1>4. ASSUME NEW s \in Sessions, Handle(s), ~AppendOperation(s) PROVE SessionsOnly'
  <2>1. log' = log /\ snapshots' = snapshots
    BY <1>4 DEF Handle, Take, Refuse, Publish, HandlerFails
  <2>2. load' = load \/ AwaitLoad(home[s])
    BY <1>4 DEF Handle, Take, Refuse, Publish, HandlerFails, cacheVars
  <2>3. home[s] \in Workers
    BY TypeParts
  <2>4. \A v \in Workers : load'[v].seq \in 0..Len(log)
    BY <2>2, <2>3, LoadsAreOfRows DEF SessionsOnly
  <2>5. QED
    BY <1>2, <2>1, <2>4
<1>5. ASSUME NEW t \in tasks, Save(t) PROVE SessionsOnly'
  <2>1. t.seq \in DOMAIN log
    BY <1>5, TaskParts DEF Save
  <2>2. snapshots' \subseteq snapshots \cup {[seq |-> t.seq, doc |-> t.doc]} /\ log' = log /\ load' = load
    BY <1>5 DEF Save, cacheVars
  <2>3. QED
    BY <2>1, <2>2 DEF SessionsOnly
<1>6. ASSUME NEW t \in tasks, Compact(t), ~Save(t) PROVE SessionsOnly'
  <2>1. log' = log /\ load' = load /\ snapshots' \subseteq snapshots
    BY <1>6 DEF Compact, Measure, Collect, Prune, CompactionFails, cacheVars
  <2>2. QED
    BY <1>2, <2>1 DEF SessionsOnly
<1>7. ASSUME NEW w \in Workers, Load(w) \/ Evict(w) \/ Crash(w) PROVE SessionsOnly'
  <2>1. log' = log /\ snapshots' = snapshots
    BY <1>7 DEF Load, Join, ReadSnapshot, ReadOperations, Resume, Evict, Crash
  <2>2. \/ load' = load \/ AwaitLoad(w) \/ ReadSnapshot(w) \/ ReadOperations(w)
        \/ load' = [load EXCEPT ![w] = NoLoad]
    BY <1>7 DEF Load, Join, Resume, Evict, Crash
  <2>3. \A v \in Workers : load'[v].seq \in 0..Len(log)
    BY <2>2, LoadsAreOfRows DEF SessionsOnly
  <2>4. QED
    BY <1>2, <2>1, <2>3
<1>8. CASE Rest \/ UNCHANGED vars
  <2>1. UNCHANGED <<log, snapshots, load>>
    BY <1>8 DEF Rest, vars, cacheVars
  <2>2. QED
    BY <1>2, <2>1 DEF SessionsOnly
<1>9. QED
  BY <1>3, <1>4, <1>5, <1>6, <1>7, <1>8 DEF Next

\* Nothing is stored yet.
LEMMA InitSessionsOnly == Init => SessionsOnly
BY DEF Init, SessionsOnly, NoLoad

\* The two ways of naming the types agree.
LEMMA TypesAgree == ServerTypeOK /\ SessionsOnly => TypeOK
<1> SUFFICES ASSUME ServerTypeOK, SessionsOnly PROVE TypeOK
  OBVIOUS
<1>1. {0} \cup DOMAIN log = 0..Len(log)
  BY TypeParts
<1>2. tasks \subseteq [id : DOMAIN log, worker : Workers, entry : 0..Len(entries),
                        stage : {"load", "measure", "collect", "save", "prune"},
                        seq : 0..Len(log), doc : Document]
  BY <1>1 DEF ServerTypeOK, TaskRecords
<1>3. log \in Seq([session : Sessions, op : Operation])
  <2> DEFINE R == [session : Sessions \cup {0}, op : Operation]
             Q == [session : Sessions, op : Operation]
  <2>1. log \in Seq(R)
    BY DEF ServerTypeOK
  <2>2. \A i \in 1..Len(log) : log[i] \in R
    BY <2>1, ElementOfSeq
  <2>3. \A i \in 1..Len(log) : log[i] \in Q
    BY <2>2, TypeParts DEF SessionsOnly
  <2> HIDE DEF R, Q
  <2>4. log \in Seq(Q)
    BY <2>1, <2>3, SeqOfMembers
  <2>5. QED
    BY <2>4 DEF Q
<1>4. snapshots \subseteq [seq : DOMAIN log, doc : Document]
  BY DEF ServerTypeOK, SessionsOnly
<1>5. load \in [Workers -> [stage : {"none", "snapshot", "operations", "resume"},
                            seq : 0..Len(log), doc : Document]]
  <2>1. \A w \in Workers : load[w] \in LoadRecords(0..(Len(log) + 1)) /\ load[w].seq \in 0..Len(log)
    BY DEF ServerTypeOK, SessionsOnly
  <2>2. QED
    BY <2>1 DEF ServerTypeOK, LoadRecords
<1>6. QED
  BY <1>2, <1>3, <1>4, <1>5 DEF ServerTypeOK, TypeOK, HandRecords

\* Whatever the workers' handlers, loads and compactions do in between: seqs
\* are of stored rows, references are to entries that were made, documents are
\* over the sessions' UIDs.
THEOREM ServerTypeCorrect == Spec => []TypeOK
<1>1. Spec => [](ServerTypeOK /\ StagesInOrder /\ SessionsOnly)
  BY InitServerTypes, NextKeepsServerTypes, InitSessionsOnly, NextKeepsSessionsOnly, PTL DEF Spec
<1>2. QED
  BY <1>1, TypesAgree, PTL

-----------------------------------------------------------------------------
(* The content.                                                            *)

\* The characters that are stored, that a handler is about to store, or whose
\* append failed.
Accepted ==
    {log[i].op.uid : i \in DOMAIN log}
        \cup {hand[s].op.uid : s \in {r \in Sessions : hand[r].stage = "append"}}
        \cup {op.uid : op \in abandoned}

\* No document anywhere, also not one that is being loaded or saved, shows
\* any other character.
Content ==
    /\ \A e \in DOMAIN entries : ToSet(entries[e].doc.list) \subseteq Accepted
    /\ \A snap \in snapshots : ToSet(snap.doc.list) \subseteq Accepted
    /\ \A t \in tasks : ToSet(t.doc.list) \subseteq Accepted
    /\ \A w \in Workers : ToSet(load[w].doc.list) \subseteq Accepted

\* Refused operations leave nothing, those taken up are in a handler's hands.
LEMMA TakeKeepsContent ==
    ASSUME ServerTypeOK, Content, NEW s \in Sessions, Take(s) \/ Refuse(s)
    PROVE  Content'
<1>1. PICK n \in 0..Len(channel), op \in Operation :
         Sent(s, n, op) /\ (Applies(s, op) \/ Waits(s, op) \/ Refuses)
  BY TakeIs
<1>2. hand[s].stage = "idle" /\ UNCHANGED <<cache, log, snapshots, channel, tasks, due, evicted, abandoned>>
  BY TakeIs
<1>3. /\ home[s] \in Workers
      /\ Cached(home[s]) => cache[home[s]] \in DOMAIN entries
  BY TypeParts
<1>4. DOMAIN hand = Sessions
  BY DEF ServerTypeOK
<1>5. CASE Applies(s, op)
  <2> DEFINE h == [stage |-> "append", op |-> op, entry |-> cache[home[s]], seq |-> 0]
             e == cache[home[s]]
  <2>1. hand' = [hand EXCEPT ![s] = h] /\ load' = load /\ e \in DOMAIN entries /\ ApplyIn(e, op)
    BY <1>3, <1>5 DEF Applies
  <2>2. hand'[s] = h /\ \A r \in Sessions : r # s => hand'[r] = hand[r]
    BY <1>4, <2>1
  <2>3. Accepted \subseteq Accepted' /\ op.uid \in Accepted'
    BY <1>2, <2>2 DEF Accepted
  <2>4. /\ DOMAIN entries' = DOMAIN entries
        /\ entries'[e].doc = Apply(entries[e].doc, op)
        /\ \A i \in DOMAIN entries : i # e => entries'[i].doc = entries[i].doc
    BY <2>1, ApplyInIsTyped
  <2>5. ToSet(Apply(entries[e].doc, op).list) \subseteq ToSet(entries[e].doc.list) \cup {op.uid}
    BY <2>1, TypeParts, ApplyIsDocument
  <2> HIDE DEF e, h
  <2>6. \A i \in DOMAIN entries' : ToSet(entries'[i].doc.list) \subseteq Accepted'
    BY <2>1, <2>3, <2>4, <2>5 DEF Content
  <2>7. QED
    BY <1>2, <2>1, <2>3, <2>6 DEF Content
<1>6. CASE Waits(s, op)
  <2>1. hand'[s].stage = "load" /\ \A r \in Sessions : r # s => hand'[r] = hand[r]
    BY <1>4, <1>6 DEF Waits
  <2>2. Accepted \subseteq Accepted'
    BY <1>2, <2>1 DEF Accepted
  <2>3. \A v \in Workers : load'[v].doc = load[v].doc
    BY <1>3, <1>6, AwaitLoadIsTyped DEF Waits
  <2>4. QED
    BY <1>2, <1>6, <2>2, <2>3 DEF Content, Waits
<1>7. CASE Refuses
  BY <1>2, <1>7 DEF Content, Refuses, Accepted
<1>8. QED
  BY <1>1, <1>5, <1>6, <1>7

\* A stored operation was in its handler's hands.
LEMMA AppendKeepsContent ==
    ASSUME ServerTypeOK, StagesInOrder, Content, NEW s \in Sessions, AppendOperation(s)
    PROVE  Content'
<1>1. /\ DOMAIN log' = 1..(Len(log) + 1) /\ log'[Len(log) + 1].op = hand[s].op
      /\ \A i \in DOMAIN log : i \in DOMAIN log' /\ log'[i] = log[i]
      /\ DOMAIN entries' = DOMAIN entries
      /\ \A e \in DOMAIN entries : entries'[e].doc = entries[e].doc
      /\ \A r \in Sessions : r # s => hand'[r] = hand[r]
      /\ UNCHANGED <<load, snapshots, tasks, abandoned>>
  BY AppendIs DEF boundVars
<1>2. Len(log) + 1 \in DOMAIN log'
  BY <1>1, TypeParts
<1>3. Accepted \subseteq Accepted'
  BY <1>1, <1>2 DEF Accepted
<1>4. QED
  BY <1>1, <1>3 DEF Content

\* Publishing adds a compaction at most, that has no document yet.
LEMMA PublishKeepsContent ==
    ASSUME ServerTypeOK, Content, NEW s \in Sessions, Publish(s)
    PROVE  Content'
<1>1. UNCHANGED <<entries, log, snapshots, abandoned>>
  BY DEF Publish
<1>2. \A r \in Sessions : hand'[r].stage = "append" => hand'[r] = hand[r]
  <2>1. hand' = [hand EXCEPT ![s] = Idle] /\ Idle.stage = "idle"
    BY DEF Publish, Idle
  <2>2. DOMAIN hand = Sessions
    BY DEF ServerTypeOK
  <2> HIDE DEF Idle
  <2>3. QED
    BY <2>1, <2>2
<1>3. \A r \in Sessions : hand[r].stage = "append" => hand'[r] = hand[r]
  <2>1. DOMAIN hand = Sessions
    BY DEF ServerTypeOK
  <2>2. QED
    BY <2>1 DEF Publish
<1>4. Accepted = Accepted'
  BY <1>1, <1>2, <1>3 DEF Accepted
<1>5. \A v \in Workers : load'[v].doc = load[v].doc
  BY TypeParts, AwaitLoadIsTyped DEF Publish
<1>6. \A t \in tasks' : t \in tasks \/ t.doc = EmptyDoc
  BY DEF Publish, StartCompaction
<1>7. QED
  BY <1>1, <1>4, <1>5, <1>6, EmptyIsDocument DEF Content

\* What a handler that throws, or ends with its process, had applied is
\* counted as abandoned.
LEMMA FailingKeepsContent ==
    ASSUME ServerTypeOK, Content, NEW s \in Sessions, HandlerFails(s)
    PROVE  Content'
<1>1. UNCHANGED <<entries, log, snapshots, load, tasks>>
  BY DEF HandlerFails, cacheVars
<1>2. abandoned' = abandoned \cup Unstored({s}) /\ \A r \in Sessions : r # s => hand'[r] = hand[r]
  BY DEF HandlerFails, ServerTypeOK
<1>3. Accepted \subseteq Accepted'
  BY <1>1, <1>2 DEF Accepted, Unstored
<1>4. QED
  BY <1>1, <1>3 DEF Content

\* Compactions collect and save what entries show.
LEMMA CompactKeepsContent ==
    ASSUME ServerTypeOK, StagesInOrder, Content, NEW t \in tasks, Compact(t)
    PROVE  Content'
<1>1. UNCHANGED <<hand, load, log, abandoned>>
  BY DEF Compact, Measure, Collect, Save, Prune, CompactionFails, cacheVars, boundVars
<1>2. Accepted' = Accepted
  BY <1>1 DEF Accepted
<1>3. CASE Collect(t)
  <2> DEFINE kept == Gc(entries[t.entry].doc)
             next == [t EXCEPT !.stage = "save", !.doc = kept]
  <2>1. /\ t.entry \in DOMAIN entries
        /\ ToSet(kept.list) = VisibleUids(entries[t.entry].doc)
        /\ next.doc = kept /\ Becomes(t, next)
        /\ DOMAIN entries' = DOMAIN entries /\ entries'[t.entry].doc = kept
        /\ \A i \in DOMAIN entries : i # t.entry => entries'[i].doc = entries[i].doc
        /\ snapshots' = snapshots
    BY <1>3, CollectIs
  <2>2. VisibleUids(entries[t.entry].doc) \subseteq ToSet(entries[t.entry].doc.list)
    BY DEF VisibleUids
  <2> HIDE DEF next, kept
  <2>3. \A i \in DOMAIN entries' : ToSet(entries'[i].doc.list) \subseteq Accepted
    BY <2>1, <2>2 DEF Content
  <2>4. \A u \in tasks' : ToSet(u.doc.list) \subseteq Accepted
    BY <2>1, <2>2 DEF Content, Becomes
  <2>5. QED
    BY <1>1, <1>2, <2>1, <2>3, <2>4 DEF Content
<1>4. ASSUME \A u \in tasks' : u.doc = t.doc \/ u \in tasks, UNCHANGED entries,
             \A snap \in snapshots' : snap.doc = t.doc \/ snap \in snapshots
      PROVE  Content'
  BY <1>1, <1>2, <1>4 DEF Content
<1>5. \A stage, seq : [t EXCEPT !.stage = stage, !.seq = seq].doc = t.doc /\ [t EXCEPT !.stage = stage].doc = t.doc
  BY TaskParts DEF TaskRecords
<1>6. CASE Measure(t)
  <2>1. Becomes(t, [t EXCEPT !.stage = "collect", !.seq = Len(log)]) /\ UNCHANGED <<entries, snapshots>>
    BY <1>6 DEF Measure, cacheVars
  <2>2. QED
    BY <1>4, <1>5, <2>1 DEF Becomes
<1>7. CASE Save(t)
  <2>1. /\ \A snap \in snapshots' : snap.doc = t.doc \/ snap \in snapshots
        /\ tasks' \subseteq tasks \cup {[t EXCEPT !.stage = "prune"]}
        /\ UNCHANGED entries
    BY <1>7 DEF Save, Becomes, cacheVars
  <2>2. QED
    BY <1>4, <1>5, <2>1
<1>8. CASE Prune(t) \/ CompactionFails(t)
  BY <1>4, <1>8 DEF Prune, CompactionFails, cacheVars
<1>9. QED
  BY <1>3, <1>6, <1>7, <1>8 DEF Compact

\* Loads build documents of snapshots, rows and what waits for them.
LEMMA LoadKeepsContent ==
    ASSUME ServerTypeOK, StagesInOrder, Content, NEW w \in Workers, Load(w)
    PROVE  Content'
<1>1. CASE Join(w) \/ ReadSnapshot(w) \/ ReadOperations(w)
  <2>1. UNCHANGED <<hand, entries, log, snapshots, tasks, abandoned>>
    BY <1>1 DEF Join, ReadSnapshot, ReadOperations, boundVars
  <2>2. Accepted' = Accepted
    BY <2>1 DEF Accepted
  <2>3. \A v \in Workers : ToSet(load'[v].doc.list) \subseteq Accepted
    <3>1. CASE Join(w)
      BY <3>1, AwaitLoadIsTyped DEF Join, Content
    <3>2. CASE ReadSnapshot(w)
      <4>1. ToSet(LatestSnapshot.doc.list) \subseteq Accepted
        <5>1. CASE snapshots = {}
          BY <5>1, EmptyIsDocument DEF LatestSnapshot, NoSnapshot
        <5>2. CASE snapshots # {}
          BY <5>2, RowsRead DEF Content
        <5>3. QED
          BY <5>1, <5>2
      <4>2. QED
        BY <3>2, <4>1, ReadSnapshotIs DEF Content
    <3>3. CASE ReadOperations(w)
      <4> DEFINE ops == StoredAfter(load[w].seq)
      <4>1. /\ load[w].doc \in Document /\ ops \in Seq(Operation)
            /\ \A i \in DOMAIN ops : \E j \in DOMAIN log : ops[i] = log[j].op
        BY TypeParts, RowsRead
      <4>2. load'[w].doc = ReplayFrom(load[w].doc, ops)
            /\ \A v \in Workers : v # w => load'[v].doc = load[v].doc
        BY <3>3, ReadOperationsIs
      <4> HIDE DEF ops
      <4>3. ToSet(load'[w].doc.list) \subseteq ToSet(load[w].doc.list) \cup {ops[i].uid : i \in DOMAIN ops}
        BY <4>1, <4>2, ReplayIsDocument
      <4>4. {ops[i].uid : i \in DOMAIN ops} \subseteq Accepted
        BY <4>1 DEF Accepted
      <4>5. QED
        BY <4>2, <4>3, <4>4 DEF Content
    <3>4. QED
      BY <1>1, <3>1, <3>2, <3>3
  <2>4. QED
    BY <2>1, <2>2, <2>3 DEF Content
<1>2. CASE Resume(w)
  <2> DEFINE e == Len(entries) + 1
  <2>1. /\ DOMAIN entries' = DOMAIN entries \cup {e}
        /\ \A i \in DOMAIN entries : entries'[i] = entries[i]
        /\ ToSet(entries'[e].doc.list) \subseteq ToSet(load[w].doc.list) \cup {hand[s].op.uid : s \in Waiting(w)}
        /\ load'[w].doc = EmptyDoc /\ \A v \in Workers : v # w => load'[v] = load[v]
        /\ \A s \in Waiting(w) : hand'[s].stage = "append" /\ hand'[s].op = hand[s].op
        /\ \A s \in Sessions \ Waiting(w) : hand'[s] = hand[s]
        /\ \A t \in tasks' : \E u \in tasks : t.doc = u.doc
        /\ UNCHANGED <<log, snapshots, abandoned>>
    BY ZenonT(60), <1>2, ResumeIs
  <2> HIDE DEF e
  <2>2. Waiting(w) \subseteq Sessions /\ \A s \in Waiting(w) : hand[s].stage = "load"
    BY DEF Waiting
  <2>3. Accepted \subseteq Accepted' /\ {hand[s].op.uid : s \in Waiting(w)} \subseteq Accepted'
    BY <2>1, <2>2 DEF Accepted
  <2>4. \A i \in DOMAIN entries' : ToSet(entries'[i].doc.list) \subseteq Accepted'
    BY <2>1, <2>3 DEF Content
  <2>5. /\ \A v \in Workers : ToSet(load'[v].doc.list) \subseteq Accepted'
        /\ \A t \in tasks' : ToSet(t.doc.list) \subseteq Accepted'
    BY <2>1, <2>3, EmptyIsDocument DEF Content
  <2>6. QED
    BY <2>1, <2>3, <2>4, <2>5 DEF Content
<1>3. QED
  BY <1>1, <1>2 DEF Load

\* Dropping an entry leaves documents where they are; a process that ends
\* takes a load and compactions with it and abandons what it had applied.
LEMMA LossKeepsContent ==
    ASSUME ServerTypeOK, Content, NEW w \in Workers, Evict(w) \/ Crash(w)
    PROVE  Content'
<1>1. CASE Evict(w)
  BY <1>1 DEF Evict, Content, Accepted
<1>2. CASE Crash(w)
  <2>1. UNCHANGED <<entries, log, snapshots>> /\ tasks' \subseteq tasks
    BY <1>2 DEF Crash
  <2>2. Accepted \subseteq Accepted'
    <3>1. \A s \in Sessions : home[s] # w => hand'[s] = hand[s]
      BY <1>2 DEF Crash
    <3>2. abandoned' = abandoned \cup Unstored({s \in Sessions : home[s] = w})
      BY <1>2 DEF Crash
    <3>3. QED
      BY <2>1, <3>1, <3>2 DEF Accepted, Unstored
  <2>3. \A v \in Workers : load'[v].doc = EmptyDoc \/ load'[v] = load[v]
    <3>1. DOMAIN load = Workers
      BY DEF ServerTypeOK
    <3>2. load' = [load EXCEPT ![w] = NoLoad] /\ NoLoad.doc = EmptyDoc
      BY <1>2 DEF Crash, NoLoad
    <3> HIDE DEF NoLoad
    <3>3. QED
      BY <3>1, <3>2
  <2>4. QED
    BY <2>1, <2>2, <2>3, EmptyIsDocument DEF Content
<1>3. QED
  BY <1>1, <1>2

\* Every step keeps the content of all documents stored, being stored or lost.
LEMMA NextKeepsContent ==
    ServerTypeOK /\ StagesInOrder /\ Content /\ [Next]_vars => Content'
<1> SUFFICES ASSUME ServerTypeOK, StagesInOrder, Content, [Next]_vars PROVE Content'
  OBVIOUS
<1>1. ASSUME NEW s \in Sessions, Handle(s) PROVE Content'
  BY <1>1, TakeKeepsContent, AppendKeepsContent, PublishKeepsContent, FailingKeepsContent DEF Handle
<1>2. ASSUME NEW w \in Workers, Load(w) \/ Evict(w) \/ Crash(w) PROVE Content'
  BY <1>2, LoadKeepsContent, LossKeepsContent
<1>3. CASE Rest \/ UNCHANGED vars
  BY <1>3 DEF Rest, vars, cacheVars, boundVars, Content, Accepted
<1>4. QED
  BY <1>1, <1>2, <1>3, CompactKeepsContent DEF Next

\* Nothing is shown at first.
LEMMA InitContent == Init => Content
<1> SUFFICES ASSUME Init PROVE Content
  OBVIOUS
<1>1. \A e \in DOMAIN entries : entries[e].doc = EmptyDoc
  BY DEF Init
<1>2. \A w \in Workers : load[w].doc = EmptyDoc
  BY DEF Init, NoLoad
<1>3. tasks = {} /\ snapshots = {}
  BY DEF Init
<1>4. QED
  BY <1>1, <1>2, <1>3, EmptyIsDocument DEF Content

\* Whatever is refused, evicted, crashes, fails or is compacted meanwhile: no
\* cached document and no snapshot shows a character of a refused operation.
THEOREM OnlyAcceptedIsShown == Spec => []OnlyStoredContent
<1>1. Spec => [](ServerTypeOK /\ StagesInOrder /\ Content)
  BY InitServerTypes, NextKeepsServerTypes, InitContent, NextKeepsContent, PTL DEF Spec
<1>2. Content => OnlyStoredContent
  <2>1. {log[i].op.uid : i \in DOMAIN log} \cup {op.uid : op \in Unstored(Sessions) \cup abandoned} = Accepted
    BY DEF Accepted, Unstored
  <2> HIDE DEF Accepted
  <2>2. QED
    BY <2>1 DEF Content, OnlyStoredContent
<1>3. QED
  BY <1>1, <1>2, PTL

-----------------------------------------------------------------------------
(* What is in a table.                                                     *)

\* The characters a list of operations inserts.
Drawn(ops) == {ops[k].uid : k \in {j \in DOMAIN ops : ops[j].type = "INSERT"}}

\* The characters a table holds an insertion of.
StoredIn(lg) == {lg[i].op.uid : i \in {j \in DOMAIN lg : lg[j].op.type = "INSERT"}}

\* The character an operation needs to find: its anchor, or what it deletes.
Target(op) == IF op.type = "INSERT" THEN op.after ELSE op.uid

ReachRoot(uids, lg, gone) ==
    \A u \in uids : \E i \in DOMAIN lg :
        /\ lg[i].op.type = "INSERT" /\ lg[i].op.uid = u /\ u \notin gone
        /\ lg[i].op.after \in uids \cup {Root}

\* Lasting, of a table and the characters deleted.
LastingIn(lg, gone) == UNION {uids \in SUBSET StoredIn(lg) : ReachRoot(uids, lg, gone)}

\* Covers, of a table and the characters that last.
Shows(d, lg, lasting, n) ==
    \A i \in 1..n :
        IF lg[i].op.type = "INSERT"
        THEN lg[i].op.uid \in lasting => Holds(d.list, lg[i].op.uid)
        ELSE lg[i].op.uid \notin VisibleUids(d)

\* d shows the effect of op, or could not, or need not.
Reflects(d, op, lasting, gone) ==
    IF op.type = "INSERT"
    THEN Holds(d.list, op.uid) \/ op.uid \in gone \/ op.after \notin lasting \cup {Root}
    ELSE op.uid \notin VisibleUids(d)

\* The replica of a client that received n messages of the channel and typed ops.
ViewOf(lg, ch, n, ops) ==
    ReplayFrom(ReplayFrom(EmptyDoc, [i \in 1..n |-> lg[ch[i]].op]), ops)

Pending(s) == hand[s].stage \in {"load", "append"}

\* A table names a character after it inserted it, which it does once, and only
\* characters somebody drew.
TableInOrder ==
    /\ \A i, j \in DOMAIN log :
          /\ log[i].op.type = "INSERT" /\ log[j].op.type = "INSERT" /\ log[i].op.uid = log[j].op.uid => i = j
          /\ log[i].op.type = "INSERT" /\ Target(log[j].op) = log[i].op.uid => i < j
    /\ \A i \in DOMAIN log :
          /\ log[i].op.type = "INSERT" => log[i].op.uid \in Drawn(typed[log[i].op.uid.site])
          /\ Target(log[i].op) = Root \/ Target(log[i].op) \in Drawn(typed[Target(log[i].op).site])
          /\ log[i].op.type # "INSERT" => log[i].op.uid \in Deleted

\* A client's replica holds all it drew, so it draws new ones.
OwnShown ==
    \A s \in Sessions :
        /\ \A u \in Drawn(typed[s]) : u.site = s
        /\ Drawn(typed[s]) \subseteq ToSet(ViewOf(log, channel, seen[s], typed[s]).list)

\* An operation on its way to the table: nobody named its character yet, and
\* the one it needs is in the table or can never be but before it.
PendingInOrder ==
    \A s \in {r \in Sessions : Pending(r)} :
        LET op == hand[s].op
        IN /\ op.type = "INSERT" =>
                 /\ op.uid \in Drawn(typed[s]) /\ op.uid \notin StoredIn(log)
                 /\ \A i \in DOMAIN log : Target(log[i].op) # op.uid
                 /\ Target(op) # op.uid
           /\ Target(op) \in {Root} \cup StoredIn(log) \cup Drawn(typed[s])
           /\ op.type # "INSERT" => op.uid \in Deleted

\* What is tombstoned was deleted.
TombsDeleted ==
    /\ \A e \in DOMAIN entries : entries[e].doc.tomb \subseteq Deleted
    /\ \A snap \in snapshots : snap.doc.tomb \subseteq Deleted
    /\ \A t \in tasks : t.doc.tomb \subseteq Deleted
    /\ \A w \in Workers : load[w].doc.tomb \subseteq Deleted

Lasts == LastingIn(log, Deleted)

\* With one worker that keeps entries in use: what is in use is the entry cached.
UsedIsCached ==
    /\ \A s \in Sessions : hand[s].stage = "append" => Cached(1) /\ hand[s].entry = cache[1]
    /\ \A t \in tasks : t.stage \in {"measure", "collect"} => Cached(1) /\ t.entry = cache[1]
    /\ load[1].stage # "none" => ~Cached(1)

\* Every document on the server covers what it stands for.
Captured ==
    /\ Cached(1) =>
          /\ Shows(entries[cache[1]].doc, log, Lasts, Len(log))
          /\ \A s \in Sessions : hand[s].stage = "append" =>
                Reflects(entries[cache[1]].doc, hand[s].op, Lasts, Deleted)
    /\ \A snap \in snapshots : Shows(snap.doc, log, Lasts, snap.seq)
    /\ \A t \in tasks : t.stage = "save" => Shows(t.doc, log, Lasts, t.seq)
    /\ load[1].stage = "operations" => Shows(load[1].doc, log, Lasts, load[1].seq)
    /\ load[1].stage = "resume" => load[1].seq = Len(log) /\ Shows(load[1].doc, log, Lasts, Len(log))

-----------------------------------------------------------------------------
(* Replays, as sets of characters.                                         *)

\* applyOperation in terms of what is held and what is visible.
LEMMA ApplyEffect ==
    ASSUME NEW d \in Document, NEW op \in Operation
    PROVE  /\ Apply(d, op) \in Document
           /\ op.type = "INSERT" =>
                 /\ ToSet(Apply(d, op).list) = IF Applicable(d, op) THEN ToSet(d.list) \cup {op.uid}
                                               ELSE ToSet(d.list)
                 /\ Apply(d, op).tomb = d.tomb
           /\ op.type # "INSERT" =>
                 /\ ToSet(Apply(d, op).list) = ToSet(d.list)
                 /\ d.tomb \subseteq Apply(d, op).tomb /\ Apply(d, op).tomb \subseteq d.tomb \cup {op.uid}
                 /\ op.uid \notin VisibleUids(Apply(d, op))
<1>1. d = [list |-> d.list, tomb |-> d.tomb] /\ d.list \in Seq(Uids)
  BY DEF Document
<1>2. Apply(d, op) \in Document
  BY ApplyIsDocument
<1>3. CASE op.type = "INSERT"
  <2>1. op.uid \in Uids /\ op.after \in Uids \cup {Root}
    BY <1>3 DEF Operation
  <2>2. QED
    BY <1>1, <1>2, <1>3, <2>1, ApplyElements
<1>4. CASE op.type # "INSERT"
  <2>1. /\ Apply(d, op).list = d.list
        /\ Apply(d, op).tomb = IF Applicable(d, op) THEN d.tomb \cup {op.uid} ELSE d.tomb
    BY <1>1, <1>4, ApplyElements
  <2>2. Applicable(d, op) <=> op.uid \in ToSet(d.list)
    BY <1>4 DEF Applicable, Holds
  <2>3. QED
    BY <1>2, <1>4, <2>1, <2>2 DEF VisibleUids
<1>5. QED
  BY <1>3, <1>4

\* A longer list of operations draws what its last one draws.
LEMMA DrawnMore ==
    ASSUME NEW ops \in Seq(Operation), NEW op \in Operation
    PROVE  Drawn(Append(ops, op)) = IF op.type = "INSERT" THEN Drawn(ops) \cup {op.uid} ELSE Drawn(ops)
<1> DEFINE more == Append(ops, op)
<1>1. /\ Len(ops) \in Nat /\ DOMAIN ops = 1..Len(ops) /\ DOMAIN more = 1..(Len(ops) + 1)
      /\ more[Len(ops) + 1] = op /\ \A k \in 1..Len(ops) : more[k] = ops[k]
  OBVIOUS
<1> HIDE DEF more
<1>2. DOMAIN more = DOMAIN ops \cup {Len(ops) + 1} /\ Len(ops) + 1 \notin DOMAIN ops
  BY <1>1
<1>3. Drawn(more) = IF op.type = "INSERT" THEN Drawn(ops) \cup {op.uid} ELSE Drawn(ops)
  BY <1>1, <1>2 DEF Drawn
<1>4. QED
  BY <1>3 DEF more

\* A replay keeps what a document holds and adds nothing but insertions.
LEMMA ReplayElements ==
    ASSUME NEW d \in Document, NEW ops \in Seq(Operation)
    PROVE  /\ ReplayFrom(d, ops) \in Document
           /\ ToSet(d.list) \subseteq ToSet(ReplayFrom(d, ops).list)
           /\ ToSet(ReplayFrom(d, ops).list) \subseteq ToSet(d.list) \cup Drawn(ops)
<1> DEFINE X == ToSet(d.list)
           D == Drawn(ops)
           V == {e \in Document : X \subseteq ToSet(e.list) /\ ToSet(e.list) \subseteq X \cup D}
           O == {op \in Operation : op.type = "INSERT" => op.uid \in D}
<1> HIDE DEF X, D
<1>1. ApplyStaysIn(V, O)
  <2> SUFFICES ASSUME NEW e \in V, NEW op \in O PROVE Apply(e, op) \in V
    BY DEF ApplyStaysIn
  <2>1. /\ Apply(e, op) \in Document /\ ToSet(e.list) \subseteq ToSet(Apply(e, op).list)
        /\ ToSet(Apply(e, op).list) \subseteq ToSet(e.list) \cup (IF op.type = "INSERT" THEN {op.uid} ELSE {})
    BY ApplyEffect
  <2>2. QED
    BY <2>1
<1>2. d \in V
  BY DEF X
<1>3. ops \in Seq(O)
  <2>1. \A i \in 1..Len(ops) : ops[i] \in O
    BY DEF D, Drawn
  <2> HIDE DEF O
  <2>2. QED
    BY <2>1
<1>4. ReplayFrom(d, ops) = Replayed(d, ops)
  BY Zenon DEF ReplayFrom, Replayed
<1> HIDE DEF V, O
<1>5. Replayed(d, ops) \in V
  BY <1>1, <1>2, <1>3, FoldApplyStays
<1>6. QED
  BY <1>4, <1>5 DEF V, X, D

\* The operations keep documents documents, so replays go through them.
LEMMA OperationsApply == ApplyStaysIn(Document, Operation)
BY ApplyIsDocument DEF ApplyStaysIn

\* The steps of a replay.
LEMMA ReplaySteps ==
    ASSUME NEW d \in Document, NEW ops \in Seq(Operation)
    PROVE  \E f : Replays(f, d, ops) /\ f[Len(ops)] = ReplayFrom(d, ops) /\ \A k \in 0..Len(ops) : f[k] \in Document
<1>1. PICK f : Replays(f, d, ops) /\ f[Len(ops)] = Replayed(d, ops)
  BY OperationsApply, ApplyFolds
<1>2. \A k \in 0..Len(ops) : f[k] \in Document
  BY <1>1, OperationsApply, ReplaysStay
<1>3. ReplayFrom(d, ops) = Replayed(d, ops)
  BY Zenon DEF ReplayFrom, Replayed
<1>4. QED
  BY <1>1, <1>2, <1>3

\* Who knows more ends up knowing more.
LEMMA ReplayMonotone ==
    ASSUME NEW d \in Document, NEW e \in Document, ToSet(d.list) \subseteq ToSet(e.list), NEW ops \in Seq(Operation)
    PROVE  ToSet(ReplayFrom(d, ops).list) \subseteq ToSet(ReplayFrom(e, ops).list)
<1>1. PICK f : /\ Replays(f, d, ops) /\ f[Len(ops)] = ReplayFrom(d, ops)
               /\ \A k \in 0..Len(ops) : f[k] \in Document
  BY ReplaySteps
<1>2. PICK g : /\ Replays(g, e, ops) /\ g[Len(ops)] = ReplayFrom(e, ops)
               /\ \A k \in 0..Len(ops) : g[k] \in Document
  BY ReplaySteps
<1> DEFINE P == {k \in Nat : k <= Len(ops) => ToSet(f[k].list) \subseteq ToSet(g[k].list)}
<1>3. 0 \in P
  BY <1>1, <1>2 DEF Replays
<1>4. ASSUME NEW k \in P PROVE k + 1 \in P
  <2> SUFFICES ASSUME k + 1 <= Len(ops) PROVE ToSet(f[k + 1].list) \subseteq ToSet(g[k + 1].list)
    OBVIOUS
  <2>1. k \in Nat /\ k + 1 \in 1..Len(ops) /\ k \in 0..Len(ops) /\ k <= Len(ops) /\ (k + 1) - 1 = k
    OBVIOUS
  <2>2. ToSet(f[k].list) \subseteq ToSet(g[k].list)
    BY <2>1
  <2> HIDE DEF P
  <2> DEFINE op == ops[k + 1]
  <2>3. op \in Operation /\ f[k + 1] = Apply(f[k], op) /\ g[k + 1] = Apply(g[k], op)
    BY <1>1, <1>2, <2>1 DEF Replays
  <2>4. f[k] \in Document /\ g[k] \in Document
    BY <1>1, <1>2, <2>1
  <2> HIDE DEF op
  <2>5. CASE op.type = "INSERT"
    <3>1. Applicable(f[k], op) => Applicable(g[k], op)
      BY <2>2, <2>5 DEF Applicable, Known, Holds
    <3>2. /\ ToSet(f[k + 1].list) = IF Applicable(f[k], op) THEN ToSet(f[k].list) \cup {op.uid} ELSE ToSet(f[k].list)
          /\ ToSet(g[k + 1].list) = IF Applicable(g[k], op) THEN ToSet(g[k].list) \cup {op.uid} ELSE ToSet(g[k].list)
      BY ZenonT(60), <2>3, <2>4, <2>5, ApplyEffect
    <3>3. QED
      BY <2>2, <3>1, <3>2
  <2>6. CASE op.type # "INSERT"
    <3>1. ToSet(Apply(f[k], op).list) = ToSet(f[k].list)
      BY <2>3, <2>4, <2>6, ApplyEffect
    <3>2. ToSet(Apply(g[k], op).list) = ToSet(g[k].list)
      BY <2>3, <2>4, <2>6, ApplyEffect
    <3>3. QED
      BY <2>2, <2>3, <3>1, <3>2
  <2>7. QED
    BY <2>5, <2>6
<1>5. P = Nat
  <2>1. P \in SUBSET Nat
    OBVIOUS
  <2> HIDE DEF P
  <2>2. QED
    BY <1>3, <1>4, <2>1, NatSetInduction
<1>6. Len(ops) \in Nat /\ Len(ops) <= Len(ops)
  OBVIOUS
<1>7. QED
  BY <1>1, <1>2, <1>5, <1>6

\* Who received more holds more.
LEMMA PrefixHoldsLess ==
    ASSUME NEW ops \in Seq(Operation), NEW more \in Seq(Operation), Len(ops) <= Len(more),
           \A k \in 1..Len(ops) : more[k] = ops[k], NEW d \in Document
    PROVE  ToSet(ReplayFrom(d, ops).list) \subseteq ToSet(ReplayFrom(d, more).list)
<1>1. PICK f : /\ Replays(f, d, more) /\ f[Len(more)] = ReplayFrom(d, more)
               /\ \A k \in 0..Len(more) : f[k] \in Document
  BY ReplaySteps
<1>2. PICK g : /\ Replays(g, d, ops) /\ g[Len(ops)] = ReplayFrom(d, ops)
  BY ReplaySteps
<1>3. Len(ops) \in Nat /\ Len(more) \in Nat
  OBVIOUS
<1> DEFINE h == [k \in 0..Len(ops) |-> f[k]]
<1>4. Replays(h, d, ops)
  <2>1. DOMAIN h = 0..Len(ops) /\ h[0] = d
    BY <1>1, <1>3 DEF Replays
  <2>2. ASSUME NEW k \in 1..Len(ops) PROVE h[k] = Apply(h[k - 1], ops[k])
    <3>1. k \in 1..Len(more) /\ k \in 0..Len(ops) /\ k - 1 \in 0..Len(ops)
      BY <1>3
    <3>2. QED
      BY <1>1, <3>1 DEF Replays
  <2> HIDE DEF h
  <2>3. QED
    BY <2>1, <2>2 DEF Replays
<1>5. g[Len(ops)] = f[Len(ops)]
  <2>1. Len(ops) \in 0..Len(ops) /\ h[Len(ops)] = f[Len(ops)]
    BY <1>3
  <2> HIDE DEF h
  <2>2. QED
    BY <1>2, <1>3, <1>4, <2>1, ReplaysAreOne
<1> DEFINE P == {j \in Nat : Len(ops) + j <= Len(more) =>
                    ToSet(f[Len(ops)].list) \subseteq ToSet(f[Len(ops) + j].list)}
<1>6. 0 \in P
  BY <1>3
<1>7. ASSUME NEW j \in P PROVE j + 1 \in P
  <2> DEFINE k == Len(ops) + j
  <2> SUFFICES ASSUME Len(ops) + (j + 1) <= Len(more)
               PROVE  ToSet(f[Len(ops)].list) \subseteq ToSet(f[Len(ops) + (j + 1)].list)
    OBVIOUS
  <2>1. /\ k + 1 \in 1..Len(more) /\ k \in 0..Len(more) /\ Len(ops) + (j + 1) = k + 1 /\ (k + 1) - 1 = k
        /\ ToSet(f[Len(ops)].list) \subseteq ToSet(f[k].list)
    BY <1>3
  <2> HIDE DEF P, k
  <2>2. f[k + 1] = Apply(f[k], more[k + 1]) /\ more[k + 1] \in Operation /\ f[k] \in Document
    BY <1>1, <2>1 DEF Replays
  <2>3. ToSet(f[k].list) \subseteq ToSet(f[k + 1].list)
    BY ZenonT(60), <2>2, ApplyEffect
  <2>4. QED
    BY <2>1, <2>3
<1>8. P = Nat
  <2>1. P \in SUBSET Nat
    OBVIOUS
  <2> HIDE DEF P
  <2>2. QED
    BY <1>6, <1>7, <2>1, NatSetInduction
<1>9. Len(more) - Len(ops) \in Nat /\ Len(ops) + (Len(more) - Len(ops)) = Len(more)
  BY <1>3
<1>10. Len(more) - Len(ops) \in P
  BY <1>8, <1>9
<1>11. ToSet(f[Len(ops)].list) \subseteq ToSet(f[Len(more)].list)
  BY <1>3, <1>9, <1>10
<1>12. QED
  BY <1>1, <1>2, <1>5, <1>11

\* Taking in one more operation at the end.
LEMMA ReplayOneMore ==
    ASSUME NEW d \in Document, NEW ops \in Seq(Operation), NEW op \in Operation
    PROVE  ReplayFrom(d, Append(ops, op)) = Apply(ReplayFrom(d, ops), op)
<1>1. Replayed(d, Append(ops, op)) = Apply(Replayed(d, ops), op)
  BY OperationsApply, FoldApplyAppend
<1>2. QED
  BY <1>1, Zenon DEF ReplayFrom, Replayed

-----------------------------------------------------------------------------
(* The table and what is on its way to it.                                 *)

\* What is known of an operation and of the character it needs.
LEMMA OperationParts ==
    ASSUME NEW op \in Operation
    PROVE  /\ op.type = "INSERT" => op.uid \in Uids
           /\ Target(op) \in Uids \cup {Root}
           /\ Root \notin Uids
           /\ \A u \in Uids : u.site \in Sessions /\ u.clock \in Nat
<1>1. Root \notin Uids /\ \A u \in Uids : u.site \in Sessions /\ u.clock \in Nat
  BY SessionsAssumption DEF Uids, UID, Root
<1>2. op.type = "INSERT" => op.uid \in Uids
  BY DEF Operation
<1>3. Target(op) \in Uids \cup {Root}
  BY DEF Operation, Target
<1>4. QED
  BY <1>1, <1>2, <1>3

\* A client's replica is a document of stored characters and its own, and one
\* that received more holds more.
LEMMA ViewHolds ==
    ASSUME ServerTypeOK, NEW s \in Sessions, NEW n \in 0..Len(channel)
    PROVE  /\ ViewOf(log, channel, n, typed[s]) \in Document
           /\ ToSet(ViewOf(log, channel, n, typed[s]).list) \subseteq StoredIn(log) \cup Drawn(typed[s])
           /\ \A m \in n..Len(channel) : ToSet(ViewOf(log, channel, n, typed[s]).list)
                                             \subseteq ToSet(ViewOf(log, channel, m, typed[s]).list)
<1> DEFINE sent(m) == [i \in 1..m |-> log[channel[i]].op]
<1>1. Len(channel) \in Nat /\ typed[s] \in Seq(Operation)
  BY TypeParts DEF ServerTypeOK
<1>2. ASSUME NEW m \in 0..Len(channel)
      PROVE  /\ sent(m) \in Seq(Operation) /\ Len(sent(m)) = m /\ Drawn(sent(m)) \subseteq StoredIn(log)
             /\ \A i \in 1..m : sent(m)[i] = log[channel[i]].op
  <2>1. m \in Nat /\ \A i \in 1..m : i \in DOMAIN channel
    BY <1>1, TypeParts
  <2>2. \A i \in 1..m : channel[i] \in DOMAIN log /\ log[channel[i]].op \in Operation
    BY <2>1, TypeParts
  <2>3. sent(m) \in Seq(Operation) /\ Len(sent(m)) = m /\ DOMAIN sent(m) = 1..m
    BY <2>1, <2>2
  <2>4. \A i \in 1..m : sent(m)[i] = log[channel[i]].op
    OBVIOUS
  <2> HIDE DEF sent
  <2>5. Drawn(sent(m)) \subseteq StoredIn(log)
    BY <2>2, <2>3, <2>4 DEF Drawn, StoredIn
  <2>6. QED
    BY <2>3, <2>4, <2>5
<1>3. \A m : ViewOf(log, channel, m, typed[s]) = ReplayFrom(ReplayFrom(EmptyDoc, sent(m)), typed[s])
  BY Zenon DEF ViewOf
<1> HIDE DEF sent
<1>4. ASSUME NEW m \in 0..Len(channel)
      PROVE  /\ ReplayFrom(EmptyDoc, sent(m)) \in Document
             /\ ToSet(ReplayFrom(EmptyDoc, sent(m)).list) \subseteq StoredIn(log)
  BY <1>2, EmptyIsDocument, ReplayElements
<1>5. /\ ViewOf(log, channel, n, typed[s]) \in Document
      /\ ToSet(ViewOf(log, channel, n, typed[s]).list) \subseteq StoredIn(log) \cup Drawn(typed[s])
  <2>1. /\ ReplayFrom(EmptyDoc, sent(n)) \in Document
        /\ ToSet(ReplayFrom(EmptyDoc, sent(n)).list) \subseteq StoredIn(log)
    BY <1>4
  <2>2. /\ ReplayFrom(ReplayFrom(EmptyDoc, sent(n)), typed[s]) \in Document
        /\ ToSet(ReplayFrom(ReplayFrom(EmptyDoc, sent(n)), typed[s]).list)
              \subseteq ToSet(ReplayFrom(EmptyDoc, sent(n)).list) \cup Drawn(typed[s])
    BY <1>1, <2>1, ReplayElements
  <2>3. QED
    BY <1>3, <2>1, <2>2
<1>6. ASSUME NEW m \in n..Len(channel)
      PROVE  ToSet(ViewOf(log, channel, n, typed[s]).list) \subseteq ToSet(ViewOf(log, channel, m, typed[s]).list)
  <2>1. m \in 0..Len(channel) /\ n <= m /\ \A i \in 1..n : i \in 1..m
    BY <1>1
  <2>2. /\ sent(n) \in Seq(Operation) /\ sent(m) \in Seq(Operation) /\ Len(sent(n)) <= Len(sent(m))
        /\ \A i \in 1..Len(sent(n)) : sent(m)[i] = sent(n)[i]
    BY <1>2, <2>1
  <2>3. ToSet(ReplayFrom(EmptyDoc, sent(n)).list) \subseteq ToSet(ReplayFrom(EmptyDoc, sent(m)).list)
    BY <2>2, EmptyIsDocument, PrefixHoldsLess
  <2>4. ReplayFrom(EmptyDoc, sent(n)) \in Document /\ ReplayFrom(EmptyDoc, sent(m)) \in Document
    BY <1>4, <2>1
  <2>5. ToSet(ReplayFrom(ReplayFrom(EmptyDoc, sent(n)), typed[s]).list)
           \subseteq ToSet(ReplayFrom(ReplayFrom(EmptyDoc, sent(m)), typed[s]).list)
    BY <1>1, <2>3, <2>4, ReplayMonotone
  <2>6. QED
    BY <1>3, <2>5
<1>7. QED
  BY <1>5, <1>6

\* What a client types next (submitInsert, submitDelete): a character nobody
\* drew, behind one its replica holds, or the deletion of one.
LEMMA KeystrokeIsNew ==
    ASSUME ServerTypeOK, OwnShown, NEW s \in Sessions, NEW n \in seen[s]..Len(channel), NEW op \in Keystrokes(s, n)
    PROVE  /\ op \in Operation /\ op.type \in {"INSERT", "DELETE"}
           /\ op.type = "INSERT" => op.uid.site = s /\ op.uid \notin Drawn(typed[s])
           /\ Target(op) \in {Root} \cup ToSet(ViewOf(log, channel, n, typed[s]).list)
           /\ Drawn(typed[s]) \subseteq ToSet(ViewOf(log, channel, n, typed[s]).list)
           /\ n \in 0..Len(channel)
<1> DEFINE view == ViewOf(log, channel, n, typed[s])
           fresh == [clock |-> ClockOf(view) + 1, site |-> s]
<1>1. seen[s] \in 0..Len(channel) /\ n \in 0..Len(channel) /\ Len(channel) \in Nat
  <2>1. seen[s] \in 0..Len(channel) /\ Len(channel) \in Nat
    BY TypeParts DEF ServerTypeOK
  <2>2. QED
    BY <2>1
<1>2. op \in Operation
  BY <1>1, KeystrokesAreOperations
<1>3. view \in Document /\ Drawn(typed[s]) \subseteq ToSet(view.list)
  <2>1. view \in Document
    BY <1>1, ViewHolds
  <2>2. ToSet(ViewOf(log, channel, seen[s], typed[s]).list) \subseteq ToSet(view.list)
    BY <1>1, ViewHolds
  <2>3. Drawn(typed[s]) \subseteq ToSet(ViewOf(log, channel, seen[s], typed[s]).list)
    BY DEF OwnShown
  <2>4. QED
    BY <2>1, <2>2, <2>3
<1>4. op \in {InsertOp(fresh, a) : a \in VisibleUids(view) \cup {Root}} \cup {DeleteOp(u) : u \in VisibleUids(view)}
  BY Zenon DEF Keystrokes, View, ViewOf
<1> HIDE DEF view
<1>5. VisibleUids(view) \subseteq ToSet(view.list)
  BY DEF VisibleUids
<1>6. ClockOf(view) \in Nat /\ \A u \in ToSet(view.list) : u.clock <= ClockOf(view) /\ u.clock \in Nat
  <2>1. view.list \in Seq(Uids) /\ \A u \in Uids : u.clock \in Nat
    BY <1>3 DEF Document, Uids, UID
  <2>2. ToSet(view.list) \subseteq Uids
    BY <2>1 DEF ToSet
  <2>3. QED
    BY <2>1, <2>2, GreatestClock DEF ClockOf
<1>7. fresh \notin ToSet(view.list) /\ fresh.site = s
  BY <1>6
<1> HIDE DEF fresh
<1>8. CASE \E a \in VisibleUids(view) \cup {Root} : op = InsertOp(fresh, a)
  <2>1. PICK a \in VisibleUids(view) \cup {Root} : op = InsertOp(fresh, a)
    BY <1>8
  <2>2. op.type = "INSERT" /\ op.uid = fresh /\ Target(op) = a
    BY <2>1 DEF InsertOp, Target
  <2>3. QED
    BY <1>1, <1>2, <1>3, <1>5, <1>7, <2>2 DEF view
<1>9. CASE \E u \in VisibleUids(view) : op = DeleteOp(u)
  <2>1. PICK u \in VisibleUids(view) : op = DeleteOp(u)
    BY <1>9
  <2>2. op.type = "DELETE" /\ Target(op) = u
    BY <2>1 DEF DeleteOp, Target
  <2>3. QED
    BY <1>1, <1>2, <1>3, <1>5, <2>2 DEF view
<1>10. QED
  BY <1>4, <1>8, <1>9

\* What is typed is kept, and what it deletes counts as deleted.
LEMMA SentIsTyped ==
    ASSUME ServerTypeOK, NEW s \in Sessions, NEW n, NEW op \in Operation, Sent(s, n, op)
    PROVE  /\ typed'[s] = Append(typed[s], op) /\ \A r \in Sessions : r # s => typed'[r] = typed[r]
           /\ seen'[s] = n /\ \A r \in Sessions : r # s => seen'[r] = seen[r]
           /\ Drawn(typed'[s]) = IF op.type = "INSERT" THEN Drawn(typed[s]) \cup {op.uid} ELSE Drawn(typed[s])
           /\ \A r \in Sessions : Drawn(typed[r]) \subseteq Drawn(typed'[r])
           /\ Deleted' = IF op.type = "DELETE" THEN Deleted \cup {op.uid} ELSE Deleted
<1>1. /\ typed'[s] = Append(typed[s], op) /\ \A r \in Sessions : r # s => typed'[r] = typed[r]
      /\ seen'[s] = n /\ \A r \in Sessions : r # s => seen'[r] = seen[r]
      /\ typed[s] \in Seq(Operation)
  BY DEF ServerTypeOK, Sent
<1>2. Drawn(typed'[s]) = IF op.type = "INSERT" THEN Drawn(typed[s]) \cup {op.uid} ELSE Drawn(typed[s])
  BY <1>1, DrawnMore
<1>3. \A r \in Sessions : Drawn(typed[r]) \subseteq Drawn(typed'[r])
  BY <1>1, <1>2
<1>4. ToSet(typed'[s]) = ToSet(typed[s]) \cup {op}
  BY <1>1, AppendElements
<1>5. Deleted' = IF op.type = "DELETE" THEN Deleted \cup {op.uid} ELSE Deleted
  <2> DEFINE gone(ops) == {o.uid : o \in {p \in ToSet(ops) : p.type = "DELETE"}}
  <2>1. Deleted = UNION {gone(typed[r]) : r \in Sessions} /\ Deleted' = UNION {gone(typed'[r]) : r \in Sessions}
    BY DEF Deleted
  <2>2. gone(typed'[s]) = IF op.type = "DELETE" THEN gone(typed[s]) \cup {op.uid} ELSE gone(typed[s])
    BY <1>4
  <2>3. \A r \in Sessions : r # s => gone(typed'[r]) = gone(typed[r])
    BY <1>1
  <2> HIDE DEF gone
  <2>4. QED
    BY <2>1, <2>2, <2>3
<1>6. QED
  BY <1>1, <1>2, <1>3, <1>5

\* The table, the replicas it feeds, and what is on its way to it.
TableInv == TableInOrder /\ OwnShown /\ PendingInOrder

\* What a table of operations is made of.
LEMMA StoredParts ==
    ASSUME ServerTypeOK
    PROVE  /\ \A i \in DOMAIN log : log[i].op \in Operation
           /\ \A u \in StoredIn(log) : \E i \in DOMAIN log : log[i].op.type = "INSERT" /\ log[i].op.uid = u
           /\ \A i \in DOMAIN log : log[i].op.type = "INSERT" => log[i].op.uid \in StoredIn(log)
BY TypeParts DEF StoredIn

\* What is drawn by one session is not by another, and what is stored was drawn.
LEMMA StoredIsDrawn ==
    ASSUME ServerTypeOK, TableInv
    PROVE  /\ \A u \in StoredIn(log) : u \in Uids /\ u.site \in Sessions /\ u \in Drawn(typed[u.site])
           /\ \A s \in Sessions : \A u \in Drawn(typed[s]) : u.site = s
           /\ \A i \in DOMAIN log : Target(log[i].op) # Root =>
                 /\ Target(log[i].op).site \in Sessions
                 /\ Target(log[i].op) \in Drawn(typed[Target(log[i].op).site])
<1>1. \A i \in DOMAIN log : log[i].op.type = "INSERT" =>
          log[i].op.uid \in Uids /\ log[i].op.uid.site \in Sessions
  BY StoredParts, OperationParts
<1>2. \A i \in DOMAIN log : Target(log[i].op) # Root => Target(log[i].op).site \in Sessions
  BY StoredParts, OperationParts
<1>3. QED
  BY <1>1, <1>2, StoredParts DEF TableInv, TableInOrder, OwnShown

\* Steps that neither type nor store.
LEMMA TableStays ==
    ASSUME ServerTypeOK, TableInv, UNCHANGED <<log, typed, seen>>,
           \A p \in DOMAIN channel : channel'[p] = channel[p],
           \A s \in Sessions : hand'[s].stage \in {"load", "append"} =>
               hand[s].stage \in {"load", "append"} /\ hand'[s].op = hand[s].op
    PROVE  TableInv'
<1>1. Deleted' = Deleted
  BY DEF Deleted
<1>2. TableInOrder'
  BY <1>1 DEF TableInv, TableInOrder
<1>3. OwnShown'
  <2>1. ASSUME NEW s \in Sessions
        PROVE  ViewOf(log, channel', seen[s], typed[s]) = ViewOf(log, channel, seen[s], typed[s])
    <3>1. seen[s] \in 0..Len(channel) /\ Len(channel) \in Nat /\ DOMAIN channel = 1..Len(channel)
      BY TypeParts DEF ServerTypeOK
    <3>2. \A i \in 1..seen[s] : i \in DOMAIN channel
      BY <3>1
    <3>3. [i \in 1..seen[s] |-> log[channel'[i]].op] = [i \in 1..seen[s] |-> log[channel[i]].op]
      BY <3>2
    <3>4. QED
      BY <3>3, Zenon DEF ViewOf
  <2>2. QED
    BY <2>1 DEF TableInv, OwnShown
<1>4. PendingInOrder'
  BY <1>1 DEF TableInv, PendingInOrder, Pending
<1>5. QED
  BY <1>2, <1>3, <1>4 DEF TableInv

\* The operation that is taken up is new and needs what is stored or its
\* author's.
LEMMA TakeKeepsTable ==
    ASSUME ServerTypeOK, TableInv, NEW s \in Sessions, Take(s) \/ Refuse(s)
    PROVE  TableInv'
<1>1. PICK n \in seen[s]..Len(channel) : \E op \in Keystrokes(s, n) :
          Sent(s, n, op) /\ (Applies(s, op) \/ Waits(s, op) \/ Refuses)
  BY TakenUp
<1>2. PICK op \in Keystrokes(s, n) : Sent(s, n, op) /\ (Applies(s, op) \/ Waits(s, op) \/ Refuses)
  BY <1>1
<1> DEFINE view == ViewOf(log, channel, n, typed[s])
<1>3. /\ op \in Operation /\ op.type \in {"INSERT", "DELETE"}
      /\ op.type = "INSERT" => op.uid.site = s /\ op.uid \notin Drawn(typed[s])
      /\ Target(op) \in {Root} \cup ToSet(view.list)
      /\ Drawn(typed[s]) \subseteq ToSet(view.list)
      /\ n \in 0..Len(channel)
  BY KeystrokeIsNew DEF TableInv
<1>4. /\ typed'[s] = Append(typed[s], op) /\ \A r \in Sessions : r # s => typed'[r] = typed[r]
      /\ seen'[s] = n /\ \A r \in Sessions : r # s => seen'[r] = seen[r]
      /\ Drawn(typed'[s]) = IF op.type = "INSERT" THEN Drawn(typed[s]) \cup {op.uid} ELSE Drawn(typed[s])
      /\ \A r \in Sessions : Drawn(typed[r]) \subseteq Drawn(typed'[r])
      /\ Deleted' = IF op.type = "DELETE" THEN Deleted \cup {op.uid} ELSE Deleted
  BY ZenonT(60), <1>2, <1>3, SentIsTyped
<1>5. hand[s].stage = "idle" /\ log' = log /\ channel' = channel
  BY TakeIs
<1>6. TableInOrder'
  <2>1. \A i \in DOMAIN log : log[i].op.type = "INSERT" => log[i].op.uid.site \in Sessions
    BY StoredParts, OperationParts
  <2>2. \A i \in DOMAIN log : log[i].op.type = "INSERT" => log[i].op.uid \in Drawn(typed'[log[i].op.uid.site])
    BY <1>4, <2>1 DEF TableInv, TableInOrder
  <2>3. \A i \in DOMAIN log :
           Target(log[i].op) = Root \/ Target(log[i].op) \in Drawn(typed'[Target(log[i].op).site])
    BY <1>4, StoredIsDrawn
  <2>4. Deleted \subseteq Deleted'
    BY <1>4
  <2>5. QED
    BY <1>5, <2>2, <2>3, <2>4 DEF TableInv, TableInOrder
<1>7. view \in Document /\ ToSet(view.list) \subseteq StoredIn(log) \cup Drawn(typed[s])
  BY <1>3, ViewHolds
<1>8. ViewOf(log, channel, n, typed'[s]) = Apply(view, op)
  <2> DEFINE base == ReplayFrom(EmptyDoc, [i \in 1..n |-> log[channel[i]].op])
  <2>1. base \in Document
    <3> DEFINE sent == [i \in 1..n |-> log[channel[i]].op]
    <3>1. n \in Nat /\ \A i \in 1..n : i \in DOMAIN channel
      BY <1>3, TypeParts
    <3>2. \A i \in 1..n : log[channel[i]].op \in Operation
      BY <3>1, TypeParts
    <3>3. sent \in Seq(Operation)
      BY <3>1, <3>2
    <3> HIDE DEF sent
    <3>4. ReplayFrom(EmptyDoc, sent) \in Document
      BY <3>3, EmptyIsDocument, ReplayElements
    <3>5. QED
      BY <3>4 DEF sent
  <2>2. typed[s] \in Seq(Operation)
    BY DEF ServerTypeOK
  <2>3. ViewOf(log, channel, n, typed'[s]) = ReplayFrom(base, typed'[s]) /\ view = ReplayFrom(base, typed[s])
    BY Zenon DEF ViewOf
  <2> HIDE DEF base, view
  <2>4. QED
    BY <1>3, <1>4, <2>1, <2>2, <2>3, ReplayOneMore
<1> HIDE DEF view
<1>9. OwnShown'
  <2>1. ASSUME NEW r \in Sessions PROVE \A u \in Drawn(typed'[r]) : u.site = r
    <3>1. \A u \in Drawn(typed[r]) : u.site = r
      BY StoredIsDrawn
    <3>2. CASE r = s
      BY <1>3, <1>4, <3>1, <3>2
    <3>3. CASE r # s
      BY <1>4, <3>1, <3>3
    <3>4. QED
      BY <3>2, <3>3
  <2>2. Drawn(typed'[s]) \subseteq ToSet(ViewOf(log, channel, n, typed'[s]).list)
    <3>1. CASE op.type = "INSERT"
      <4>1. Applicable(view, op)
        BY <1>3, <3>1 DEF Applicable, Known, Holds, Target
      <4>2. ToSet(Apply(view, op).list) = ToSet(view.list) \cup {op.uid}
        BY <1>3, <1>7, <3>1, <4>1, ApplyEffect
      <4>3. QED
        BY <1>3, <1>4, <1>8, <3>1, <4>2
    <3>2. CASE op.type # "INSERT"
      <4>1. ToSet(Apply(view, op).list) = ToSet(view.list)
        BY <1>3, <1>7, <3>2, ApplyEffect
      <4>2. QED
        BY <1>3, <1>4, <1>8, <3>2, <4>1
    <3>3. QED
      BY <3>1, <3>2
  <2>3. ASSUME NEW r \in Sessions
        PROVE  Drawn(typed'[r]) \subseteq ToSet(ViewOf(log, channel, seen'[r], typed'[r]).list)
    BY <1>4, <2>2 DEF TableInv, OwnShown
  <2>4. QED
    BY <1>5, <2>1, <2>3 DEF OwnShown
<1>10. PendingInOrder'
  <2>1. ASSUME NEW r \in Sessions, r # s, Pending(r)' PROVE Pending(r) /\ hand'[r].op = hand[r].op
    <3>1. DOMAIN hand = Sessions
      BY DEF ServerTypeOK
    <3>2. hand'[r] = hand[r]
      BY <1>2, <2>1, <3>1 DEF Applies, Waits, Refuses
    <3>3. QED
      BY <2>1, <3>2 DEF Pending
  <2>2. Pending(s)' => hand'[s].op = op
    <3>1. DOMAIN hand = Sessions
      BY DEF ServerTypeOK
    <3>2. QED
      BY <1>2, <1>5, <3>1 DEF Applies, Waits, Refuses, Pending
  <2>3. Deleted \subseteq Deleted' /\ (op.type # "INSERT" => op.uid \in Deleted')
    BY <1>3, <1>4
  <2>4. op.type = "INSERT" => /\ op.uid \in Drawn(typed'[s]) /\ op.uid \notin StoredIn(log)
                              /\ \A i \in DOMAIN log : Target(log[i].op) # op.uid
                              /\ Target(op) # op.uid
    <3> SUFFICES ASSUME op.type = "INSERT"
                 PROVE  /\ op.uid \in Drawn(typed'[s]) /\ op.uid \notin StoredIn(log)
                        /\ \A i \in DOMAIN log : Target(log[i].op) # op.uid
                        /\ Target(op) # op.uid
      OBVIOUS
    <3>1. op.uid \in Drawn(typed'[s]) /\ op.uid.site = s /\ op.uid \notin Drawn(typed[s])
      BY <1>3, <1>4
    <3>2. op.uid \notin StoredIn(log)
      BY <3>1, StoredIsDrawn
    <3>3. op.uid # Root
      BY <1>3, OperationParts
    <3>4. \A i \in DOMAIN log : Target(log[i].op) # op.uid
      BY <3>1, <3>3, StoredIsDrawn
    <3>5. Target(op) # op.uid
      BY <1>3, <1>7, <3>1, <3>2, <3>3
    <3>6. QED
      BY <3>1, <3>2, <3>4, <3>5
  <2>5. Target(op) \in {Root} \cup StoredIn(log) \cup Drawn(typed'[s])
    BY <1>3, <1>4, <1>7
  <2>6. ASSUME NEW r \in Sessions, Pending(r)'
        PROVE  /\ hand'[r].op.type = "INSERT" =>
                     /\ hand'[r].op.uid \in Drawn(typed'[r]) /\ hand'[r].op.uid \notin StoredIn(log)
                     /\ \A i \in DOMAIN log : Target(log[i].op) # hand'[r].op.uid
                     /\ Target(hand'[r].op) # hand'[r].op.uid
               /\ Target(hand'[r].op) \in {Root} \cup StoredIn(log) \cup Drawn(typed'[r])
               /\ hand'[r].op.type # "INSERT" => hand'[r].op.uid \in Deleted'
    <3>1. CASE r = s
      BY <2>2, <2>3, <2>4, <2>5, <2>6, <3>1
    <3>2. CASE r # s
      BY <1>4, <2>1, <2>3, <2>6, <3>2 DEF TableInv, PendingInOrder
    <3>3. QED
      BY <3>1, <3>2
  <2>7. QED
    BY <1>5, <2>6 DEF PendingInOrder, Pending
<1>11. QED
  BY <1>6, <1>9, <1>10 DEF TableInv

\* A stored operation's character is in the table from now on.
LEMMA StoredMore ==
    ASSUME ServerTypeOK, StagesInOrder, NEW s \in Sessions, AppendOperation(s)
    PROVE  /\ StoredIn(log') = IF hand[s].op.type = "INSERT" THEN StoredIn(log) \cup {hand[s].op.uid}
                               ELSE StoredIn(log)
           /\ DOMAIN log' = DOMAIN log \cup {Len(log) + 1} /\ Len(log) + 1 \notin DOMAIN log
<1>1. /\ DOMAIN log' = 1..(Len(log) + 1) /\ log'[Len(log) + 1].op = hand[s].op
      /\ \A i \in DOMAIN log : i \in DOMAIN log' /\ log'[i] = log[i]
  BY AppendIs
<1>2. Len(log) \in Nat /\ DOMAIN log = 1..Len(log)
  BY TypeParts
<1>3. DOMAIN log' = DOMAIN log \cup {Len(log) + 1} /\ Len(log) + 1 \notin DOMAIN log
  BY <1>1, <1>2
<1> DEFINE last == Len(log) + 1
<1>4. \A i \in DOMAIN log' : i = last \/ (i \in DOMAIN log /\ log'[i] = log[i])
  BY <1>1, <1>3
<1>5. last \in DOMAIN log' /\ log'[last].op = hand[s].op
  BY <1>1, <1>3
<1> HIDE DEF last
<1>6. StoredIn(log) \subseteq StoredIn(log')
  BY <1>1 DEF StoredIn
<1>7. CASE hand[s].op.type = "INSERT"
  <2>1. hand[s].op.uid \in StoredIn(log')
    BY <1>5, <1>7 DEF StoredIn
  <2>2. \A u \in StoredIn(log') : u \in StoredIn(log) \/ u = hand[s].op.uid
    BY <1>4, <1>5 DEF StoredIn
  <2>3. QED
    BY <1>3, <1>6, <1>7, <2>1, <2>2
<1>8. CASE hand[s].op.type # "INSERT"
  <2>1. \A u \in StoredIn(log') : u \in StoredIn(log)
    BY <1>4, <1>5, <1>8 DEF StoredIn
  <2>2. QED
    BY <1>3, <1>6, <1>8, <2>1
<1>9. QED
  BY <1>7, <1>8

\* The row that is appended inserts a character nobody named, or names one
\* that is in the table or was the author's before.
LEMMA AppendKeepsTable ==
    ASSUME ServerTypeOK, StagesInOrder, TableInv, NEW s \in Sessions, AppendOperation(s)
    PROVE  TableInv'
<1> DEFINE op == hand[s].op
           last == Len(log) + 1
<1>1. /\ hand[s].stage = "append" /\ op \in Operation
      /\ log'[last].op = op
      /\ \A i \in DOMAIN log : i \in DOMAIN log' /\ log'[i] = log[i]
      /\ hand'[s].stage = "publish"
      /\ \A r \in Sessions : r # s => hand'[r] = hand[r]
      /\ UNCHANGED <<typed, seen, channel>>
  BY AppendIs DEF clientVars
<1>2. /\ StoredIn(log') = IF op.type = "INSERT" THEN StoredIn(log) \cup {op.uid} ELSE StoredIn(log)
      /\ DOMAIN log' = DOMAIN log \cup {last} /\ last \notin DOMAIN log
      /\ \A i \in DOMAIN log : i < last
  <2>1. \A i \in DOMAIN log : i < Len(log) + 1
    BY TypeParts
  <2>2. QED
    BY <2>1, StoredMore
<1>3. Deleted' = Deleted
  BY <1>1 DEF Deleted
<1>4. /\ op.type = "INSERT" =>
            /\ op.uid \in Drawn(typed[s]) /\ op.uid \notin StoredIn(log)
            /\ \A i \in DOMAIN log : Target(log[i].op) # op.uid
            /\ Target(op) # op.uid
      /\ Target(op) \in {Root} \cup StoredIn(log) \cup Drawn(typed[s])
      /\ op.type # "INSERT" => op.uid \in Deleted
  BY <1>1 DEF TableInv, PendingInOrder, Pending
<1>5. op.type = "INSERT" => op.uid.site = s
  BY <1>4, StoredIsDrawn
<1>6. Target(op) = Root \/ Target(op) \in Drawn(typed[Target(op).site])
  BY <1>4, StoredIsDrawn
<1> HIDE DEF op, last
<1>7. TableInOrder'
  <2>1. ASSUME NEW i \in DOMAIN log', NEW j \in DOMAIN log', log'[i].op.type = "INSERT", log'[j].op.type = "INSERT",
               log'[i].op.uid = log'[j].op.uid
        PROVE  i = j
    <3>1. CASE i \in DOMAIN log /\ j \in DOMAIN log
      BY <1>1, <2>1, <3>1 DEF TableInv, TableInOrder
    <3>2. CASE i \in DOMAIN log /\ j = last
      BY <1>1, <1>4, <2>1, <3>2, StoredParts
    <3>3. CASE i = last /\ j \in DOMAIN log
      BY <1>1, <1>4, <2>1, <3>3, StoredParts
    <3>4. QED
      BY <1>2, <3>1, <3>2, <3>3
  <2>2. ASSUME NEW i \in DOMAIN log', NEW j \in DOMAIN log', log'[i].op.type = "INSERT",
               Target(log'[j].op) = log'[i].op.uid
        PROVE  i < j
    <3>1. CASE i \in DOMAIN log /\ j \in DOMAIN log
      BY <1>1, <2>2, <3>1 DEF TableInv, TableInOrder
    <3>2. CASE i \in DOMAIN log /\ j = last
      BY <1>2, <3>2
    <3>3. CASE i = last
      BY <1>1, <1>2, <1>4, <2>2, <3>3
    <3>4. QED
      BY <1>2, <3>1, <3>2, <3>3
  <2>3. ASSUME NEW i \in DOMAIN log'
        PROVE  /\ log'[i].op.type = "INSERT" => log'[i].op.uid \in Drawn(typed[log'[i].op.uid.site])
               /\ Target(log'[i].op) = Root \/ Target(log'[i].op) \in Drawn(typed[Target(log'[i].op).site])
               /\ log'[i].op.type # "INSERT" => log'[i].op.uid \in Deleted
    <3>1. CASE i \in DOMAIN log
      BY <1>1, <3>1 DEF TableInv, TableInOrder
    <3>2. CASE i = last
      BY <1>1, <1>4, <1>5, <1>6, <3>2
    <3>3. QED
      BY <1>2, <3>1, <3>2
  <2>4. QED
    BY <1>1, <1>3, <2>1, <2>2, <2>3 DEF TableInOrder
<1>8. OwnShown'
  <2>1. ASSUME NEW r \in Sessions
        PROVE  ViewOf(log', channel, seen[r], typed[r]) = ViewOf(log, channel, seen[r], typed[r])
    <3>1. seen[r] \in 0..Len(channel)
      BY DEF ServerTypeOK
    <3>2. \A i \in 1..seen[r] : channel[i] \in DOMAIN log
      BY <3>1, TypeParts
    <3>3. [i \in 1..seen[r] |-> log'[channel[i]].op] = [i \in 1..seen[r] |-> log[channel[i]].op]
      BY <1>1, <3>2
    <3>4. QED
      BY <3>3, Zenon DEF ViewOf
  <2>2. QED
    BY <1>1, <2>1 DEF TableInv, OwnShown
<1>9. PendingInOrder'
  <2>1. ASSUME NEW r \in Sessions, Pending(r)'
        PROVE  /\ r # s /\ Pending(r) /\ hand'[r].op = hand[r].op
               /\ hand[r].op.type = "INSERT" =>
                     /\ hand[r].op.uid \in Drawn(typed[r]) /\ hand[r].op.uid \notin StoredIn(log')
                     /\ \A i \in DOMAIN log' : Target(log'[i].op) # hand[r].op.uid
                     /\ Target(hand[r].op) # hand[r].op.uid
               /\ Target(hand[r].op) \in {Root} \cup StoredIn(log') \cup Drawn(typed[r])
               /\ hand[r].op.type # "INSERT" => hand[r].op.uid \in Deleted
    <3>1. r # s /\ Pending(r) /\ hand'[r] = hand[r]
      BY <1>1, <2>1 DEF Pending
    <3> DEFINE o == hand[r].op
    <3>2. /\ o.type = "INSERT" =>
                /\ o.uid \in Drawn(typed[r]) /\ o.uid \notin StoredIn(log)
                /\ \A i \in DOMAIN log : Target(log[i].op) # o.uid
                /\ Target(o) # o.uid
          /\ Target(o) \in {Root} \cup StoredIn(log) \cup Drawn(typed[r])
          /\ o.type # "INSERT" => o.uid \in Deleted
      BY <3>1 DEF TableInv, PendingInOrder
    <3>3. o.type = "INSERT" => o.uid.site = r /\ o.uid # Root
      <4>1. o \in Operation
        BY <3>1 DEF Pending, StagesInOrder
      <4>2. QED
        BY <3>2, <4>1, StoredIsDrawn, OperationParts
    <3> HIDE DEF o
    <3>4. o.type = "INSERT" => o.uid \notin StoredIn(log')
      BY <1>2, <1>5, <3>1, <3>2, <3>3
    <3>5. o.type = "INSERT" => Target(op) # o.uid
      BY <1>4, <3>1, <3>2, <3>3, StoredIsDrawn
    <3>6. o.type = "INSERT" => \A i \in DOMAIN log' : Target(log'[i].op) # o.uid
      BY <1>1, <1>2, <3>2, <3>5
    <3>7. QED
      BY <1>2, <3>1, <3>2, <3>4, <3>6 DEF o
  <2>2. QED
    BY <1>1, <1>3, <2>1 DEF PendingInOrder, Pending
<1>10. QED
  BY <1>7, <1>8, <1>9 DEF TableInv

\* Every step keeps the table in order.
LEMMA NextKeepsTable ==
    ServerTypeOK /\ StagesInOrder /\ TableInv /\ [Next]_vars => TableInv'
<1> SUFFICES ASSUME ServerTypeOK, StagesInOrder, TableInv, [Next]_vars PROVE TableInv'
  OBVIOUS
<1> DEFINE Same == \A s \in Sessions : hand'[s].stage \in {"load", "append"} =>
               hand[s].stage \in {"load", "append"} /\ hand'[s].op = hand[s].op
<1>1. ASSUME UNCHANGED <<log, typed, seen, channel>>, Same PROVE TableInv'
  BY <1>1, TableStays
<1>2. ASSUME NEW s \in Sessions, Handle(s) PROVE TableInv'
  <2>1. CASE Publish(s)
    <3>1. UNCHANGED <<log, typed, seen>> /\ hand' = [hand EXCEPT ![s] = Idle]
      BY <2>1 DEF Publish, clientVars
    <3>2. \A p \in DOMAIN channel : channel'[p] = channel[p]
      <4>1. channel \in Seq(DOMAIN log) /\ channel' = Append(channel, hand[s].seq)
        BY <2>1 DEF Publish, ServerTypeOK
      <4>2. QED
        BY <4>1
    <3>3. Same
      BY <3>1 DEF Idle, ServerTypeOK
    <3>4. QED
      BY <3>1, <3>2, <3>3, TableStays
  <2>2. CASE HandlerFails(s)
    <3>1. UNCHANGED <<log, typed, seen, channel>> /\ hand' = [hand EXCEPT ![s] = Idle]
      BY <2>2 DEF HandlerFails, clientVars
    <3>2. Same
      BY <3>1 DEF Idle, ServerTypeOK
    <3>3. QED
      BY <1>1, <3>1, <3>2
  <2>3. QED
    BY <1>2, <2>1, <2>2, TakeKeepsTable, AppendKeepsTable DEF Handle
<1>3. ASSUME NEW t \in tasks, Compact(t) PROVE TableInv'
  BY <1>1, <1>3 DEF Compact, Measure, Collect, Save, Prune, CompactionFails, clientVars
<1>4. ASSUME NEW w \in Workers, Load(w) PROVE TableInv'
  <2>1. CASE Resume(w)
    <3>1. UNCHANGED <<log, typed, seen, channel>>
      BY <2>1 DEF Resume, clientVars
    <3>2. \A s \in Sessions : hand'[s] = hand[s] \/ (s \in Waiting(w) /\ hand'[s].op = hand[s].op)
      BY <2>1, ResumeIs
    <3>3. Same
      BY <3>2 DEF Waiting
    <3>4. QED
      BY <1>1, <3>1, <3>3
  <2>2. CASE ~Resume(w)
    BY <1>1, <1>4, <2>2 DEF Load, Join, ReadSnapshot, ReadOperations, clientVars
  <2>3. QED
    BY <2>1, <2>2
<1>5. ASSUME NEW w \in Workers, Evict(w) \/ Crash(w) PROVE TableInv'
  <2>1. UNCHANGED <<log, typed, seen, channel>>
    BY <1>5 DEF Evict, Crash, clientVars
  <2>2. \A s \in Sessions : hand'[s] = hand[s] \/ hand'[s] = Closed
    BY <1>5 DEF Evict, Crash
  <2>3. Same
    BY <2>2 DEF Closed, Idle
  <2>4. QED
    BY <1>1, <2>1, <2>3
<1>6. CASE Rest \/ UNCHANGED vars
  BY <1>1, <1>6 DEF Rest, vars, clientVars
<1>7. QED
  BY <1>2, <1>3, <1>4, <1>5, <1>6 DEF Next

\* Nothing is typed at first.
LEMMA InitTable == Init => TableInv
<1> SUFFICES ASSUME Init PROVE TableInv
  OBVIOUS
<1>1. \A s \in Sessions : Drawn(typed[s]) = {}
  BY DEF Init, Drawn
<1>2. log = << >> /\ \A s \in Sessions : ~Pending(s)
  BY DEF Init, Pending, Idle
<1>3. QED
  BY <1>1, <1>2 DEF TableInv, TableInOrder, OwnShown, PendingInOrder

-----------------------------------------------------------------------------
(* Characters that last.                                                   *)

\* A table that inserts every character once, and names it after that.
InsertedOnce(lg) ==
    \A i, j \in DOMAIN lg :
        lg[i].op.type = "INSERT" /\ lg[j].op.type = "INSERT" /\ lg[i].op.uid = lg[j].op.uid => i = j

\* What lasts is stored, was not deleted, and hangs on what lasts.
LEMMA LastingHangs ==
    ASSUME NEW lg, NEW gone, InsertedOnce(lg)
    PROVE  /\ LastingIn(lg, gone) \subseteq StoredIn(lg)
           /\ \A u \in LastingIn(lg, gone) : u \notin gone
           /\ \A i \in DOMAIN lg : lg[i].op.type = "INSERT" /\ lg[i].op.uid \in LastingIn(lg, gone) =>
                 lg[i].op.after \in LastingIn(lg, gone) \cup {Root}
<1>1. \A u \in LastingIn(lg, gone) :
         \E uids \in SUBSET StoredIn(lg) : u \in uids /\ ReachRoot(uids, lg, gone)
  BY DEF LastingIn
<1>2. \A uids \in SUBSET StoredIn(lg) : ReachRoot(uids, lg, gone) => uids \subseteq LastingIn(lg, gone)
  BY DEF LastingIn
<1>3. ASSUME NEW i \in DOMAIN lg, lg[i].op.type = "INSERT", lg[i].op.uid \in LastingIn(lg, gone)
      PROVE  lg[i].op.after \in LastingIn(lg, gone) \cup {Root}
  <2>1. PICK uids \in SUBSET StoredIn(lg) : lg[i].op.uid \in uids /\ ReachRoot(uids, lg, gone)
    BY <1>1, <1>3
  <2>2. PICK j \in DOMAIN lg : /\ lg[j].op.type = "INSERT" /\ lg[j].op.uid = lg[i].op.uid
                               /\ lg[j].op.after \in uids \cup {Root}
    BY <2>1 DEF ReachRoot
  <2>3. j = i
    BY <1>3, <2>2 DEF InsertedOnce
  <2>4. QED
    BY <1>2, <2>1, <2>2, <2>3
<1>4. \A u \in LastingIn(lg, gone) : u \notin gone
  BY <1>1 DEF ReachRoot
<1>5. LastingIn(lg, gone) \subseteq StoredIn(lg)
  BY <1>1
<1>6. QED
  BY <1>3, <1>4, <1>5

\* A row more, of a character no row named, or a deletion more, and no stored
\* character comes to last that did not.
LEMMA LastingShrinks ==
    ASSUME NEW lg, NEW gone, NEW more, NEW all, gone \subseteq all,
           \A i \in DOMAIN lg : i \in DOMAIN more /\ more[i] = lg[i],
           \A i \in DOMAIN more : i \notin DOMAIN lg /\ more[i].op.type = "INSERT" =>
               /\ more[i].op.uid \notin StoredIn(lg)
               /\ \A j \in DOMAIN lg : Target(lg[j].op) # more[i].op.uid
    PROVE  LastingIn(more, all) \cap StoredIn(lg) \subseteq LastingIn(lg, gone)
<1> SUFFICES ASSUME NEW u \in LastingIn(more, all), u \in StoredIn(lg) PROVE u \in LastingIn(lg, gone)
  OBVIOUS
<1>1. PICK uids \in SUBSET StoredIn(more) : u \in uids /\ ReachRoot(uids, more, all)
  BY DEF LastingIn
<1> DEFINE old == uids \cap StoredIn(lg)
<1>2. ASSUME NEW v \in old
      PROVE  \E i \in DOMAIN lg : /\ lg[i].op.type = "INSERT" /\ lg[i].op.uid = v /\ v \notin gone
                                  /\ lg[i].op.after \in old \cup {Root}
  <2>1. PICK i \in DOMAIN more : /\ more[i].op.type = "INSERT" /\ more[i].op.uid = v /\ v \notin all
                                 /\ more[i].op.after \in uids \cup {Root}
    BY <1>1, <1>2 DEF ReachRoot
  <2>2. i \in DOMAIN lg /\ more[i] = lg[i]
    BY <1>2, <2>1
  <2>3. ASSUME lg[i].op.after # Root PROVE lg[i].op.after \in StoredIn(lg)
    <3>1. Target(lg[i].op) = lg[i].op.after
      BY <2>1, <2>2 DEF Target
    <3>2. lg[i].op.after \in StoredIn(more)
      BY <1>1, <2>1, <2>2, <2>3
    <3>3. PICK j \in DOMAIN more : more[j].op.type = "INSERT" /\ more[j].op.uid = lg[i].op.after
      BY <3>2 DEF StoredIn
    <3>4. j \in DOMAIN lg /\ more[j] = lg[j]
      BY <2>2, <3>1, <3>3
    <3>5. QED
      BY <3>3, <3>4 DEF StoredIn
  <2>4. QED
    BY <2>1, <2>2, <2>3
<1>3. ReachRoot(old, lg, gone) /\ old \in SUBSET StoredIn(lg)
  BY <1>2 DEF ReachRoot
<1> HIDE DEF old
<1>4. old \subseteq LastingIn(lg, gone)
  BY <1>3 DEF LastingIn
<1>5. QED
  BY <1>1, <1>4 DEF old

\* What a document shows it goes on to show of a table that grows.
LEMMA ShowsStays ==
    ASSUME NEW d, NEW lg, NEW more, NEW lasting, NEW later, NEW n \in Nat, 1..n \subseteq DOMAIN lg,
           \A i \in DOMAIN lg : more[i] = lg[i],
           later \cap StoredIn(lg) \subseteq lasting,
           Shows(d, lg, lasting, n)
    PROVE  Shows(d, more, later, n)
<1>1. \A i \in 1..n : lg[i].op.type = "INSERT" => lg[i].op.uid \in StoredIn(lg)
  BY DEF StoredIn
<1>2. QED
  BY <1>1 DEF Shows

\* gc() takes away nothing that lasts and brings nothing back.
LEMMA GcShows ==
    ASSUME NEW d \in Document, NEW lg, NEW lasting, NEW gone, NEW n, d.tomb \subseteq gone,
           \A u \in lasting : u \notin gone, Shows(d, lg, lasting, n)
    PROVE  Shows(Gc(d), lg, lasting, n)
<1>1. ToSet(Gc(d).list) = VisibleUids(d) /\ VisibleUids(Gc(d)) = VisibleUids(d)
  BY GcIsDocument DEF VisibleUids, Gc
<1>2. \A u \in lasting : Holds(d.list, u) => Holds(Gc(d).list, u)
  BY <1>1 DEF Holds, VisibleUids
<1>3. QED
  BY <1>1, <1>2 DEF Shows

\* gc() keeps what an operation on its way shows.
LEMMA GcReflects ==
    ASSUME NEW d \in Document, NEW op, NEW lasting, NEW gone, d.tomb \subseteq gone,
           Reflects(d, op, lasting, gone)
    PROVE  Reflects(Gc(d), op, lasting, gone)
<1>1. ToSet(Gc(d).list) = VisibleUids(d) /\ VisibleUids(Gc(d)) = VisibleUids(d)
  BY GcIsDocument DEF VisibleUids, Gc
<1>2. QED
  BY <1>1 DEF Reflects, Holds, VisibleUids

\* applyOperation hides nothing, and shows nothing again that was deleted but
\* what it inserts.
LEMMA ApplyShows ==
    ASSUME NEW d \in Document, NEW op \in Operation, NEW lg, NEW lasting, NEW n,
           op.type = "INSERT" => \A i \in 1..n : Target(lg[i].op) # op.uid,
           Shows(d, lg, lasting, n)
    PROVE  Shows(Apply(d, op), lg, lasting, n)
<1>1. /\ ToSet(d.list) \subseteq ToSet(Apply(d, op).list)
      /\ op.type = "INSERT" => VisibleUids(Apply(d, op)) \subseteq VisibleUids(d) \cup {op.uid}
      /\ op.type # "INSERT" => VisibleUids(Apply(d, op)) \subseteq VisibleUids(d)
  <2>1. CASE op.type = "INSERT"
    <3>1. /\ ToSet(Apply(d, op).list) = IF Applicable(d, op) THEN ToSet(d.list) \cup {op.uid} ELSE ToSet(d.list)
          /\ Apply(d, op).tomb = d.tomb
      BY <2>1, ApplyEffect
    <3>2. QED
      BY <2>1, <3>1 DEF VisibleUids
  <2>2. CASE op.type # "INSERT"
    <3>1. ToSet(Apply(d, op).list) = ToSet(d.list) /\ d.tomb \subseteq Apply(d, op).tomb
      BY <2>2, ApplyEffect
    <3>2. QED
      BY <2>2, <3>1 DEF VisibleUids
  <2>3. QED
    BY <2>1, <2>2
<1>2. \A i \in 1..n : lg[i].op.type = "INSERT" /\ lg[i].op.uid \in lasting => Holds(Apply(d, op).list, lg[i].op.uid)
  BY <1>1 DEF Shows, Holds
<1>3. \A i \in 1..n : lg[i].op.type # "INSERT" => lg[i].op.uid \notin VisibleUids(Apply(d, op))
  <2> SUFFICES ASSUME NEW i \in 1..n, lg[i].op.type # "INSERT" PROVE lg[i].op.uid \notin VisibleUids(Apply(d, op))
    OBVIOUS
  <2>1. lg[i].op.uid \notin VisibleUids(d) /\ Target(lg[i].op) = lg[i].op.uid
    BY DEF Shows, Target
  <2>2. QED
    BY <1>1, <2>1
<1>4. QED
  BY <1>2, <1>3 DEF Shows

\* applyOperation undoes no other operation on its way.
LEMMA ApplyReflects ==
    ASSUME NEW d \in Document, NEW op \in Operation, NEW other, NEW lasting, NEW gone,
           op.type = "INSERT" => Target(other) # op.uid,
           Reflects(d, other, lasting, gone)
    PROVE  Reflects(Apply(d, op), other, lasting, gone)
<1>1. CASE op.type = "INSERT"
  <2>1. /\ ToSet(Apply(d, op).list) = IF Applicable(d, op) THEN ToSet(d.list) \cup {op.uid} ELSE ToSet(d.list)
        /\ Apply(d, op).tomb = d.tomb
    BY <1>1, ApplyEffect
  <2>2. QED
    BY <1>1, <2>1 DEF Reflects, VisibleUids, Holds, Target
<1>2. CASE op.type # "INSERT"
  <2>1. ToSet(Apply(d, op).list) = ToSet(d.list) /\ d.tomb \subseteq Apply(d, op).tomb
    BY <1>2, ApplyEffect
  <2>2. QED
    BY <2>1 DEF Reflects, VisibleUids, Holds
<1>3. QED
  BY <1>1, <1>2

\* A document that holds what lasts takes an operation in.
LEMMA ApplyTakesIn ==
    ASSUME NEW d \in Document, NEW op \in Operation, NEW lasting, NEW gone,
           \A u \in lasting : Holds(d.list, u)
    PROVE  Reflects(Apply(d, op), op, lasting, gone)
<1>1. CASE op.type = "INSERT"
  <2>1. op.after \in lasting \cup {Root} => Applicable(d, op)
    BY <1>1 DEF Applicable, Known
  <2>2. ToSet(Apply(d, op).list) = IF Applicable(d, op) THEN ToSet(d.list) \cup {op.uid} ELSE ToSet(d.list)
    BY <1>1, ApplyEffect
  <2>3. QED
    BY <1>1, <2>1, <2>2 DEF Reflects, Holds
<1>2. CASE op.type # "INSERT"
  BY <1>2, ApplyEffect DEF Reflects
<1>3. QED
  BY <1>1, <1>2

\* A document that shows a whole table holds all that lasts.
LEMMA ShownLasts ==
    ASSUME NEW d, NEW lg, NEW lasting, NEW n, DOMAIN lg = 1..n, lasting \subseteq StoredIn(lg), Shows(d, lg, lasting, n)
    PROVE  \A u \in lasting : Holds(d.list, u)
BY DEF Shows, StoredIn

-----------------------------------------------------------------------------
(* The characters that last, from one step to the next.                    *)

\* What lasts of the table as it is.
LEMMA LastsParts ==
    ASSUME ServerTypeOK, TableInv
    PROVE  /\ Lasts \subseteq StoredIn(log)
           /\ \A u \in Lasts : u \notin Deleted
           /\ \A i \in DOMAIN log : log[i].op.type = "INSERT" /\ log[i].op.uid \in Lasts =>
                 log[i].op.after \in Lasts \cup {Root}
<1>1. InsertedOnce(log)
  BY DEF TableInv, TableInOrder, InsertedOnce
<1>2. QED
  BY <1>1, LastingHangs DEF Lasts

\* While nothing is stored nothing comes to last.
LEMMA LastsOnlyLess ==
    ASSUME ServerTypeOK, TableInv', UNCHANGED log, Deleted \subseteq Deleted'
    PROVE  Lasts' \subseteq Lasts
<1>1. InsertedOnce(log)
  BY DEF TableInv, TableInOrder, InsertedOnce
<1>2. LastingIn(log, Deleted') \subseteq StoredIn(log)
  BY <1>1, LastingHangs
<1>3. LastingIn(log, Deleted') \cap StoredIn(log) \subseteq LastingIn(log, Deleted)
  BY LastingShrinks
<1>4. Lasts' = LastingIn(log, Deleted')
  BY DEF Lasts
<1>5. QED
  BY <1>2, <1>3, <1>4 DEF Lasts

\* A row that is appended makes nothing last but the character it inserts.
LEMMA AppendLasts ==
    ASSUME ServerTypeOK, StagesInOrder, TableInv, NEW s \in Sessions, AppendOperation(s)
    PROVE  /\ Lasts' \cap StoredIn(log) \subseteq Lasts
           /\ hand[s].op.type = "INSERT" /\ hand[s].op.uid \in Lasts' => hand[s].op.after \in Lasts \cup {Root}
           /\ \A r \in Sessions :
                 (r # s /\ hand[r].stage = "append" /\ hand[r].op.type = "INSERT" /\ hand[r].op.after \in Lasts')
                     => hand[r].op.after \in Lasts
<1> DEFINE op == hand[s].op
           last == Len(log) + 1
<1>1. /\ hand[s].stage = "append" /\ op \in Operation
      /\ log'[last].op = op
      /\ \A i \in DOMAIN log : i \in DOMAIN log' /\ log'[i] = log[i]
      /\ UNCHANGED typed
  BY AppendIs DEF clientVars
<1>2. /\ StoredIn(log') = IF op.type = "INSERT" THEN StoredIn(log) \cup {op.uid} ELSE StoredIn(log)
      /\ DOMAIN log' = DOMAIN log \cup {last}
  BY StoredMore
<1>3. /\ op.type = "INSERT" =>
            /\ op.uid \in Drawn(typed[s]) /\ op.uid \notin StoredIn(log)
            /\ \A i \in DOMAIN log : Target(log[i].op) # op.uid
            /\ Target(op) # op.uid
  BY <1>1 DEF TableInv, PendingInOrder, Pending
<1>4. Deleted' = Deleted
  BY <1>1 DEF Deleted
<1>5. Lasts' \cap StoredIn(log) \subseteq Lasts
  <2>1. \A i \in DOMAIN log' : i \notin DOMAIN log /\ log'[i].op.type = "INSERT" =>
            /\ log'[i].op.uid \notin StoredIn(log)
            /\ \A j \in DOMAIN log : Target(log[j].op) # log'[i].op.uid
    BY <1>1, <1>2, <1>3
  <2>2. LastingIn(log', Deleted') \cap StoredIn(log) \subseteq LastingIn(log, Deleted)
    BY <1>1, <1>4, <2>1, LastingShrinks
  <2>3. Lasts' = LastingIn(log', Deleted')
    BY DEF Lasts
  <2>4. QED
    BY <2>2, <2>3 DEF Lasts
<1>6. /\ Lasts' \subseteq StoredIn(log')
      /\ \A i \in DOMAIN log' : log'[i].op.type = "INSERT" /\ log'[i].op.uid \in Lasts' =>
             log'[i].op.after \in Lasts' \cup {Root}
  <2>1. TableInv'
    BY AppendKeepsTable
  <2>2. InsertedOnce(log')
    BY <2>1 DEF TableInv, TableInOrder, InsertedOnce
  <2>3. Lasts' = LastingIn(log', Deleted')
    BY DEF Lasts
  <2>4. QED
    BY <2>2, <2>3, LastingHangs
<1>7. op.type = "INSERT" /\ op.uid \in Lasts' => op.after \in Lasts \cup {Root}
  <2> SUFFICES ASSUME op.type = "INSERT", op.uid \in Lasts', op.after # Root PROVE op.after \in Lasts
    OBVIOUS
  <2>1. op.after \in Lasts' /\ op.after # op.uid
    BY <1>1, <1>2, <1>3, <1>6 DEF Target
  <2>2. QED
    BY <1>2, <1>5, <1>6, <2>1
<1>8. ASSUME NEW r \in Sessions, r # s, hand[r].stage = "append", hand[r].op.type = "INSERT", hand[r].op.after \in Lasts'
      PROVE  hand[r].op.after \in Lasts
  <2>1. Target(hand[r].op) = hand[r].op.after
    BY <1>8 DEF Target
  <2>2. hand[r].op.after \in {Root} \cup StoredIn(log) \cup Drawn(typed[r])
    BY <1>8, <2>1 DEF TableInv, PendingInOrder, Pending
  <2>3. \A u \in Drawn(typed[r]) : u.site = r
    BY StoredIsDrawn
  <2>4. op.type = "INSERT" => op.uid.site = s /\ op.uid # Root
    BY <1>1, <1>3, StoredIsDrawn, OperationParts
  <2>5. hand[r].op.after \in StoredIn(log) \/ (op.type = "INSERT" /\ hand[r].op.after = op.uid)
    BY <1>2, <1>6, <1>8
  <2>6. hand[r].op.after \in StoredIn(log)
    BY <1>8, <2>2, <2>3, <2>4, <2>5
  <2>7. QED
    BY <1>5, <1>8, <2>6
<1> HIDE DEF op
<1>9. QED
  BY <1>5, <1>7, <1>8 DEF op

-----------------------------------------------------------------------------
(* What a load builds.                                                     *)

\* A replay of the rows after seq shows the table if what it starts from shows
\* the rows up to seq (loadFromDatabase).
LEMMA ReplayShows ==
    ASSUME ServerTypeOK, TableInv, NEW d \in Document, NEW seq \in 0..Len(log), Shows(d, log, Lasts, seq)
    PROVE  Shows(ReplayFrom(d, StoredAfter(seq)), log, Lasts, Len(log))
<1> DEFINE ops == StoredAfter(seq)
<1>1. Len(log) \in Nat /\ DOMAIN log = 1..Len(log) /\ seq \in Nat /\ seq <= Len(log)
  BY TypeParts
<1>2. ops \in Seq(Operation) /\ Len(ops) = Len(log) - seq /\ \A k \in 1..Len(ops) : ops[k] = log[seq + k].op
  <2>1. ops \in Seq(Operation)
    BY RowsRead
  <2>2. Len(ops) = Len(log) - seq
    BY <1>1 DEF StoredAfter
  <2>3. QED
    BY <2>1, <2>2, <1>1 DEF StoredAfter
<1> HIDE DEF ops
<1>3. PICK f : /\ Replays(f, d, ops) /\ f[Len(ops)] = ReplayFrom(d, ops)
               /\ \A k \in 0..Len(ops) : f[k] \in Document
  BY <1>2, ReplaySteps
<1> DEFINE P == {k \in Nat : k <= Len(ops) => Shows(f[k], log, Lasts, seq + k)}
<1>4. 0 \in P
  BY <1>1, <1>3 DEF Replays
<1>5. ASSUME NEW k \in P PROVE k + 1 \in P
  <2> SUFFICES ASSUME k + 1 <= Len(ops) PROVE Shows(f[k + 1], log, Lasts, seq + (k + 1))
    OBVIOUS
  <2> DEFINE n == seq + k
             i == seq + (k + 1)
  <2>1. /\ k \in Nat /\ k + 1 \in 1..Len(ops) /\ k \in 0..Len(ops) /\ (k + 1) - 1 = k
        /\ n \in Nat /\ i = n + 1 /\ i \in DOMAIN log /\ 1..i = (1..n) \cup {i}
        /\ \A j \in 1..n : j \in DOMAIN log /\ ~(i < j)
        /\ \A j \in DOMAIN log : j < i => j \in 1..n
    BY SMTT(60), <1>1, <1>2
  <2>2. Shows(f[k], log, Lasts, n)
    BY <2>1
  <2>3. f[k + 1] = Apply(f[k], log[i].op) /\ f[k] \in Document /\ log[i].op \in Operation
    BY SMTT(60), <1>2, <1>3, <2>1 DEF Replays
  <2> HIDE DEF P, n, i
  <2> DEFINE op == log[i].op
             e == Apply(f[k], op)
  <2>4. op.type = "INSERT" => \A j \in 1..n : Target(log[j].op) # op.uid
    BY <2>1 DEF TableInv, TableInOrder
  <2>5. Shows(e, log, Lasts, n)
    BY <2>2, <2>3, <2>4, ApplyShows
  <2>6. ASSUME op.type = "INSERT", op.uid \in Lasts PROVE Holds(e.list, op.uid)
    <3>1. op.after \in Lasts \cup {Root}
      BY <2>1, <2>6, LastsParts
    <3>2. ASSUME op.after # Root PROVE Holds(f[k].list, op.after)
      <4>1. op.after \in Lasts /\ op.after \in StoredIn(log)
        BY <3>1, <3>2, LastsParts
      <4>2. PICK j \in DOMAIN log : log[j].op.type = "INSERT" /\ log[j].op.uid = op.after
        BY <4>1, StoredParts
      <4>3. Target(op) = log[j].op.uid
        BY <2>6, <4>2 DEF Target
      <4>4. j < i
        BY <2>1, <4>2, <4>3 DEF TableInv, TableInOrder
      <4>5. j \in 1..n
        BY <2>1, <4>4
      <4>6. QED
        BY <2>2, <4>1, <4>2, <4>5 DEF Shows
    <3>3. Applicable(f[k], op)
      BY <2>6, <3>2 DEF Applicable, Known
    <3>4. ToSet(e.list) = ToSet(f[k].list) \cup {op.uid}
      BY <2>3, <2>6, <3>3, ApplyEffect
    <3>5. QED
      BY <3>4 DEF Holds
  <2>7. ASSUME op.type # "INSERT" PROVE op.uid \notin VisibleUids(e)
    BY <2>3, <2>7, ApplyEffect
  <2> HIDE DEF e
  <2>8. Shows(e, log, Lasts, i)
    BY <2>1, <2>5, <2>6, <2>7 DEF Shows
  <2>9. QED
    BY <2>3, <2>8 DEF e, i
<1>6. P = Nat
  <2>1. P \in SUBSET Nat
    OBVIOUS
  <2> HIDE DEF P
  <2>2. QED
    BY <1>4, <1>5, <2>1, NatSetInduction
<1>7. Len(ops) \in Nat /\ seq + Len(ops) = Len(log)
  BY <1>1, <1>2
<1>8. QED
  BY <1>3, <1>6, <1>7 DEF ops

-----------------------------------------------------------------------------
(* What is tombstoned was deleted.                                         *)

\* A replay tombstones what its operations delete.
LEMMA ReplayTombs ==
    ASSUME NEW d \in Document, NEW ops \in Seq(Operation), NEW gone, d.tomb \subseteq gone,
           \A k \in DOMAIN ops : ops[k].type # "INSERT" => ops[k].uid \in gone
    PROVE  ReplayFrom(d, ops).tomb \subseteq gone
<1> DEFINE V == {e \in Document : e.tomb \subseteq gone}
           O == {op \in Operation : op.type # "INSERT" => op.uid \in gone}
<1>1. ApplyStaysIn(V, O)
  <2> SUFFICES ASSUME NEW e \in V, NEW op \in O PROVE Apply(e, op) \in V
    BY DEF ApplyStaysIn
  <2>1. /\ Apply(e, op) \in Document
        /\ op.type = "INSERT" => Apply(e, op).tomb = e.tomb
        /\ op.type # "INSERT" => Apply(e, op).tomb \subseteq e.tomb \cup {op.uid}
    BY ApplyEffect
  <2>2. QED
    BY <2>1
<1>2. d \in V
  OBVIOUS
<1>3. ops \in Seq(O)
  <2>1. \A i \in 1..Len(ops) : ops[i] \in O
    OBVIOUS
  <2> HIDE DEF O
  <2>2. QED
    BY <2>1
<1>4. ReplayFrom(d, ops) = Replayed(d, ops)
  BY Zenon DEF ReplayFrom, Replayed
<1> HIDE DEF V, O
<1>5. Replayed(d, ops) \in V
  BY <1>1, <1>2, <1>3, FoldApplyStays
<1>6. QED
  BY <1>4, <1>5 DEF V

\* The operations that wait for a load, in the order they go on.
WaitingOps(w) == [i \in 1..Cardinality(Waiting(w)) |-> hand[SetToSeq(Waiting(w))[i]].op]

\* The end of a load: the document built, and everybody's operation in it.
LEMMA ResumeBuilds ==
    ASSUME ServerTypeOK, StagesInOrder, NEW w \in Workers, Resume(w)
    PROVE  LET e == Len(entries) + 1
           IN /\ load[w].stage = "resume"
              /\ WaitingOps(w) \in Seq(Operation)
              /\ \A k \in 1..Len(WaitingOps(w)) : \E s \in Waiting(w) : WaitingOps(w)[k] = hand[s].op
              /\ \A s \in Waiting(w) : \E k \in 1..Len(WaitingOps(w)) : WaitingOps(w)[k] = hand[s].op
              /\ entries'[e] = [doc |-> ReplayFrom(load[w].doc, WaitingOps(w)), lastSeq |-> load[w].seq]
              /\ entries'[e].doc = ReplayFrom(load[w].doc, WaitingOps(w))
              /\ cache' = [cache EXCEPT ![w] = e]
              /\ load' = [load EXCEPT ![w] = NoLoad]
              /\ \A s \in Waiting(w) : hand'[s] = [hand[s] EXCEPT !.stage = "append", !.entry = e]
              /\ tasks' = {IF t.worker = w /\ t.stage = "load"
                           THEN [t EXCEPT !.stage = "measure", !.entry = e] ELSE t : t \in tasks}
<1> DEFINE e == Len(entries) + 1
           S == Waiting(w)
           x == [doc |-> ReplayFrom(load[w].doc, WaitingOps(w)), lastSeq |-> load[w].seq]
<1>1. /\ load[w].stage = "resume"
      /\ entries' = Append(entries, x)
      /\ cache' = [cache EXCEPT ![w] = e]
      /\ load' = [load EXCEPT ![w] = NoLoad]
      /\ hand' = [s \in Sessions |-> IF s \in S THEN [hand[s] EXCEPT !.stage = "append", !.entry = e]
                                     ELSE hand[s]]
      /\ tasks' = {IF t.worker = w /\ t.stage = "load"
                   THEN [t EXCEPT !.stage = "measure", !.entry = e] ELSE t : t \in tasks}
  BY Zenon DEF Resume, WaitingOps, Waiting
<1>2. S \in SUBSET Sessions /\ \A s \in S : hand[s].op \in Operation
  BY DEF Waiting, StagesInOrder
<1>3. /\ Cardinality(S) \in Nat /\ SetToSeq(S) \in [1..Cardinality(S) -> S]
      /\ \A s \in S : \E k \in 1..Cardinality(S) : SetToSeq(S)[k] = s
  <2> HIDE DEF S
  <2>1. IsFiniteSet(S)
    BY <1>2, SessionsAssumption, FS_Subset
  <2> DEFINE n == Cardinality(S)
  <2>2. n \in Nat /\ ExistsBijection(1..n, S)
    BY <2>1, FS_CardinalityType
  <2>3. \E f \in [1..n -> S] : IsInjective(f)
    BY <2>2 DEF ExistsBijection, Bijection, Injection
  <2>4. SetToSeq(S) \in [1..n -> S] /\ IsInjective(SetToSeq(S))
    BY <2>3 DEF SetToSeq
  <2> DEFINE f == SetToSeq(S)
  <2> HIDE DEF f, n
  <2>5. f \in Injection(1..n, S)
    BY <2>4 DEF Injection, f
  <2>6. IsFiniteSet(1..n) /\ Cardinality(1..n) = n
    BY <2>2, FS_Interval
  <2>7. f \in Surjection(1..n, S)
    BY <2>1, <2>5, <2>6, FS_Injection DEF n
  <2>8. \A s \in S : \E k \in 1..n : f[k] = s
    BY <2>7 DEF Surjection
  <2>9. QED
    BY <2>2, <2>4, <2>8 DEF f, n
<1>4. /\ WaitingOps(w) \in Seq(Operation) /\ Len(WaitingOps(w)) = Cardinality(S)
      /\ \A k \in 1..Cardinality(S) : WaitingOps(w)[k] = hand[SetToSeq(S)[k]].op
  <2>1. WaitingOps(w) = [k \in 1..Cardinality(S) |-> hand[SetToSeq(S)[k]].op]
    BY DEF WaitingOps
  <2> HIDE DEF S
  <2>2. \A k \in 1..Cardinality(S) : SetToSeq(S)[k] \in S
    BY <1>3
  <2>3. QED
    BY <1>2, <1>3, <2>1, <2>2
<1> HIDE DEF S, x
<1>5. \A k \in 1..Len(WaitingOps(w)) : \E s \in S : WaitingOps(w)[k] = hand[s].op
  BY <1>3, <1>4
<1>6. \A s \in S : \E k \in 1..Len(WaitingOps(w)) : WaitingOps(w)[k] = hand[s].op
  BY <1>3, <1>4
<1>7. entries'[e] = x
  <2>1. entries \in Seq([doc : Document, lastSeq : 0..Len(log)])
    BY DEF ServerTypeOK
  <2>2. load[w].doc \in Document /\ load[w].seq \in 0..Len(log)
    BY <1>1, TypeParts DEF StagesInOrder
  <2> DEFINE R == [doc : Document, lastSeq : 0..Len(log)]
  <2>3. x \in R
    BY <1>4, <2>2, ReplayIsDocument DEF x
  <2> HIDE DEF R
  <2>4. entries \in Seq(R)
    BY <2>1 DEF R
  <2>5. QED
    BY <1>1, <2>3, <2>4, AppendProperties
<1>8. \A s \in S : hand'[s] = [hand[s] EXCEPT !.stage = "append", !.entry = e]
  BY <1>1, <1>2
<1>9. x.doc = ReplayFrom(load[w].doc, WaitingOps(w))
  BY DEF x
<1>10. QED
  BY <1>1, <1>4, <1>5, <1>6, <1>7, <1>8, <1>9 DEF S, x

\* What waits deletes only what was deleted.
LEMMA WaitingDeletes ==
    ASSUME ServerTypeOK, StagesInOrder, TableInv, NEW w \in Workers, Resume(w)
    PROVE  \A k \in DOMAIN WaitingOps(w) : WaitingOps(w)[k].type # "INSERT" => WaitingOps(w)[k].uid \in Deleted
<1>1. WaitingOps(w) \in Seq(Operation)
  BY ResumeBuilds
<1> SUFFICES ASSUME NEW k \in 1..Len(WaitingOps(w)), WaitingOps(w)[k].type # "INSERT"
             PROVE  WaitingOps(w)[k].uid \in Deleted
  BY <1>1
<1>2. PICK s \in Waiting(w) : WaitingOps(w)[k] = hand[s].op
  BY ResumeBuilds
<1>3. s \in Sessions /\ Pending(s)
  BY DEF Waiting, Pending
<1>4. QED
  BY <1>2, <1>3 DEF TableInv, PendingInOrder

\* A document that is changed holds tombstones of deleted characters only.
LEMMA ApplyTombs ==
    ASSUME NEW d \in Document, NEW op \in Operation, NEW gone, d.tomb \subseteq gone,
           op.type # "INSERT" => op.uid \in gone
    PROVE  Apply(d, op).tomb \subseteq gone
BY ApplyEffect

\* Every step tombstones what was deleted only.
LEMMA NextKeepsTombs ==
    ASSUME ServerTypeOK, StagesInOrder, TableInv, TombsDeleted, [Next]_vars
    PROVE  TombsDeleted'
<1>1. ASSUME UNCHANGED <<entries, typed>>, \A snap \in snapshots' : snap.doc.tomb \subseteq Deleted,
             \A t \in tasks' : t.doc.tomb \subseteq Deleted, \A w \in Workers : load'[w].doc.tomb \subseteq Deleted
      PROVE  TombsDeleted'
  BY <1>1 DEF TombsDeleted, Deleted
<1>2. EmptyDoc.tomb = {}
  BY DEF EmptyDoc
<1>3. ASSUME NEW s \in Sessions, Take(s) \/ Refuse(s) PROVE TombsDeleted'
  <2>1. PICK n \in seen[s]..Len(channel) : \E op \in Keystrokes(s, n) :
            Sent(s, n, op) /\ (Applies(s, op) \/ Waits(s, op) \/ Refuses)
    BY <1>3, TakenUp
  <2>2. PICK op \in Keystrokes(s, n) : Sent(s, n, op) /\ (Applies(s, op) \/ Waits(s, op) \/ Refuses)
    BY <2>1
  <2>3. op \in Operation /\ op.type \in {"INSERT", "DELETE"}
    BY KeystrokeIsNew DEF TableInv
  <2>4. Deleted' = IF op.type = "DELETE" THEN Deleted \cup {op.uid} ELSE Deleted
    BY <2>2, <2>3, SentIsTyped
  <2>5. UNCHANGED <<snapshots, tasks>>
    BY <1>3, TakeIs
  <2>6. CASE Applies(s, op)
    <3>1. cache[home[s]] \in DOMAIN entries /\ ApplyIn(cache[home[s]], op) /\ load' = load
      BY <2>6, TypeParts DEF Applies
    <3> DEFINE e == cache[home[s]]
    <3>2. /\ DOMAIN entries' = DOMAIN entries /\ entries'[e].doc = Apply(entries[e].doc, op)
          /\ \A i \in DOMAIN entries : i # e => entries'[i].doc = entries[i].doc
          /\ entries[e].doc \in Document
      BY <2>3, <3>1, ApplyInIsTyped, TypeParts
    <3> HIDE DEF e
    <3>3. entries[e].doc.tomb \subseteq Deleted' /\ (op.type # "INSERT" => op.uid \in Deleted')
      BY <2>3, <2>4, <3>1 DEF TombsDeleted, e
    <3>4. Apply(entries[e].doc, op).tomb \subseteq Deleted'
      BY <2>3, <3>2, <3>3, ApplyTombs
    <3>5. QED
      BY <2>4, <2>5, <3>1, <3>2, <3>4 DEF TombsDeleted
  <2>7. CASE Waits(s, op)
    <3>1. home[s] \in Workers /\ AwaitLoad(home[s]) /\ entries' = entries
      BY <2>7, TypeParts DEF Waits
    <3>2. \A v \in Workers : load'[v].doc = load[v].doc
      BY <3>1, AwaitLoadIsTyped
    <3>3. QED
      BY <2>4, <2>5, <3>1, <3>2 DEF TombsDeleted
  <2>8. CASE Refuses
    BY <2>4, <2>5, <2>8 DEF Refuses, TombsDeleted
  <2>9. QED
    BY <2>2, <2>6, <2>7, <2>8
<1>4. ASSUME NEW s \in Sessions, AppendOperation(s) PROVE TombsDeleted'
  <2>1. /\ DOMAIN entries' = DOMAIN entries /\ \A e \in DOMAIN entries : entries'[e].doc = entries[e].doc
        /\ UNCHANGED <<load, snapshots, tasks, typed>>
    BY <1>4, AppendIs DEF clientVars
  <2>2. QED
    BY <2>1 DEF TombsDeleted, Deleted
<1>5. ASSUME NEW s \in Sessions, Publish(s) PROVE TombsDeleted'
  <2>1. UNCHANGED <<entries, typed, snapshots>> /\ \A t \in tasks' : t \in tasks \/ t.doc = EmptyDoc
    BY <1>5 DEF Publish, clientVars, StartCompaction
  <2>2. \A v \in Workers : load'[v].doc = load[v].doc
    BY <1>5, AwaitLoadIsTyped, TypeParts DEF Publish
  <2>3. QED
    BY <1>1, <1>2, <2>1, <2>2 DEF TombsDeleted
<1>6. ASSUME NEW s \in Sessions, HandlerFails(s) PROVE TombsDeleted'
  BY <1>1, <1>6 DEF HandlerFails, clientVars, cacheVars, TombsDeleted
<1>7. ASSUME NEW t \in tasks, Compact(t) PROVE TombsDeleted'
  <2>1. CASE Collect(t)
    <3> DEFINE kept == Gc(entries[t.entry].doc)
               next == [t EXCEPT !.stage = "save", !.doc = kept]
    <3>1. /\ next.doc = kept /\ Becomes(t, next)
          /\ DOMAIN entries' = DOMAIN entries /\ entries'[t.entry].doc = kept
          /\ \A i \in DOMAIN entries : i # t.entry => entries'[i].doc = entries[i].doc
          /\ UNCHANGED <<snapshots, load, typed>>
      BY <1>7, <2>1, CollectIs
    <3>2. kept.tomb = {}
      BY DEF Gc
    <3> HIDE DEF next, kept
    <3>3. QED
      BY <3>1, <3>2 DEF TombsDeleted, Becomes, Deleted
  <2>2. \A stage, seq : [t EXCEPT !.stage = stage, !.seq = seq].doc = t.doc /\ [t EXCEPT !.stage = stage].doc = t.doc
    BY <1>7, TaskParts DEF TaskRecords
  <2>3. CASE Measure(t)
    <3>1. Becomes(t, [t EXCEPT !.stage = "collect", !.seq = Len(log)])
          /\ UNCHANGED <<entries, snapshots, load, typed>>
      BY <2>3 DEF Measure, cacheVars, clientVars
    <3>2. \A u \in tasks' : u.doc = t.doc \/ u \in tasks
      BY ZenonT(60), <2>2, <3>1 DEF Becomes
    <3>3. QED
      BY <1>1, <1>7, <3>1, <3>2 DEF TombsDeleted
  <2>4. CASE Save(t)
    <3>1. /\ \A snap \in snapshots' : snap.doc = t.doc \/ snap \in snapshots
          /\ tasks' \subseteq tasks \cup {[t EXCEPT !.stage = "prune"]}
          /\ UNCHANGED <<entries, load, typed>>
      BY <2>4 DEF Save, Becomes, cacheVars, clientVars
    <3>2. QED
      BY <1>1, <1>7, <2>2, <3>1 DEF TombsDeleted
  <2>5. CASE Prune(t) \/ CompactionFails(t)
    BY <1>1, <2>5 DEF Prune, CompactionFails, cacheVars, clientVars, TombsDeleted
  <2>6. QED
    BY <1>7, <2>1, <2>3, <2>4, <2>5 DEF Compact
<1>8. ASSUME NEW w \in Workers, Join(w) \/ ReadSnapshot(w) \/ ReadOperations(w) PROVE TombsDeleted'
  <2>1. UNCHANGED <<entries, snapshots, tasks, typed>>
    BY <1>8 DEF Join, ReadSnapshot, ReadOperations, clientVars
  <2>2. \A v \in Workers : load'[v].doc.tomb \subseteq Deleted
    <3>1. CASE Join(w)
      BY <3>1, <1>8, AwaitLoadIsTyped DEF Join, TombsDeleted
    <3>2. CASE ReadSnapshot(w)
      <4>1. LatestSnapshot.doc.tomb \subseteq Deleted
        <5>1. CASE snapshots = {}
          BY <1>2, <5>1 DEF LatestSnapshot, NoSnapshot
        <5>2. CASE snapshots # {}
          BY <5>2, RowsRead DEF TombsDeleted
        <5>3. QED
          BY <5>1, <5>2
      <4>2. QED
        BY <1>8, <3>2, <4>1, ReadSnapshotIs DEF TombsDeleted
    <3>3. CASE ReadOperations(w)
      <4> DEFINE ops == StoredAfter(load[w].seq)
      <4>1. /\ load[w].doc \in Document /\ ops \in Seq(Operation)
            /\ \A i \in DOMAIN ops : \E j \in DOMAIN log : ops[i] = log[j].op
        BY <1>8, TypeParts, RowsRead
      <4>2. /\ load'[w].doc = ReplayFrom(load[w].doc, ops)
            /\ \A v \in Workers : v # w => load'[v].doc = load[v].doc
        BY <1>8, <3>3, ReadOperationsIs
      <4> HIDE DEF ops
      <4>3. \A i \in DOMAIN ops : ops[i].type # "INSERT" => ops[i].uid \in Deleted
        BY <4>1 DEF TableInv, TableInOrder
      <4>4. load[w].doc.tomb \subseteq Deleted
        BY <1>8 DEF TombsDeleted
      <4>5. load'[w].doc.tomb \subseteq Deleted
        BY <4>1, <4>2, <4>3, <4>4, ReplayTombs
      <4>6. QED
        BY <4>2, <4>5 DEF TombsDeleted
    <3>4. QED
      BY <1>8, <3>1, <3>2, <3>3
  <2>3. QED
    BY <1>1, <2>1, <2>2 DEF TombsDeleted
<1>9. ASSUME NEW w \in Workers, Resume(w) PROVE TombsDeleted'
  <2> DEFINE e == Len(entries) + 1
  <2>1. /\ DOMAIN entries' = DOMAIN entries \cup {e}
        /\ \A i \in DOMAIN entries : entries'[i] = entries[i]
        /\ load'[w].doc = EmptyDoc /\ \A v \in Workers : v # w => load'[v] = load[v]
        /\ \A t \in tasks' : \E u \in tasks : t.doc = u.doc
        /\ UNCHANGED <<snapshots, typed>>
    BY ZenonT(60), <1>9, ResumeIs
  <2>2. entries'[e].doc = ReplayFrom(load[w].doc, WaitingOps(w)) /\ WaitingOps(w) \in Seq(Operation)
    BY <1>9, ResumeBuilds
  <2> HIDE DEF e
  <2>3. load[w].doc \in Document /\ load[w].doc.tomb \subseteq Deleted
    BY <1>9, TypeParts DEF TombsDeleted
  <2>4. entries'[e].doc.tomb \subseteq Deleted
    BY <1>9, <2>2, <2>3, WaitingDeletes, ReplayTombs
  <2>5. Deleted' = Deleted
    BY <2>1 DEF Deleted
  <2>6. QED
    BY <1>2, <2>1, <2>4, <2>5 DEF TombsDeleted
<1>10. ASSUME NEW w \in Workers, Evict(w) \/ Crash(w) PROVE TombsDeleted'
  <2>1. UNCHANGED <<entries, snapshots, typed>> /\ tasks' \subseteq tasks
    BY <1>10 DEF Evict, Crash, clientVars
  <2>2. \A v \in Workers : load'[v].doc = EmptyDoc \/ load'[v] = load[v]
    <3>1. DOMAIN load = Workers
      BY DEF ServerTypeOK
    <3>2. (load' = load \/ load' = [load EXCEPT ![w] = NoLoad]) /\ NoLoad.doc = EmptyDoc
      BY <1>10 DEF Evict, Crash, NoLoad
    <3> HIDE DEF NoLoad
    <3>3. QED
      BY <3>1, <3>2
  <2>3. QED
    BY <1>1, <1>2, <2>1, <2>2 DEF TombsDeleted
<1>11. CASE Rest \/ UNCHANGED vars
  BY <1>1, <1>11 DEF Rest, vars, clientVars, cacheVars, TombsDeleted
<1>12. QED
  BY <1>3, <1>4, <1>5, <1>6, <1>7, <1>8, <1>9, <1>10, <1>11 DEF Next, Handle, Load

-----------------------------------------------------------------------------
(* One worker that keeps the entries in use.                               *)

\* The deployment that SnapshotsCapture, CachesCapture and ColdLoadIsComplete
\* are about.
OneWorker == NumWorkers = 1 /\ EvictInUse = FALSE

\* There is one worker and everybody is connected to it.
LEMMA TheWorker ==
    ASSUME OneWorker, ServerTypeOK
    PROVE  /\ Workers = {1} /\ 1 \in Workers
           /\ \A s \in Sessions : home[s] = 1
           /\ \A t \in tasks : t.worker = 1
           /\ DOMAIN cache = {1} /\ DOMAIN load = {1}
<1>1. Workers = {1}
  BY DEF OneWorker, Workers
<1>2. \A s \in Sessions : home[s] = 1
  BY <1>1, TypeParts
<1>3. \A t \in tasks : t.worker = 1
  BY <1>1 DEF ServerTypeOK, TaskRecords
<1>4. QED
  BY <1>1, <1>2, <1>3 DEF ServerTypeOK

\* What a worker that keeps entries in use has in use is what it has cached.
LEMMA NextKeepsUsed ==
    ASSUME OneWorker, ServerTypeOK, StagesInOrder, UsedIsCached, [Next]_vars
    PROVE  UsedIsCached'
<1>1. ASSUME UNCHANGED cache, load'[1].stage = load[1].stage \/ ~Cached(1),
             \A s \in Sessions : hand'[s] = hand[s] \/ hand'[s].stage # "append"
                                     \/ (Cached(1) /\ hand'[s].entry = cache[1]),
             \A t \in tasks' : t \in tasks \/ t.stage \notin {"measure", "collect"}
                                     \/ (Cached(1) /\ t.entry = cache[1])
      PROVE  UsedIsCached'
  BY <1>1 DEF UsedIsCached, Cached
<1>2. \A s \in Sessions : home[s] = 1
  BY TheWorker
<1>3. ASSUME NEW s \in Sessions, Take(s) \/ Refuse(s) PROVE UsedIsCached'
  <2>1. PICK n \in seen[s]..Len(channel) : \E op \in Keystrokes(s, n) :
            Sent(s, n, op) /\ (Applies(s, op) \/ Waits(s, op) \/ Refuses)
    BY <1>3, TakenUp
  <2>2. PICK op \in Keystrokes(s, n) : Sent(s, n, op) /\ (Applies(s, op) \/ Waits(s, op) \/ Refuses)
    BY <2>1
  <2>3. UNCHANGED <<cache, tasks>>
    BY <1>3, TakeIs
  <2>4. CASE Applies(s, op)
    BY <1>1, <1>2, <2>3, <2>4 DEF Applies, ServerTypeOK
  <2>5. CASE Waits(s, op)
    <3>1. \A r \in Sessions : hand'[r] = hand[r] \/ hand'[r].stage = "load"
      BY <2>5 DEF Waits, ServerTypeOK
    <3>2. ~Cached(1)
      BY <1>2, <2>5 DEF Waits
    <3>3. QED
      BY <1>1, <2>3, <3>1, <3>2
  <2>6. CASE Refuses
    BY <1>1, <2>3, <2>6 DEF Refuses
  <2>7. QED
    BY <2>2, <2>4, <2>5, <2>6
<1>4. ASSUME NEW s \in Sessions, AppendOperation(s) PROVE UsedIsCached'
  <2>1. hand'[s].stage = "publish" /\ \A r \in Sessions : r # s => hand'[r] = hand[r]
    BY <1>4, AppendIs
  <2>2. UNCHANGED <<cache, load, tasks>>
    BY <1>4 DEF AppendOperation
  <2>3. QED
    BY <1>1, <2>1, <2>2
<1>5. ASSUME NEW s \in Sessions, Publish(s) \/ HandlerFails(s) PROVE UsedIsCached'
  <2>1. \A r \in Sessions : hand'[r] = hand[r] \/ hand'[r].stage # "append"
    BY <1>5 DEF Publish, HandlerFails, Idle, ServerTypeOK
  <2>2. \A t \in tasks' : t \in tasks \/ t.stage \notin {"measure", "collect"}
                               \/ (Cached(1) /\ t.entry = cache[1])
    BY <1>2, <1>5 DEF Publish, HandlerFails, StartCompaction
  <2>3. UNCHANGED cache /\ (load'[1].stage = load[1].stage \/ ~Cached(1))
    BY <1>2, <1>5 DEF Publish, HandlerFails, cacheVars
  <2>4. QED
    BY <1>1, <2>1, <2>2, <2>3
<1>6. ASSUME NEW t \in tasks, Compact(t) PROVE UsedIsCached'
  <2>1. UNCHANGED <<cache, load, hand>>
    BY <1>6 DEF Compact, Measure, Collect, Save, Prune, CompactionFails, cacheVars
  <2>2. CASE Measure(t)
    <3> DEFINE next == [t EXCEPT !.stage = "collect", !.seq = Len(log)]
    <3>1. Becomes(t, next) /\ t.stage = "measure"
      BY <2>2 DEF Measure
    <3>2. next.entry = t.entry
      BY TaskParts DEF TaskRecords
    <3> HIDE DEF next
    <3>3. \A u \in tasks' : u \in tasks \/ (Cached(1) /\ u.entry = cache[1])
      BY <3>1, <3>2 DEF Becomes, UsedIsCached
    <3>4. QED
      BY <1>1, <2>1, <3>3
  <2>3. CASE Collect(t) \/ Save(t) \/ Prune(t) \/ CompactionFails(t)
    <3> DEFINE kept == Gc(entries[t.entry].doc)
               saved == [t EXCEPT !.stage = "save", !.doc = kept]
               pruned == [t EXCEPT !.stage = "prune"]
    <3>1. tasks' \subseteq tasks \cup {saved, pruned}
      BY <2>3 DEF Collect, Save, Prune, CompactionFails, Becomes
    <3>2. saved.stage = "save" /\ pruned.stage = "prune"
      BY TaskParts DEF TaskRecords
    <3> HIDE DEF saved, pruned
    <3>3. \A u \in tasks' : u \in tasks \/ u.stage \notin {"measure", "collect"}
      BY <3>1, <3>2
    <3>4. QED
      BY <1>1, <2>1, <3>3
  <2>4. QED
    BY <1>6, <2>2, <2>3 DEF Compact
<1>7. ASSUME NEW w \in Workers, Join(w) \/ ReadSnapshot(w) \/ ReadOperations(w) PROVE UsedIsCached'
  <2>1. w = 1
    BY TheWorker
  <2>2. UNCHANGED <<cache, hand, tasks>>
    BY <1>7 DEF Join, ReadSnapshot, ReadOperations
  <2>3. ~Cached(1)
    BY <1>7, <2>1 DEF Join, ReadSnapshot, ReadOperations, UsedIsCached
  <2>4. QED
    BY <1>1, <2>2, <2>3
<1>8. ASSUME NEW w \in Workers, Resume(w) PROVE UsedIsCached'
  <2> DEFINE e == Len(entries) + 1
  <2>1. w = 1 /\ DOMAIN cache = {1} /\ DOMAIN load = {1}
    BY TheWorker
  <2>2. /\ load[1].stage = "resume" /\ cache' = [cache EXCEPT ![1] = e] /\ load' = [load EXCEPT ![1] = NoLoad]
        /\ \A s \in Waiting(1) : hand'[s] = [hand[s] EXCEPT !.stage = "append", !.entry = e]
    BY <1>8, <2>1, ResumeBuilds
  <2>3. /\ \A s \in Sessions \ Waiting(1) : hand'[s] = hand[s]
        /\ \A t \in tasks' : \E u \in tasks : t = u \/ (t.stage = "measure" /\ t.entry = e)
    BY <1>8, <2>1, ResumeIs
  <2>4. e # 0
    BY TypeParts
  <2> HIDE DEF e
  <2>5. cache'[1] = e /\ load'[1].stage = "none" /\ Cached(1)'
    BY <2>1, <2>2, <2>4 DEF Cached, NoLoad
  <2>6. \A s \in Waiting(1) : hand'[s].entry = e
    BY <2>2 DEF Waiting, ServerTypeOK, HandRecords
  <2>7. ~Cached(1)
    BY <2>2 DEF UsedIsCached
  <2>8. /\ \A s \in Sessions : hand'[s].stage = "append" => hand'[s].entry = e
        /\ \A t \in tasks' : t.stage \in {"measure", "collect"} => t.entry = e
    BY <2>3, <2>6, <2>7 DEF UsedIsCached
  <2>9. QED
    BY <2>5, <2>8 DEF UsedIsCached
<1>9. ASSUME NEW w \in Workers, Evict(w) PROVE UsedIsCached'
  <2>1. w = 1 /\ DOMAIN cache = {1} /\ \A t \in tasks : t.worker = 1
    BY TheWorker
  <2>2. ~InUse(1) /\ Cached(1) /\ cache' = [cache EXCEPT ![1] = 0] /\ UNCHANGED <<load, hand, tasks>>
    BY <1>9, <2>1 DEF Evict, OneWorker
  <2>3. /\ \A s \in Sessions : hand[s].stage # "append"
        /\ \A t \in tasks : t.stage \notin {"measure", "collect"}
    BY <1>2, <2>1, <2>2 DEF InUse
  <2>4. ~Cached(1)'
    BY <2>1, <2>2 DEF Cached
  <2>5. QED
    BY <2>2, <2>3, <2>4 DEF UsedIsCached
<1>10. ASSUME NEW w \in Workers, Crash(w) PROVE UsedIsCached'
  <2>1. w = 1 /\ DOMAIN load = {1} /\ \A t \in tasks : t.worker = 1
    BY TheWorker
  <2>2. /\ load' = [load EXCEPT ![1] = NoLoad] /\ tasks' = {}
        /\ hand' = [s \in Sessions |-> Closed]
    BY <1>2, <1>10, <2>1 DEF Crash
  <2>3. load'[1].stage = "none" /\ Closed.stage = "closed"
    BY <2>1, <2>2 DEF NoLoad, Closed, Idle
  <2>4. QED
    BY <2>2, <2>3 DEF UsedIsCached
<1>11. CASE Rest \/ UNCHANGED vars
  BY <1>1, <1>11 DEF Rest, vars, cacheVars
<1>12. QED
  BY <1>3, <1>4, <1>5, <1>6, <1>7, <1>8, <1>9, <1>10, <1>11 DEF Next, Handle, Load

-----------------------------------------------------------------------------
(* Documents that are captured.                                            *)

\* Nobody needs the character that an operation on its way inserts but who
\* inserts it.
LEMMA PendingApart ==
    ASSUME ServerTypeOK, StagesInOrder, TableInv, NEW r \in Sessions, NEW s \in Sessions, Pending(r), Pending(s),
           hand[s].op.type = "INSERT"
    PROVE  /\ Target(hand[r].op) # hand[s].op.uid
           /\ \A i \in DOMAIN log : Target(log[i].op) # hand[s].op.uid
<1>1. /\ hand[s].op.uid \in Drawn(typed[s]) /\ hand[s].op.uid \notin StoredIn(log)
      /\ \A i \in DOMAIN log : Target(log[i].op) # hand[s].op.uid
      /\ Target(hand[s].op) # hand[s].op.uid
      /\ Target(hand[r].op) \in {Root} \cup StoredIn(log) \cup Drawn(typed[r])
  BY DEF TableInv, PendingInOrder
<1>2. hand[s].op \in Operation
  BY DEF Pending, StagesInOrder
<1>3. hand[s].op.uid # Root
  BY <1>2, OperationParts
<1>4. \A v \in Sessions : \A u \in Drawn(typed[v]) : u.site = v
  BY StoredIsDrawn
<1>5. QED
  BY <1>1, <1>3, <1>4

\* The document a load ends with shows the table and the operations that
\* waited for it.
LEMMA ResumeShows ==
    ASSUME ServerTypeOK, StagesInOrder, TableInv, NEW w \in Workers, Resume(w),
           Shows(load[w].doc, log, Lasts, Len(log))
    PROVE  /\ Shows(ReplayFrom(load[w].doc, WaitingOps(w)), log, Lasts, Len(log))
           /\ \A s \in Waiting(w) : Reflects(ReplayFrom(load[w].doc, WaitingOps(w)), hand[s].op, Lasts, Deleted)
<1> DEFINE ops == WaitingOps(w)
           d == load[w].doc
<1>1. /\ ops \in Seq(Operation)
      /\ \A k \in 1..Len(ops) : \E s \in Waiting(w) : ops[k] = hand[s].op
      /\ \A s \in Waiting(w) : \E k \in 1..Len(ops) : ops[k] = hand[s].op
  BY ResumeBuilds
<1>2. d \in Document /\ DOMAIN log = 1..Len(log) /\ Lasts \subseteq StoredIn(log)
  BY TypeParts, LastsParts
<1>3. \A s \in Waiting(w) : s \in Sessions /\ Pending(s)
  BY DEF Waiting, Pending
<1>4. ASSUME NEW k \in 1..Len(ops), ops[k].type = "INSERT"
      PROVE  /\ \A i \in DOMAIN log : Target(log[i].op) # ops[k].uid
             /\ \A j \in 1..Len(ops) : Target(ops[j]) # ops[k].uid
  <2>1. PICK s \in Waiting(w) : ops[k] = hand[s].op
    BY <1>1
  <2>2. ASSUME NEW j \in 1..Len(ops) PROVE Target(ops[j]) # ops[k].uid
    <3>1. PICK r \in Waiting(w) : ops[j] = hand[r].op
      BY <1>1
    <3>2. QED
      BY <1>3, <1>4, <2>1, <3>1, PendingApart
  <2>3. \A i \in DOMAIN log : Target(log[i].op) # ops[k].uid
    BY <1>3, <1>4, <2>1, PendingApart
  <2>4. QED
    BY <2>2, <2>3
<1> HIDE DEF ops, d
<1>5. PICK f : /\ Replays(f, d, ops) /\ f[Len(ops)] = ReplayFrom(d, ops)
               /\ \A k \in 0..Len(ops) : f[k] \in Document
  BY <1>1, <1>2, ReplaySteps
<1> DEFINE P == {k \in Nat : k <= Len(ops) =>
                    /\ Shows(f[k], log, Lasts, Len(log))
                    /\ \A j \in 1..k : Reflects(f[k], ops[j], Lasts, Deleted)}
<1>6. 0 \in P
  BY <1>5 DEF Replays, d
<1>7. ASSUME NEW k \in P PROVE k + 1 \in P
  <2> SUFFICES ASSUME k + 1 <= Len(ops)
               PROVE  /\ Shows(f[k + 1], log, Lasts, Len(log))
                      /\ \A j \in 1..(k + 1) : Reflects(f[k + 1], ops[j], Lasts, Deleted)
    OBVIOUS
  <2>1. /\ k \in Nat /\ k + 1 \in 1..Len(ops) /\ k \in 0..Len(ops) /\ (k + 1) - 1 = k /\ k <= Len(ops)
        /\ 1..(k + 1) = (1..k) \cup {k + 1} /\ 1..k \subseteq 1..Len(ops)
    BY <1>1
  <2>2. Shows(f[k], log, Lasts, Len(log)) /\ \A j \in 1..k : Reflects(f[k], ops[j], Lasts, Deleted)
    BY <2>1
  <2> DEFINE op == ops[k + 1]
  <2> HIDE DEF P
  <2>3. f[k + 1] = Apply(f[k], op) /\ f[k] \in Document /\ op \in Operation
    BY <1>1, <1>5, <2>1 DEF Replays
  <2>4. op.type = "INSERT" => /\ \A i \in 1..Len(log) : Target(log[i].op) # op.uid
                              /\ \A j \in 1..Len(ops) : Target(ops[j]) # op.uid
    BY <1>2, <1>4, <2>1
  <2> HIDE DEF op
  <2>5. Shows(Apply(f[k], op), log, Lasts, Len(log))
    BY <2>2, <2>3, <2>4, ApplyShows
  <2>6. \A j \in 1..k : Reflects(Apply(f[k], op), ops[j], Lasts, Deleted)
    BY <2>1, <2>2, <2>3, <2>4, ApplyReflects
  <2>7. \A u \in Lasts : Holds(f[k].list, u)
    BY <1>2, <2>2, ShownLasts
  <2>8. Reflects(Apply(f[k], op), op, Lasts, Deleted)
    BY <2>3, <2>7, ApplyTakesIn
  <2>9. QED
    BY <2>1, <2>3, <2>5, <2>6, <2>8 DEF op
<1>8. P = Nat
  <2>1. P \in SUBSET Nat
    OBVIOUS
  <2> HIDE DEF P
  <2>2. QED
    BY <1>6, <1>7, <2>1, NatSetInduction
<1>9. Len(ops) \in P /\ Len(ops) <= Len(ops)
  BY <1>1, <1>8
<1>10. QED
  BY <1>1, <1>5, <1>9 DEF d, ops

\* While nothing is stored, it is enough to look at documents that change.
LEMMA CapturedStays ==
    ASSUME ServerTypeOK, UNCHANGED log, Lasts' \subseteq Lasts, Deleted \subseteq Deleted',
           Cached(1)' =>
               /\ Shows(entries'[cache'[1]].doc, log, Lasts, Len(log))
               /\ \A s \in Sessions : hand'[s].stage = "append" =>
                     Reflects(entries'[cache'[1]].doc, hand'[s].op, Lasts, Deleted),
           \A snap \in snapshots' : Shows(snap.doc, log, Lasts, snap.seq),
           \A t \in tasks' : t.stage = "save" => Shows(t.doc, log, Lasts, t.seq),
           load'[1].stage = "operations" => Shows(load'[1].doc, log, Lasts, load'[1].seq),
           load'[1].stage = "resume" => load'[1].seq = Len(log) /\ Shows(load'[1].doc, log, Lasts, Len(log))
    PROVE  Captured'
<1>1. ASSUME NEW d, NEW n, Shows(d, log, Lasts, n) PROVE Shows(d, log', Lasts', n)
  BY <1>1 DEF Shows
<1>2. ASSUME NEW d, NEW op, Reflects(d, op, Lasts, Deleted) PROVE Reflects(d, op, Lasts', Deleted')
  BY <1>2 DEF Reflects
<1>3. Cached(1)' =>
          /\ Shows(entries'[cache'[1]].doc, log', Lasts', Len(log'))
          /\ \A s \in Sessions : hand'[s].stage = "append" =>
                Reflects(entries'[cache'[1]].doc, hand'[s].op, Lasts', Deleted')
  BY <1>1, <1>2
<1>4. \A snap \in snapshots' : Shows(snap.doc, log', Lasts', snap.seq)
  BY <1>1
<1>5. \A t \in tasks' : t.stage = "save" => Shows(t.doc, log', Lasts', t.seq)
  BY <1>1
<1>6. /\ load'[1].stage = "operations" => Shows(load'[1].doc, log', Lasts', load'[1].seq)
      /\ load'[1].stage = "resume" => load'[1].seq = Len(log') /\ Shows(load'[1].doc, log', Lasts', Len(log'))
  BY <1>1
<1>7. QED
  BY <1>3, <1>4, <1>5, <1>6 DEF Captured

\* All that the steps below rest on.
CaptureInv ==
    /\ ServerTypeOK /\ StagesInOrder /\ SessionsOnly /\ TableInv /\ TombsDeleted /\ UsedIsCached
    /\ Captured

\* Steps at which nothing is typed or stored and every document stays.
LEMMA QuietKeepsCaptured ==
    ASSUME CaptureInv, TableInv', UNCHANGED <<typed, log>>,
           \A e \in DOMAIN entries : entries'[e].doc = entries[e].doc,
           cache'[1] = cache[1] \/ ~Cached(1)', Cached(1) => cache[1] \in DOMAIN entries,
           \A s \in Sessions : hand'[s].stage = "append" => hand[s].stage = "append" /\ hand'[s].op = hand[s].op,
           \A snap \in snapshots' : snap \in snapshots \/ Shows(snap.doc, log, Lasts, snap.seq),
           \A t \in tasks' : t \in tasks \/ t.stage # "save",
           load'[1] = load[1] \/ load'[1].stage \in {"none", "snapshot"}
    PROVE  Captured'
<1>1. Deleted' = Deleted
  BY DEF Deleted
<1>2. Lasts' \subseteq Lasts
  BY <1>1, LastsOnlyLess DEF CaptureInv
<1>3. Cached(1)' => Cached(1) /\ entries'[cache'[1]].doc = entries[cache[1]].doc
  BY DEF Cached
<1>4. Cached(1)' =>
          /\ Shows(entries'[cache'[1]].doc, log, Lasts, Len(log))
          /\ \A s \in Sessions : hand'[s].stage = "append" =>
                Reflects(entries'[cache'[1]].doc, hand'[s].op, Lasts, Deleted)
  BY <1>3 DEF CaptureInv, Captured
<1>5. /\ \A snap \in snapshots' : Shows(snap.doc, log, Lasts, snap.seq)
      /\ \A t \in tasks' : t.stage = "save" => Shows(t.doc, log, Lasts, t.seq)
  BY DEF CaptureInv, Captured
<1>6. /\ load'[1].stage = "operations" => Shows(load'[1].doc, log, Lasts, load'[1].seq)
      /\ load'[1].stage = "resume" => load'[1].seq = Len(log) /\ Shows(load'[1].doc, log, Lasts, Len(log))
  BY DEF CaptureInv, Captured
<1>7. QED
  BY <1>1, <1>2, <1>4, <1>5, <1>6, CapturedStays DEF CaptureInv

\* An operation that is taken up is shown by the cached document from then on
\* if it can be, and hides nothing that is shown there.
LEMMA TakeKeepsCaptured ==
    ASSUME OneWorker, CaptureInv, TableInv', NEW s \in Sessions, Take(s) \/ Refuse(s)
    PROVE  Captured'
<1>1. PICK n \in seen[s]..Len(channel) : \E op \in Keystrokes(s, n) :
          Sent(s, n, op) /\ (Applies(s, op) \/ Waits(s, op) \/ Refuses)
  BY TakenUp DEF CaptureInv
<1>2. PICK op \in Keystrokes(s, n) : Sent(s, n, op) /\ (Applies(s, op) \/ Waits(s, op) \/ Refuses)
  BY <1>1
<1>3. op \in Operation
  BY KeystrokeIsNew DEF CaptureInv, TableInv
<1>4. Deleted \subseteq Deleted'
  BY <1>2, <1>3, SentIsTyped DEF CaptureInv
<1>5. UNCHANGED <<cache, log, snapshots, tasks>>
  BY TakeIs DEF CaptureInv
<1>6. Lasts' \subseteq Lasts
  BY <1>4, <1>5, LastsOnlyLess DEF CaptureInv
<1>7. home[s] = 1 /\ 1 \in Workers
  BY TheWorker DEF CaptureInv
<1>8. \A r \in Sessions : r # s => hand'[r] = hand[r]
  BY <1>2 DEF Applies, Waits, Refuses, CaptureInv, ServerTypeOK
<1> DEFINE e == cache[1]
           d == entries[e].doc
<1>9. CASE Applies(s, op)
  <2>1. /\ Cached(1) /\ ApplyIn(e, op) /\ load' = load
        /\ hand'[s].stage = "append" /\ hand'[s].op = op
    BY <1>7, <1>9 DEF Applies, CaptureInv, ServerTypeOK
  <2>2. e \in DOMAIN entries /\ d \in Document /\ DOMAIN log = 1..Len(log)
    BY <1>7, <2>1, TypeParts DEF CaptureInv
  <2>3. entries'[e].doc = Apply(d, op)
    BY <1>3, <2>1, <2>2, ApplyInIsTyped DEF CaptureInv
  <2>4. /\ Shows(d, log, Lasts, Len(log)) /\ Lasts \subseteq StoredIn(log)
        /\ \A r \in Sessions : hand[r].stage = "append" => Reflects(d, hand[r].op, Lasts, Deleted)
    BY <2>1, LastsParts DEF CaptureInv, Captured
  <2>5. Pending(s)'
    BY <2>1 DEF Pending
  <2>6. op.type = "INSERT" => /\ op.uid \in Drawn(typed'[s]) /\ op.uid \notin StoredIn(log) /\ op.uid # Root
                              /\ \A i \in DOMAIN log : Target(log[i].op) # op.uid
    BY <1>3, <1>5, <2>1, <2>5, OperationParts DEF TableInv, PendingInOrder
  <2>7. ASSUME NEW r \in Sessions, r # s, hand[r].stage = "append", op.type = "INSERT"
        PROVE  Target(hand[r].op) # op.uid
    <3>1. Pending(r)' /\ hand'[r] = hand[r]
      BY <1>8, <2>7 DEF Pending
    <3>2. Target(hand[r].op) \in {Root} \cup StoredIn(log) \cup Drawn(typed'[r])
      BY <1>5, <3>1 DEF TableInv, PendingInOrder
    <3>3. (\A u \in Drawn(typed'[r]) : u.site = r) /\ (\A u \in Drawn(typed'[s]) : u.site = s)
      BY DEF TableInv, OwnShown
    <3>4. QED
      BY <2>6, <2>7, <3>2, <3>3
  <2> HIDE DEF d
  <2>8. Shows(Apply(d, op), log, Lasts, Len(log))
    BY <1>3, <2>2, <2>4, <2>6, ApplyShows
  <2>9. \A u \in Lasts : Holds(d.list, u)
    BY <2>2, <2>4, ShownLasts
  <2>10. Reflects(Apply(d, op), op, Lasts, Deleted)
    BY <1>3, <2>2, <2>9, ApplyTakesIn
  <2>11. ASSUME NEW r \in Sessions, hand'[r].stage = "append"
         PROVE  Reflects(Apply(d, op), hand'[r].op, Lasts, Deleted)
    <3>1. CASE r = s
      BY <2>1, <2>10, <3>1
    <3>2. CASE r # s
      <4>1. hand'[r] = hand[r] /\ Reflects(d, hand[r].op, Lasts, Deleted)
        BY <1>8, <2>4, <2>11, <3>2
      <4>2. op.type = "INSERT" => Target(hand[r].op) # op.uid
        BY <2>7, <2>11, <3>2, <4>1
      <4>3. QED
        BY <1>3, <2>2, <4>1, <4>2, ApplyReflects
    <3>3. QED
      BY <3>1, <3>2
  <2>12. cache'[1] = e /\ entries'[cache'[1]].doc = Apply(d, op)
    BY <1>5, <2>3
  <2> HIDE DEF e
  <2>13. /\ \A snap \in snapshots' : Shows(snap.doc, log, Lasts, snap.seq)
         /\ \A t \in tasks' : t.stage = "save" => Shows(t.doc, log, Lasts, t.seq)
         /\ load'[1].stage = "operations" => Shows(load'[1].doc, log, Lasts, load'[1].seq)
         /\ load'[1].stage = "resume" => load'[1].seq = Len(log) /\ Shows(load'[1].doc, log, Lasts, Len(log))
    BY <1>5, <2>1 DEF CaptureInv, Captured
  <2>14. QED
    BY <1>4, <1>5, <1>6, <2>8, <2>11, <2>12, <2>13, CapturedStays DEF CaptureInv
<1>10. CASE Waits(s, op) \/ Refuses
  <2>1. entries' = entries /\ (Waits(s, op) => ~Cached(1) /\ hand'[s].stage = "load")
    BY <1>7, <1>10 DEF Waits, Refuses, CaptureInv, ServerTypeOK
  <2>2. Refuses => hand' = hand
    BY DEF Refuses
  <2>3. Cached(1)' =>
            /\ Shows(entries'[cache'[1]].doc, log, Lasts, Len(log))
            /\ \A r \in Sessions : hand'[r].stage = "append" =>
                  Reflects(entries'[cache'[1]].doc, hand'[r].op, Lasts, Deleted)
    BY <1>5, <1>10, <2>1, <2>2 DEF CaptureInv, Captured, Cached
  <2>4. load'[1] = load[1] \/ load'[1].stage = "snapshot"
    BY <1>7, <1>10 DEF Waits, Refuses, AwaitLoad, CaptureInv, ServerTypeOK, LoadRecords
  <2>5. /\ \A snap \in snapshots' : Shows(snap.doc, log, Lasts, snap.seq)
        /\ \A t \in tasks' : t.stage = "save" => Shows(t.doc, log, Lasts, t.seq)
        /\ load'[1].stage = "operations" => Shows(load'[1].doc, log, Lasts, load'[1].seq)
        /\ load'[1].stage = "resume" => load'[1].seq = Len(log) /\ Shows(load'[1].doc, log, Lasts, Len(log))
    BY <1>5, <2>4 DEF CaptureInv, Captured
  <2>6. QED
    BY <1>4, <1>5, <1>6, <2>3, <2>5, CapturedStays DEF CaptureInv
<1>11. QED
  BY <1>2, <1>9, <1>10

\* The row that is appended is shown already, or need not be.
LEMMA AppendKeepsCaptured ==
    ASSUME OneWorker, CaptureInv, TableInv', NEW s \in Sessions, AppendOperation(s)
    PROVE  Captured'
<1> DEFINE op == hand[s].op
           last == Len(log) + 1
           d == entries[cache[1]].doc
<1>1. /\ hand[s].stage = "append" /\ op \in Operation
      /\ Len(log') = last /\ log'[last].op = op
      /\ \A i \in DOMAIN log : i \in DOMAIN log' /\ log'[i] = log[i]
      /\ DOMAIN entries' = DOMAIN entries /\ \A e \in DOMAIN entries : entries'[e].doc = entries[e].doc
      /\ hand'[s].stage = "publish"
      /\ \A r \in Sessions : r # s => hand'[r] = hand[r]
      /\ UNCHANGED <<typed, cache, load, snapshots, tasks>>
  BY AppendIs DEF clientVars, CaptureInv
<1>2. Cached(1) /\ load[1].stage = "none"
  BY <1>1, TheWorker DEF CaptureInv, UsedIsCached, ServerTypeOK, LoadRecords
<1>3. Len(log) \in Nat /\ DOMAIN log = 1..Len(log) /\ cache[1] \in DOMAIN entries
  BY <1>2, TheWorker, TypeParts DEF CaptureInv
<1>4. /\ Lasts' \cap StoredIn(log) \subseteq Lasts
      /\ op.type = "INSERT" /\ op.uid \in Lasts' => op.after \in Lasts \cup {Root}
      /\ \A r \in Sessions :
            (r # s /\ hand[r].stage = "append" /\ hand[r].op.type = "INSERT" /\ hand[r].op.after \in Lasts')
                => hand[r].op.after \in Lasts
  BY AppendLasts DEF CaptureInv
<1>5. Deleted' = Deleted
  BY <1>1 DEF Deleted
<1>6. \A u \in Lasts' : u \notin Deleted
  <2>1. InsertedOnce(log')
    BY DEF TableInv, TableInOrder, InsertedOnce
  <2>2. Lasts' = LastingIn(log', Deleted')
    BY DEF Lasts
  <2>3. QED
    BY <1>5, <2>1, <2>2, LastingHangs
<1>7. ASSUME NEW x, NEW n \in 0..Len(log), Shows(x, log, Lasts, n) PROVE Shows(x, log', Lasts', n)
  <2>1. n \in Nat /\ 1..n \subseteq DOMAIN log
    BY <1>3
  <2>2. QED
    BY <1>1, <1>4, <1>7, <2>1, ShowsStays
<1>8. /\ Shows(d, log, Lasts, Len(log))
      /\ \A r \in Sessions : hand[r].stage = "append" => Reflects(d, hand[r].op, Lasts, Deleted)
  BY <1>2 DEF CaptureInv, Captured
<1> HIDE DEF d
<1>9. Shows(d, log', Lasts', last)
  <2>1. Shows(d, log', Lasts', Len(log))
    BY <1>3, <1>7, <1>8
  <2>2. Reflects(d, op, Lasts, Deleted)
    BY <1>1, <1>8
  <2>3. IF op.type = "INSERT" THEN op.uid \in Lasts' => Holds(d.list, op.uid) ELSE op.uid \notin VisibleUids(d)
    BY <1>4, <1>6, <2>2 DEF Reflects
  <2>4. 1..last = (1..Len(log)) \cup {last}
    BY <1>3
  <2> HIDE DEF op, last
  <2>5. QED
    BY <1>1, <2>1, <2>3, <2>4 DEF Shows
<1>10. \A r \in Sessions : hand'[r].stage = "append" => Reflects(d, hand'[r].op, Lasts', Deleted')
  <2> SUFFICES ASSUME NEW r \in Sessions, hand'[r].stage = "append" PROVE Reflects(d, hand'[r].op, Lasts', Deleted')
    OBVIOUS
  <2>1. r # s /\ hand'[r] = hand[r] /\ hand[r].stage = "append"
    BY <1>1
  <2>2. Reflects(d, hand[r].op, Lasts, Deleted)
    BY <1>8, <2>1
  <2>3. hand[r].op.type = "INSERT" => (hand[r].op.after \in Lasts' => hand[r].op.after \in Lasts)
    BY <1>4, <2>1
  <2>4. QED
    BY <1>5, <2>1, <2>2, <2>3 DEF Reflects
<1>11. entries'[cache'[1]].doc = d
  BY <1>1, <1>3 DEF d
<1>12. \A snap \in snapshots' : Shows(snap.doc, log', Lasts', snap.seq)
  <2>1. \A snap \in snapshots : snap.seq \in DOMAIN log /\ Shows(snap.doc, log, Lasts, snap.seq)
    BY DEF CaptureInv, Captured, SessionsOnly
  <2>2. \A snap \in snapshots : snap.seq \in 0..Len(log)
    BY <1>3, <2>1
  <2>3. QED
    BY <1>1, <1>7, <2>1, <2>2
<1>13. \A t \in tasks' : t.stage = "save" => Shows(t.doc, log', Lasts', t.seq)
  <2>1. \A t \in tasks : t.stage = "save" => t.seq \in DOMAIN log /\ Shows(t.doc, log, Lasts, t.seq)
    BY DEF CaptureInv, Captured, StagesInOrder
  <2>2. \A t \in tasks : t.stage = "save" => t.seq \in 0..Len(log)
    BY <1>3, <2>1
  <2>3. QED
    BY <1>1, <1>7, <2>1, <2>2
<1> HIDE DEF op, last
<1>14. load'[1].stage = "none"
  BY <1>1, <1>2
<1>15. QED
  BY <1>1, <1>9, <1>10, <1>11, <1>12, <1>13, <1>14 DEF Captured

\* A compaction keeps gc() from taking what lasts, and captures at least the
\* rows up to the seq it measured before.
LEMMA CompactKeepsCaptured ==
    ASSUME OneWorker, CaptureInv, TableInv', NEW t \in tasks, Compact(t)
    PROVE  Captured'
<1>1. \A e \in DOMAIN entries : Len(log) \in Nat /\ DOMAIN log = 1..Len(log)
  BY TypeParts DEF CaptureInv
<1>2. Cached(1) => cache[1] \in DOMAIN entries
  BY TheWorker, TypeParts DEF CaptureInv
<1>3. CASE Collect(t)
  <2> DEFINE d == entries[t.entry].doc
             kept == Gc(d)
             next == [t EXCEPT !.stage = "save", !.doc = kept]
  <2>1. /\ t.stage = "collect" /\ t.entry \in DOMAIN entries /\ d \in Document
        /\ next.stage = "save" /\ next.seq = t.seq /\ next.doc = kept
        /\ t.seq \in DOMAIN log /\ Becomes(t, next)
        /\ entries'[t.entry].doc = kept
        /\ UNCHANGED <<typed, hand, cache, load, log, snapshots>>
    BY <1>3, CollectIs DEF CaptureInv
  <2>2. Cached(1) /\ t.entry = cache[1]
    BY <2>1 DEF CaptureInv, UsedIsCached
  <2>3. /\ Shows(d, log, Lasts, Len(log))
        /\ \A s \in Sessions : hand[s].stage = "append" => Reflects(d, hand[s].op, Lasts, Deleted)
    BY <2>2 DEF CaptureInv, Captured
  <2>4. d.tomb \subseteq Deleted /\ \A u \in Lasts : u \notin Deleted
    BY <2>1, LastsParts DEF CaptureInv, TombsDeleted
  <2>5. Deleted' = Deleted
    BY <2>1 DEF Deleted
  <2>6. Lasts' \subseteq Lasts
    BY <2>1, <2>5, LastsOnlyLess DEF CaptureInv
  <2> HIDE DEF d, next
  <2>7. Shows(kept, log, Lasts, Len(log))
    BY <2>1, <2>3, <2>4, GcShows
  <2>8. \A s \in Sessions : hand[s].stage = "append" => Reflects(kept, hand[s].op, Lasts, Deleted)
    BY <2>1, <2>3, <2>4, GcReflects
  <2> HIDE DEF kept
  <2>9. Shows(kept, log, Lasts, t.seq)
    <3>1. 1..t.seq \subseteq 1..Len(log)
      BY <1>1, <2>1
    <3>2. QED
      BY <2>7, <3>1 DEF Shows
  <2>10. \A u \in tasks' : u.stage = "save" => Shows(u.doc, log, Lasts, u.seq)
    BY <2>1, <2>9 DEF Becomes, CaptureInv, Captured
  <2>11. Cached(1)' =>
            /\ Shows(entries'[cache'[1]].doc, log, Lasts, Len(log))
            /\ \A s \in Sessions : hand'[s].stage = "append" =>
                  Reflects(entries'[cache'[1]].doc, hand'[s].op, Lasts, Deleted)
    BY <2>1, <2>2, <2>7, <2>8
  <2>12. /\ \A snap \in snapshots' : Shows(snap.doc, log, Lasts, snap.seq)
         /\ load'[1].stage = "operations" => Shows(load'[1].doc, log, Lasts, load'[1].seq)
         /\ load'[1].stage = "resume" => load'[1].seq = Len(log) /\ Shows(load'[1].doc, log, Lasts, Len(log))
    BY <2>1 DEF CaptureInv, Captured
  <2>13. QED
    BY <2>1, <2>5, <2>6, <2>10, <2>11, <2>12, CapturedStays DEF CaptureInv
<1>4. CASE Measure(t) \/ Save(t) \/ Prune(t) \/ CompactionFails(t)
  <2>1. UNCHANGED <<typed, log, entries, cache, hand, load>>
    BY <1>4 DEF Measure, Save, Prune, CompactionFails, clientVars, cacheVars
  <2>2. \A snap \in snapshots' : snap \in snapshots \/ Shows(snap.doc, log, Lasts, snap.seq)
    <3>1. CASE Save(t)
      <4>1. t.stage = "save" /\ snapshots' \subseteq snapshots \cup {[seq |-> t.seq, doc |-> t.doc]}
        BY <3>1 DEF Save
      <4>2. Shows(t.doc, log, Lasts, t.seq)
        BY <4>1 DEF CaptureInv, Captured
      <4>3. QED
        BY <4>1, <4>2
    <3>2. CASE ~Save(t)
      BY <1>4, <3>2 DEF Measure, Prune, CompactionFails
    <3>3. QED
      BY <3>1, <3>2
  <2>3. \A u \in tasks' : u \in tasks \/ u.stage # "save"
    <3> DEFINE measured == [t EXCEPT !.stage = "collect", !.seq = Len(log)]
               pruned == [t EXCEPT !.stage = "prune"]
    <3>1. tasks' \subseteq tasks \cup {measured, pruned}
      BY <1>4 DEF Measure, Save, Prune, CompactionFails, Becomes
    <3>2. measured.stage = "collect" /\ pruned.stage = "prune"
      BY TaskParts DEF CaptureInv, TaskRecords
    <3> HIDE DEF measured, pruned
    <3>3. QED
      BY <3>1, <3>2
  <2>4. QED
    BY <1>2, <2>1, <2>2, <2>3, QuietKeepsCaptured
<1>5. QED
  BY <1>3, <1>4 DEF Compact

\* A load reads a snapshot that captures its rows, and the rows after it.
LEMMA LoadKeepsCaptured ==
    ASSUME OneWorker, CaptureInv, TableInv', NEW w \in Workers, Load(w)
    PROVE  Captured'
<1>1. w = 1 /\ 1 \in Workers /\ DOMAIN load = {1} /\ DOMAIN cache = {1}
  BY TheWorker DEF CaptureInv
<1>2. /\ Len(log) \in Nat /\ DOMAIN log = 1..Len(log) /\ (Cached(1) => cache[1] \in DOMAIN entries)
      /\ load[1].seq \in 0..Len(log) /\ load[1].doc \in Document
  <2>1. load[1].seq \in 0..Len(log)
    BY <1>1 DEF CaptureInv, SessionsOnly
  <2>2. QED
    BY <1>1, <2>1, TypeParts DEF CaptureInv
<1>3. CASE Join(w)
  <2>1. UNCHANGED <<typed, log, entries, cache, hand, snapshots, tasks>>
    BY <1>3 DEF Join, clientVars
  <2>2. load'[1] = load[1] \/ load'[1].stage = "snapshot"
    BY <1>1, <1>3 DEF Join, AwaitLoad, CaptureInv, ServerTypeOK, LoadRecords
  <2>3. QED
    BY <1>2, <2>1, <2>2, QuietKeepsCaptured
<1>4. ASSUME ReadSnapshot(w) \/ ReadOperations(w) \/ Resume(w)
      PROVE  ~Cached(1) /\ UNCHANGED <<typed, log, snapshots>> /\ Deleted' = Deleted /\ Lasts' \subseteq Lasts
  <2>1. ~Cached(1) /\ UNCHANGED <<typed, log, snapshots>>
    BY <1>1, <1>4 DEF ReadSnapshot, ReadOperations, Resume, clientVars, CaptureInv, UsedIsCached
  <2>2. Deleted' = Deleted
    BY <2>1 DEF Deleted
  <2>3. QED
    BY <2>1, <2>2, LastsOnlyLess DEF CaptureInv
<1>5. CASE ReadSnapshot(w)
  <2>1. /\ load' = [load EXCEPT ![1] = [stage |-> "operations", seq |-> LatestSnapshot.seq,
                                        doc |-> LatestSnapshot.doc]]
        /\ UNCHANGED <<cache, tasks>>
    BY <1>1, <1>5 DEF ReadSnapshot
  <2>2. Shows(LatestSnapshot.doc, log, Lasts, LatestSnapshot.seq)
    <3>1. CASE snapshots = {}
      BY <3>1 DEF LatestSnapshot, NoSnapshot, Shows
    <3>2. CASE snapshots # {}
      BY <3>2, RowsRead DEF CaptureInv, Captured
    <3>3. QED
      BY <3>1, <3>2
  <2>3. load'[1].stage = "operations" /\ Shows(load'[1].doc, log, Lasts, load'[1].seq)
    BY <1>1, <2>1, <2>2
  <2>4. ~Cached(1)'
    BY <1>4, <1>5, <2>1 DEF Cached
  <2>5. /\ \A snap \in snapshots' : Shows(snap.doc, log, Lasts, snap.seq)
        /\ \A t \in tasks' : t.stage = "save" => Shows(t.doc, log, Lasts, t.seq)
    BY <1>4, <1>5, <2>1 DEF CaptureInv, Captured
  <2>6. QED
    BY <1>4, <1>5, <2>3, <2>4, <2>5, CapturedStays DEF CaptureInv
<1>6. CASE ReadOperations(w)
  <2> DEFINE d == ReplayFrom(load[1].doc, StoredAfter(load[1].seq))
  <2>1. /\ load[1].stage = "operations"
        /\ load' = [load EXCEPT ![1] = [stage |-> "resume", seq |-> Len(log), doc |-> d]]
        /\ UNCHANGED <<cache, tasks>>
    BY <1>1, <1>6 DEF ReadOperations
  <2>2. Shows(load[1].doc, log, Lasts, load[1].seq)
    BY <2>1 DEF CaptureInv, Captured
  <2>3. Shows(d, log, Lasts, Len(log))
    BY <1>2, <2>2, ReplayShows DEF CaptureInv
  <2> HIDE DEF d
  <2>4. load'[1].stage = "resume" /\ load'[1].seq = Len(log) /\ Shows(load'[1].doc, log, Lasts, Len(log))
    BY <1>1, <2>1, <2>3
  <2>5. ~Cached(1)'
    BY <1>4, <1>6, <2>1 DEF Cached
  <2>6. /\ \A snap \in snapshots' : Shows(snap.doc, log, Lasts, snap.seq)
        /\ \A t \in tasks' : t.stage = "save" => Shows(t.doc, log, Lasts, t.seq)
    BY <1>4, <1>6, <2>1 DEF CaptureInv, Captured
  <2>7. QED
    BY <1>4, <1>6, <2>4, <2>5, <2>6, CapturedStays DEF CaptureInv
<1>7. CASE Resume(w)
  <2> DEFINE e == Len(entries) + 1
             d == ReplayFrom(load[1].doc, WaitingOps(1))
  <2>1. /\ load[1].stage = "resume" /\ entries'[e].doc = d
        /\ cache' = [cache EXCEPT ![1] = e] /\ load' = [load EXCEPT ![1] = NoLoad]
    BY <1>1, <1>7, ResumeBuilds DEF CaptureInv
  <2>2. /\ \A s \in Waiting(1) : hand'[s].op = hand[s].op
        /\ \A s \in Sessions \ Waiting(1) : hand'[s] = hand[s]
        /\ \A t \in tasks' : \E u \in tasks : /\ t.doc = u.doc /\ t.seq = u.seq
                                              /\ t = u \/ (t.stage = "measure" /\ t.entry = e)
    BY <1>1, <1>7, ResumeIs DEF CaptureInv
  <2>3. Shows(load[1].doc, log, Lasts, Len(log))
    BY <2>1 DEF CaptureInv, Captured
  <2>4. /\ Shows(d, log, Lasts, Len(log))
        /\ \A s \in Waiting(1) : Reflects(d, hand[s].op, Lasts, Deleted)
    BY <1>1, <1>7, <2>3, ResumeShows DEF CaptureInv
  <2> HIDE DEF e, d
  <2>5. entries'[cache'[1]].doc = d /\ load'[1].stage = "none"
    BY <1>1, <2>1 DEF NoLoad
  <2>6. \A s \in Sessions : hand'[s].stage = "append" => s \in Waiting(1)
    BY <1>4, <1>7, <2>2 DEF CaptureInv, UsedIsCached
  <2>7. \A s \in Sessions : hand'[s].stage = "append" => Reflects(entries'[cache'[1]].doc, hand'[s].op, Lasts, Deleted)
    BY <2>2, <2>4, <2>5, <2>6
  <2>8. \A t \in tasks' : t.stage = "save" => Shows(t.doc, log, Lasts, t.seq)
    BY <2>2 DEF CaptureInv, Captured
  <2>9. \A snap \in snapshots' : Shows(snap.doc, log, Lasts, snap.seq)
    BY <1>4, <1>7 DEF CaptureInv, Captured
  <2>10. QED
    BY <1>4, <1>7, <2>4, <2>5, <2>7, <2>8, <2>9, CapturedStays DEF CaptureInv
<1>8. QED
  BY <1>3, <1>5, <1>6, <1>7 DEF Load

\* Every step keeps all documents captured.
LEMMA NextKeepsCaptured ==
    ASSUME OneWorker, CaptureInv, TableInv', [Next]_vars
    PROVE  Captured'
<1>1. /\ Cached(1) => cache[1] \in DOMAIN entries
      /\ 1 \in Workers /\ DOMAIN load = {1} /\ DOMAIN cache = {1}
      /\ \A s \in Sessions : home[s] = 1
      /\ \A t \in tasks : t.worker = 1
  BY TheWorker, TypeParts DEF CaptureInv
<1>2. ASSUME NEW s \in Sessions, Publish(s) \/ HandlerFails(s) PROVE Captured'
  <2>1. UNCHANGED <<typed, log, entries, cache, snapshots>>
    BY <1>2 DEF Publish, HandlerFails, clientVars, cacheVars
  <2>2. \A r \in Sessions : hand'[r] = hand[r] \/ hand'[r].stage # "append"
    BY <1>2 DEF Publish, HandlerFails, Idle, CaptureInv, ServerTypeOK
  <2>3. \A t \in tasks' : t \in tasks \/ t.stage # "save"
    BY <1>2 DEF Publish, HandlerFails, StartCompaction
  <2>4. load'[1] = load[1] \/ load'[1].stage = "snapshot"
    BY <1>1, <1>2 DEF Publish, HandlerFails, cacheVars, AwaitLoad, CaptureInv, ServerTypeOK, LoadRecords
  <2>5. QED
    BY <1>1, <2>1, <2>2, <2>3, <2>4, QuietKeepsCaptured
<1>3. ASSUME NEW w \in Workers, Evict(w) \/ Crash(w) PROVE Captured'
  <2>1. w = 1
    BY TheWorker DEF CaptureInv
  <2>2. UNCHANGED <<typed, log, entries, snapshots>> /\ cache' = [cache EXCEPT ![1] = 0]
    BY <1>3, <2>1 DEF Evict, Crash, clientVars
  <2>3. ~Cached(1)'
    BY <1>1, <2>2 DEF Cached
  <2>4. \A r \in Sessions : hand'[r] = hand[r] \/ hand'[r].stage # "append"
    BY <1>3 DEF Evict, Crash, Closed, Idle
  <2>5. tasks' \subseteq tasks /\ (load'[1] = load[1] \/ load'[1].stage = "none")
    BY <1>1, <1>3, <2>1 DEF Evict, Crash, NoLoad
  <2>6. QED
    BY <1>1, <2>2, <2>3, <2>4, <2>5, QuietKeepsCaptured
<1>4. CASE Rest \/ UNCHANGED vars
  BY <1>1, <1>4, QuietKeepsCaptured DEF Rest, vars, clientVars, cacheVars
<1>5. QED
  BY <1>2, <1>3, <1>4, TakeKeepsCaptured, AppendKeepsCaptured, CompactKeepsCaptured, LoadKeepsCaptured
     DEF Next, Handle

\* Every worker starts with the empty document of an empty table.
LEMMA InitCaptured ==
    ASSUME OneWorker, Init
    PROVE  CaptureInv
<1>1. ServerTypeOK /\ StagesInOrder /\ SessionsOnly /\ TableInv
  BY InitServerTypes, InitSessionsOnly, InitTable
<1>2. Workers = {1}
  BY DEF OneWorker, Workers
<1>3. /\ log = << >> /\ snapshots = {} /\ tasks = {} /\ EmptyDoc.tomb = {}
      /\ \A s \in Sessions : hand[s].stage = "idle"
      /\ \A w \in Workers : load[w] = NoLoad
      /\ \A e \in DOMAIN entries : entries[e].doc = EmptyDoc
  BY DEF Init, Idle, EmptyDoc
<1>4. TombsDeleted
  BY <1>3 DEF TombsDeleted, NoLoad
<1>5. UsedIsCached
  BY <1>2, <1>3 DEF UsedIsCached, NoLoad
<1>6. \A d, lasting : Shows(d, log, lasting, Len(log))
  BY <1>3 DEF Shows
<1>7. Captured
  BY <1>2, <1>3, <1>6 DEF Captured, NoLoad
<1>8. QED
  BY <1>1, <1>4, <1>5, <1>7 DEF CaptureInv

\* Everything the captured documents rest on holds in every state.
LEMMA CaptureInvariant == OneWorker => (Spec => []CaptureInv)
<1> SUFFICES ASSUME OneWorker PROVE Spec => []CaptureInv
  OBVIOUS
<1>1. Init => CaptureInv
  BY InitCaptured
<1>2. CaptureInv /\ [Next]_vars => CaptureInv'
  <2> SUFFICES ASSUME CaptureInv, [Next]_vars PROVE CaptureInv'
    OBVIOUS
  <2>1. ServerTypeOK' /\ StagesInOrder' /\ SessionsOnly' /\ TableInv'
    BY NextKeepsServerTypes, NextKeepsSessionsOnly, NextKeepsTable DEF CaptureInv
  <2>2. TombsDeleted'
    BY NextKeepsTombs DEF CaptureInv
  <2>3. UsedIsCached'
    BY NextKeepsUsed DEF CaptureInv
  <2>4. Captured'
    BY <2>1, NextKeepsCaptured
  <2>5. QED
    BY <2>1, <2>2, <2>3, <2>4 DEF CaptureInv
<1>3. QED
  BY <1>1, <1>2, PTL DEF Spec

\* What lasts is what no server may lack.
LEMMA LastsAre == Lasting = Lasts
<1> DEFINE insertions == {i \in DOMAIN log : log[i].op.type = "INSERT" /\ log[i].op.uid \notin Deleted}
           reachRoot(uids) == \A u \in uids : \E i \in insertions :
                                 log[i].op.uid = u /\ log[i].op.after \in uids \cup {Root}
<1>1. Lasting = UNION {uids \in SUBSET {log[i].op.uid : i \in insertions} : reachRoot(uids)}
  BY Zenon DEF Lasting
<1>2. \A uids : uids \in SUBSET {log[i].op.uid : i \in insertions} /\ reachRoot(uids)
            <=> uids \in SUBSET StoredIn(log) /\ ReachRoot(uids, log, Deleted)
  BY DEF StoredIn, ReachRoot
<1> HIDE DEF insertions, reachRoot
<1>3. QED
  BY <1>1, <1>2 DEF Lasts, LastingIn

\* The effects a document covers are those it shows.
LEMMA CoversShows ==
    ASSUME NEW d, NEW n, Shows(d, log, Lasts, n)
    PROVE  Covers(d, n)
BY LastsAre DEF Covers, Shows

\* With one worker that keeps entries in use, a snapshot contains every
\* operation up to its seq (maybeTakeSnapshot reads the seq first).
THEOREM SnapshotsHoldTheirRows == OneWorker => (Spec => []SnapshotsCapture)
<1>1. CaptureInv => SnapshotsCapture
  BY CoversShows DEF CaptureInv, Captured, SnapshotsCapture
<1>2. QED
  BY <1>1, CaptureInvariant, PTL

\* With one worker that keeps entries in use, the document cached contains
\* every operation up to the seq noted on it (updateCachedDocument).
THEOREM CachesHoldTheirRows == OneWorker => (Spec => []CachesCapture)
<1>1. ASSUME OneWorker, CaptureInv PROVE CachesCapture
  <2>1. Workers = {1}
    BY <1>1 DEF OneWorker, Workers
  <2> SUFFICES ASSUME Cached(1) PROVE Covers(entries[cache[1]].doc, entries[cache[1]].lastSeq)
    BY <2>1 DEF CachesCapture
  <2>2. Shows(entries[cache[1]].doc, log, Lasts, Len(log))
    BY <1>1 DEF CaptureInv, Captured
  <2>3. entries[cache[1]].lastSeq \in 0..Len(log) /\ Len(log) \in Nat
    BY <1>1, <2>1, TypeParts DEF CaptureInv
  <2>4. 1..entries[cache[1]].lastSeq \subseteq 1..Len(log)
    BY <2>3
  <2>5. Shows(entries[cache[1]].doc, log, Lasts, entries[cache[1]].lastSeq)
    BY <2>2, <2>4 DEF Shows
  <2>6. QED
    BY <2>5, CoversShows
<1> SUFFICES ASSUME OneWorker PROVE Spec => []CachesCapture
  OBVIOUS
<1>2. CaptureInv => CachesCapture
  BY <1>1
<1>3. QED
  BY <1>2, CaptureInvariant, PTL

\* With one worker that keeps entries in use, what a load builds at any moment
\* contains every stored operation (loadFromDatabase).
THEOREM ColdLoadsHoldTheTable == OneWorker => (Spec => []ColdLoadIsComplete)
<1>1. CaptureInv => ColdLoadIsComplete
  <2> SUFFICES ASSUME CaptureInv PROVE ColdLoadIsComplete
    OBVIOUS
  <2>1. Shows(LatestSnapshot.doc, log, Lasts, LatestSnapshot.seq)
    <3>1. CASE snapshots = {}
      BY <3>1 DEF LatestSnapshot, NoSnapshot, Shows
    <3>2. CASE snapshots # {}
      BY <3>2, RowsRead DEF CaptureInv, Captured
    <3>3. QED
      BY <3>1, <3>2
  <2>2. LatestSnapshot.seq \in 0..Len(log) /\ LatestSnapshot.doc \in Document
    BY RowsRead, LatestOfRows DEF CaptureInv
  <2>3. Shows(ColdLoad, log, Lasts, Len(log))
    BY <2>1, <2>2, ReplayShows DEF CaptureInv, ColdLoad
  <2>4. QED
    BY <2>3, CoversShows DEF ColdLoadIsComplete
<1>2. QED
  BY <1>1, CaptureInvariant, PTL

-----------------------------------------------------------------------------
(* Restores: types. *)

RestoreRecords(l) ==
    [stage : {"none", "snapshot", "range", "append", "save", "commit", "invalidate"},
     worker : 0..NumWorkers, target : 0..l, seq : 0..(l + 1), doc : Document]

\* RestoreTypeOK, and what a restore knows at each stage: a revision that is in
\* the table, the snapshot it replays from, the seq that is its own.
RestoreInOrder ==
    /\ restore \in RestoreRecords(Len(log))
    /\ restores \in 0..MaxRestores
    /\ restored \in [seq : 0..Len(log), doc : Document]
    /\ leftover \in BOOLEAN
    /\ restore.stage # "none" => restore.target \in DOMAIN log
    /\ restore.stage = "range" => restore.seq < restore.target
    /\ restore.stage \in {"save", "commit"} => restore.seq = Len(log) + 1
    /\ restore.stage = "invalidate" => restore.seq \in DOMAIN log

\* A step beside a restore.
Beside ==
    /\ Next /\ UNCHANGED <<restore, restores, restored>>
    /\ CounterLocked => log' = log

\* A restore that ends early.
Aborts ==
    /\ restore' = NoRestore
    /\ UNCHANGED <<restores, restored>>
    /\ \/ \E w \in Workers : Crash(w)
       \/ RestoreFails

Quiet == UNCHANGED vars

\* The steps of the whole.
LEMMA RestoreSteps ==
    ASSUME [RestoreNext]_allVars
    PROVE  \/ Beside
           \/ Aborts
           \/ Quiet /\ \/ \E w \in Workers : BeginRestore(w)
                       \/ ReadSnapshotBefore \/ ReadRange \/ AppendRollback
                       \/ UNCHANGED restoreVars
           \/ SaveRestored \/ CommitRestore \/ Invalidate
<1>1. CASE UNCHANGED allVars
  BY <1>1 DEF allVars, Quiet
<1>2. CASE RestoreRest
  BY <1>2 DEF RestoreRest, Rest, Quiet
<1>3. CASE ServerStep
  <2>1. Next
    BY <1>3 DEF ServerStep, Next
  <2>2. QED
    BY <1>3, <2>1 DEF ServerStep, Beside
<1>4. ASSUME NEW w \in Workers, CrashWhileRestoring(w) PROVE Aborts
  BY <1>4 DEF CrashWhileRestoring, Aborts
<1>5. CASE RestoreFails
  BY <1>5 DEF RestoreFails, Aborts
<1>6. CASE (\E w \in Workers : BeginRestore(w)) \/ ReadSnapshotBefore \/ ReadRange \/ AppendRollback
  <2>1. Quiet
    BY <1>6 DEF Quiet, BeginRestore, ReadSnapshotBefore, ReadRange, AppendRollback
  <2>2. QED
    BY <1>6, <2>1
<1>7. QED
  BY <1>1, <1>2, <1>3, <1>4, <1>5, <1>6 DEF RestoreNext, RestoreStep

\* The snapshot a revision is rebuilt from (loadSnapshotBefore) is the last one
\* up to it, or none.
LEMMA SnapshotBeforeIs ==
    ASSUME ServerTypeOK, NEW n \in Nat
    PROVE  /\ SnapshotBefore(n).seq \in 0..n /\ SnapshotBefore(n).seq \in 0..(Len(log) + 1)
           /\ SnapshotBefore(n).doc \in Document
           /\ SnapshotBefore(n) = NoSnapshot \/ SnapshotBefore(n) \in snapshots
           /\ \A snap \in snapshots : snap.seq <= n => snap.seq <= SnapshotBefore(n).seq
<1> DEFINE upTo == {snap \in snapshots : snap.seq <= n}
<1>1. \A snap \in snapshots : snap.seq \in 1..(Len(log) + 1) /\ snap.doc \in Document
  BY TypeParts
<1>2. Len(log) \in Nat
  BY TypeParts
<1>3. SnapshotBefore(n) = IF upTo = {} THEN NoSnapshot
                          ELSE CHOOSE snap \in upTo : \A other \in upTo : other.seq <= snap.seq
  BY DEF SnapshotBefore
<1>4. CASE upTo = {}
  BY <1>2, <1>3, <1>4, EmptyIsDocument DEF NoSnapshot
<1>5. CASE upTo # {}
  <2>1. \A snap \in upTo : snap.seq \in 0..n
    BY <1>1, <1>2
  <2> HIDE DEF upTo
  <2>2. \E snap \in upTo : \A other \in upTo : other.seq <= snap.seq
    BY <1>5, <2>1, GreatestSeq
  <2>3. SnapshotBefore(n) \in upTo /\ \A other \in upTo : other.seq <= SnapshotBefore(n).seq
    BY <1>3, <1>5, <2>2
  <2>4. QED
    BY <1>1, <1>2, <2>1, <2>3 DEF upTo
<1>6. QED
  BY <1>4, <1>5

\* The rows behind it up to the revision (loadOperationsInRange).
LEMMA RangeIsTyped ==
    ASSUME ServerTypeOK, NEW n \in DOMAIN log, NEW m \in 0..n
    PROVE  /\ StoredInRange(m + 1, n) \in Seq(Operation) /\ Len(StoredInRange(m + 1, n)) = n - m
           /\ \A i \in 1..(n - m) : StoredInRange(m + 1, n)[i] = log[m + i].op
<1>1. Len(log) \in Nat /\ DOMAIN log = 1..Len(log) /\ \A i \in DOMAIN log : log[i].op \in Operation
  BY TypeParts
<1>2. n - m \in Nat /\ n + 1 - (m + 1) = n - m /\ \A i \in 1..(n - m) : m + 1 + i - 1 = m + i /\ m + i \in DOMAIN log
  BY <1>1
<1>3. StoredInRange(m + 1, n) = [i \in 1..(n - m) |-> log[m + 1 + i - 1].op]
  BY <1>2 DEF StoredInRange
<1>4. StoredInRange(m + 1, n) = [i \in 1..(n - m) |-> log[m + i].op]
  BY <1>2, <1>3
<1>5. QED
  BY SMTT(60), <1>1, <1>2, <1>4

\* What the restore itself writes leaves everything of its type: its snapshot,
\* its row, the channel, the cache (restoreToRevision, invalidateDocument).
LEMMA RestoringKeepsServerTypes ==
    ASSUME ServerTypeOK, StagesInOrder, RestoreInOrder,
           SaveRestored \/ CommitRestore \/ Invalidate \/ RestoreFails
    PROVE  ServerTypeOK' /\ StagesInOrder'
<1>1. /\ Len(log) \in Nat /\ DOMAIN log = 1..Len(log) /\ Len(entries) \in Nat /\ Len(channel) \in Nat
      /\ Len(entries) <= Len(entries) /\ DOMAIN entries = 1..Len(entries)
      /\ cache \in [Workers -> 0..Len(entries)] /\ 0 \in 0..Len(entries)
  BY TypeParts DEF ServerTypeOK
<1>2. restore.doc \in Document /\ restore.target \in Nat
  BY <1>1 DEF RestoreInOrder, RestoreRecords
<1>3. CASE SaveRestored
  <2>1. snapshots' \subseteq snapshots \cup {[seq |-> restore.seq, doc |-> restore.doc]}
    BY <1>3 DEF SaveRestored
  <2>2. restore.seq \in 1..(Len(log) + 1)
    BY <1>1, <1>3 DEF SaveRestored, RestoreInOrder
  <2>3. snapshots' \subseteq [seq : 1..(Len(log) + 1), doc : Document]
    BY <1>2, <2>1, <2>2 DEF ServerTypeOK
  <2>4. UNCHANGED <<home, typed, seen, hand, entries, cache, load, log, channel, tasks,
                    due, evicted, abandoned, faults>>
    BY <1>3 DEF SaveRestored, clientVars, cacheVars, boundVars
  <2>5. QED
    BY <2>3, <2>4 DEF ServerTypeOK, StagesInOrder
<1>4. CASE CommitRestore
  <2> DEFINE row == [session |-> 0, op |-> [type |-> "ROLLBACK", uid |-> Root, target |-> restore.target]]
             R == [session : Sessions \cup {0}, op : Operation]
             l == Len(log) + 1
  <2>1. log \in Seq(R) /\ row \in R /\ log' = Append(log, row)
    BY <1>2, <1>4 DEF ServerTypeOK, CommitRestore, Operation
  <2>2. UNCHANGED <<home, typed, seen, hand, entries, cache, load, snapshots, channel, tasks,
                    due, evicted, abandoned, faults>>
    BY <1>4 DEF CommitRestore, clientVars, cacheVars, boundVars
  <2> HIDE DEF R, row
  <2>3. log' \in Seq(R) /\ Len(log') = l /\ DOMAIN log' = 1..l
    <3>1. log' \in Seq(R) /\ Len(log') = l
      BY <2>1, AppendProperties
    <3>2. QED
      BY <3>1
  <2>4. l \in Nat /\ Len(log) <= l /\ 1..Len(log) \subseteq 1..l /\ 0..Len(log) \subseteq 0..l
    BY <1>1
  <2> HIDE DEF l
  <2>5. /\ entries \in Seq([doc : Document, lastSeq : 0..l])
        /\ hand \in [Sessions -> HandRecords(0..Len(entries), 0..l)]
        /\ load \in [Workers -> LoadRecords(0..(l + 1))]
        /\ snapshots \subseteq [seq : 1..(l + 1), doc : Document]
        /\ channel \in Seq(1..l)
        /\ tasks \subseteq TaskRecords(0..Len(entries), 1..l)
    BY <1>1, <2>4, TypesGrow
  <2>6. ServerTypeOK'
    BY <2>2, <2>3, <2>5 DEF ServerTypeOK, R
  <2>7. StagesInOrder'
    BY <1>1, <2>2, <2>3, <2>4 DEF StagesInOrder
  <2>8. QED
    BY <2>6, <2>7
<1>5. CASE Invalidate
  <2>1. cache' \in [Workers -> 0..Len(entries)]
    BY <1>1, <1>5 DEF Invalidate
  <2>2. restore.seq \in DOMAIN log /\ channel \in Seq(DOMAIN log) /\ channel' = Append(channel, restore.seq)
    BY <1>5 DEF Invalidate, RestoreInOrder, ServerTypeOK
  <2>3. channel' \in Seq(DOMAIN log) /\ Len(channel') = Len(channel) + 1
    BY <2>2
  <2>4. seen \in [Sessions -> 0..(Len(channel) + 1)]
    <3>1. 0..Len(channel) \subseteq 0..(Len(channel) + 1)
      BY <1>1
    <3>2. QED
      BY <3>1 DEF ServerTypeOK
  <2>5. UNCHANGED <<home, typed, seen, hand, entries, load, log, snapshots, tasks,
                    due, evicted, abandoned, faults>>
    BY <1>5 DEF Invalidate, clientVars, boundVars
  <2>6. QED
    BY <2>1, <2>3, <2>4, <2>5 DEF ServerTypeOK, StagesInOrder
<1>6. CASE RestoreFails
  <2>1. cache' \in [Workers -> 0..Len(entries)]
    BY <1>1, <1>6 DEF RestoreFails
  <2>2. faults' \in 0..MaxFaults
    BY <1>6, FaultsCounted DEF RestoreFails
  <2>3. UNCHANGED <<home, typed, seen, hand, entries, load, log, snapshots, channel, tasks,
                    due, evicted, abandoned>>
    BY <1>6 DEF RestoreFails, clientVars
  <2>4. QED
    BY <2>1, <2>2, <2>3 DEF ServerTypeOK, StagesInOrder
<1>7. QED
  BY <1>3, <1>4, <1>5, <1>6

\* A step beside a restore appends one row at most, and none while a restore
\* has the counter.
LEMMA BesideIs ==
    ASSUME ServerTypeOK, StagesInOrder, Beside
    PROVE  \/ log' = log
           \/ /\ ~CounterLocked
              /\ \E s \in Sessions : AppendOperation(s)
<1>1. ASSUME NEW s \in Sessions, Handle(s) PROVE log' = log \/ AppendOperation(s)
  BY <1>1 DEF Handle, Take, Refuse, Publish, HandlerFails
<1>2. ASSUME NEW t \in tasks, Compact(t) PROVE log' = log
  BY <1>2 DEF Compact, Measure, Collect, Save, Prune, CompactionFails
<1>3. ASSUME NEW w \in Workers, Load(w) \/ Evict(w) \/ Crash(w) PROVE log' = log
  BY <1>3 DEF Load, Join, ReadSnapshot, ReadOperations, Resume, Evict, Crash
<1>4. CASE Rest
  BY <1>4 DEF Rest, vars
<1>5. QED
  BY <1>1, <1>2, <1>3, <1>4 DEF Beside, Next

\* Rows are only ever added: by a handler or by the restore that commits.
LEMMA LogGrows ==
    ASSUME ServerTypeOK, StagesInOrder, RestoreInOrder, [RestoreNext]_allVars
    PROVE  /\ Len(log) \in Nat /\ Len(log') \in Nat /\ Len(log) <= Len(log')
           /\ DOMAIN log = 1..Len(log) /\ DOMAIN log' = 1..Len(log')
           /\ \A i \in DOMAIN log : i \in DOMAIN log' /\ log'[i] = log[i]
<1>1. Len(log) \in Nat /\ DOMAIN log = 1..Len(log)
  BY TypeParts
<1>2. CASE log' = log
  BY <1>1, <1>2
<1>3. ASSUME NEW s \in Sessions, AppendOperation(s)
      PROVE  /\ Len(log') = Len(log) + 1 /\ DOMAIN log' = 1..(Len(log) + 1)
             /\ \A i \in DOMAIN log : i \in DOMAIN log' /\ log'[i] = log[i]
  BY <1>3, AppendIs
<1>4. CASE CommitRestore
  <2>1. PICK row : log' = Append(log, row)
    BY <1>4 DEF CommitRestore
  <2>2. log \in Seq([session : Sessions \cup {0}, op : Operation])
    BY DEF ServerTypeOK
  <2>3. Len(log') = Len(log) + 1 /\ DOMAIN log' = 1..(Len(log) + 1) /\ \A i \in 1..Len(log) : log'[i] = log[i]
    BY <2>1, <2>2
  <2>4. QED
    BY <1>1, <2>3
<1>5. log' = log \/ CommitRestore \/ \E s \in Sessions : AppendOperation(s)
  <2>1. CASE Beside
    BY <2>1, BesideIs
  <2>2. CASE ~Beside
    BY <2>2, RestoreSteps DEF Quiet, vars, Aborts, Crash, RestoreFails, SaveRestored, Invalidate
  <2>3. QED
    BY <2>1, <2>2
<1>6. QED
  BY <1>1, <1>2, <1>3, <1>4, <1>5

\* The whole keeps everything of its type, the restore's knowledge included.
LEMMA RestoreKeepsTypes ==
    ServerTypeOK /\ StagesInOrder /\ RestoreInOrder /\ [RestoreNext]_allVars
        => ServerTypeOK' /\ StagesInOrder' /\ RestoreInOrder'
<1> SUFFICES ASSUME ServerTypeOK, StagesInOrder, RestoreInOrder, [RestoreNext]_allVars
             PROVE  ServerTypeOK' /\ StagesInOrder' /\ RestoreInOrder'
  OBVIOUS
<1>1. /\ Len(log) \in Nat /\ Len(log') \in Nat /\ Len(log) <= Len(log')
      /\ DOMAIN log = 1..Len(log) /\ DOMAIN log' = 1..Len(log')
      /\ \A i \in DOMAIN log : i \in DOMAIN log' /\ log'[i] = log[i]
  BY LogGrows
<1>2. ServerTypeOK' /\ StagesInOrder'
  <2>1. CASE [Next]_vars
    BY <2>1, NextKeepsServerTypes
  <2>2. CASE SaveRestored \/ CommitRestore \/ Invalidate \/ RestoreFails
    BY <2>2, RestoringKeepsServerTypes
  <2>3. QED
    BY <2>1, <2>2, RestoreSteps DEF Beside, Aborts, Quiet, Next
<1> SUFFICES RestoreInOrder'
  BY <1>2
<1>3. /\ restore \in RestoreRecords(Len(log')) /\ restored \in [seq : 0..Len(log'), doc : Document]
      /\ restores \in 0..MaxRestores /\ restores \in Nat /\ leftover \in BOOLEAN
  <2>1. 0..Len(log) \subseteq 0..Len(log') /\ 0..(Len(log) + 1) \subseteq 0..(Len(log') + 1)
    BY <1>1
  <2>2. RestoreRecords(Len(log)) \subseteq RestoreRecords(Len(log'))
    BY <2>1 DEF RestoreRecords
  <2>3. QED
    BY <2>1, <2>2, MaxRestoresAssumption DEF RestoreInOrder
<1>4. leftover' \in BOOLEAN
  BY <1>3 DEF RestoreNext, RestoreRest, allVars, restoreVars
<1>5. /\ NoRestore \in RestoreRecords(Len(log')) /\ NoRestore.stage = "none"
  BY <1>1, EmptyIsDocument, BoundsAssumption DEF NoRestore, RestoreRecords
<1>6. CASE Beside \/ (Quiet /\ UNCHANGED restoreVars)
  <2>1. UNCHANGED <<restore, restores, restored>>
    BY <1>6 DEF Beside, restoreVars
  <2>2. CounterLocked => log' = log
    BY <1>6 DEF Beside, Quiet, vars
  <2>3. QED
    BY <1>1, <1>3, <1>4, <2>1, <2>2 DEF RestoreInOrder, CounterLocked
<1>7. CASE Aborts
  BY <1>3, <1>4, <1>5, <1>7 DEF Aborts, RestoreInOrder
<1>8. ASSUME NEW w \in Workers, BeginRestore(w) PROVE RestoreInOrder'
  <2>1. log' = log /\ restored' = restored /\ restores' = restores + 1 /\ restores < MaxRestores
    BY <1>8 DEF BeginRestore, vars
  <2>2. PICK n \in DOMAIN log : restore' = [NoRestore EXCEPT !.stage = "snapshot", !.worker = w, !.target = n]
    BY <1>8 DEF BeginRestore
  <2>3. n \in 0..Len(log) /\ w \in 0..NumWorkers
    BY <1>1, BoundsAssumption DEF Workers
  <2>4. restore' \in RestoreRecords(Len(log)) /\ restore'.stage = "snapshot" /\ restore'.target = n
    BY <1>5, <2>1, <2>2, <2>3 DEF RestoreRecords
  <2>5. restores' \in 0..MaxRestores
    BY <1>3, <2>1, MaxRestoresAssumption
  <2>6. QED
    BY <1>3, <1>4, <2>1, <2>4, <2>5 DEF RestoreInOrder
<1>9. CASE ReadSnapshotBefore
  <2> DEFINE snap == SnapshotBefore(restore.target)
  <2>1. /\ log' = log /\ restored' = restored /\ restores' = restores
        /\ restore' = [restore EXCEPT !.stage = IF snap.seq < restore.target THEN "range" ELSE "append",
                                      !.seq = snap.seq, !.doc = snap.doc]
    BY <1>9 DEF ReadSnapshotBefore, vars
  <2>2. restore.target \in DOMAIN log /\ restore.target \in Nat
    BY <1>1, <1>9 DEF ReadSnapshotBefore, RestoreInOrder
  <2>3. snap.seq \in 0..(Len(log) + 1) /\ snap.doc \in Document
    BY <2>2, SnapshotBeforeIs
  <2> HIDE DEF snap
  <2>4. /\ restore' \in RestoreRecords(Len(log)) /\ restore'.stage \in {"range", "append"}
        /\ restore'.target = restore.target /\ restore'.stage = "range" => restore'.seq < restore'.target
    BY <1>3, <2>1, <2>3 DEF RestoreRecords
  <2>5. QED
    BY <1>3, <1>4, <2>1, <2>2, <2>4 DEF RestoreInOrder
<1>10. CASE ReadRange
  <2> DEFINE d == ReplayFrom(restore.doc, StoredInRange(restore.seq + 1, restore.target))
  <2>1. /\ log' = log /\ restored' = restored /\ restores' = restores
        /\ restore' = [restore EXCEPT !.stage = "append", !.doc = d]
    BY <1>10 DEF ReadRange, vars
  <2>2. /\ restore.target \in DOMAIN log /\ restore.target \in Nat /\ restore.seq \in 0..restore.target
        /\ restore.doc \in Document
    BY <1>1, <1>10 DEF ReadRange, RestoreInOrder, RestoreRecords
  <2>3. d \in Document
    BY <2>2, RangeIsTyped, ReplayIsDocument
  <2> HIDE DEF d
  <2>4. restore' \in RestoreRecords(Len(log)) /\ restore'.stage = "append" /\ restore'.target = restore.target
    BY <1>3, <2>1, <2>3 DEF RestoreRecords
  <2>5. QED
    BY <1>3, <1>4, <2>1, <2>2, <2>4 DEF RestoreInOrder
<1>11. CASE AppendRollback
  <2>1. /\ log' = log /\ restored' = restored /\ restores' = restores /\ restore.stage = "append"
        /\ restore' = [restore EXCEPT !.stage = "save", !.seq = Len(log) + 1]
    BY <1>11 DEF AppendRollback, vars
  <2>2. Len(log) + 1 \in 0..(Len(log) + 1)
    BY <1>1
  <2>3. /\ restore' \in RestoreRecords(Len(log)) /\ restore'.stage = "save" /\ restore'.target = restore.target
        /\ restore'.seq = Len(log) + 1
    BY <1>3, <2>1, <2>2 DEF RestoreRecords
  <2>4. QED
    BY <1>3, <1>4, <2>1, <2>3 DEF RestoreInOrder
<1>12. CASE SaveRestored
  <2>1. /\ log' = log /\ restored' = restored /\ restores' = restores /\ restore.stage = "save"
        /\ restore' = [restore EXCEPT !.stage = "commit"]
    BY <1>12 DEF SaveRestored
  <2>2. restore' \in RestoreRecords(Len(log)) /\ restore'.stage = "commit" /\ restore'.target = restore.target
        /\ restore'.seq = restore.seq
    BY <1>3, <2>1 DEF RestoreRecords
  <2>3. QED
    BY <1>3, <1>4, <2>1, <2>2 DEF RestoreInOrder
<1>13. CASE CommitRestore
  <2>1. /\ restored' = [seq |-> restore.seq, doc |-> restore.doc] /\ restores' = restores
        /\ restore.stage = "commit" /\ restore' = [restore EXCEPT !.stage = "invalidate"]
    BY <1>13 DEF CommitRestore
  <2>2. Len(log') = Len(log) + 1
    BY <1>13 DEF CommitRestore, ServerTypeOK
  <2>3. restore.seq \in DOMAIN log' /\ restore.seq \in 0..Len(log') /\ restore.doc \in Document
    BY <1>1, <1>3, <2>1, <2>2 DEF RestoreInOrder, RestoreRecords
  <2>4. restore' \in RestoreRecords(Len(log')) /\ restore'.stage = "invalidate" /\ restore'.target = restore.target
        /\ restore'.seq = restore.seq
    BY <1>3, <2>1 DEF RestoreRecords
  <2>5. restore.target \in DOMAIN log'
    BY <1>1, <2>1 DEF RestoreInOrder
  <2>6. QED
    BY <1>3, <1>4, <2>1, <2>3, <2>4, <2>5 DEF RestoreInOrder
<1>14. CASE Invalidate
  BY <1>3, <1>4, <1>5, <1>14 DEF Invalidate, RestoreInOrder
<1>15. \/ Beside \/ Aborts \/ SaveRestored \/ CommitRestore \/ Invalidate
       \/ \E w \in Workers : BeginRestore(w)
       \/ ReadSnapshotBefore \/ ReadRange \/ AppendRollback
       \/ (Quiet /\ UNCHANGED restoreVars)
  BY RestoreSteps, Zenon
<1>16. QED
  BY <1>6, <1>7, <1>8, <1>9, <1>10, <1>11, <1>12, <1>13, <1>14, <1>15, Zenon

\* Nothing is being restored, or has been.
LEMMA InitRestoreInOrder == RestoreInit => ServerTypeOK /\ StagesInOrder /\ RestoreInOrder
<1> SUFFICES ASSUME RestoreInit PROVE ServerTypeOK /\ StagesInOrder /\ RestoreInOrder
  OBVIOUS
<1>1. ServerTypeOK /\ StagesInOrder
  BY InitServerTypes DEF RestoreInit
<1>2. Len(log) \in Nat
  BY <1>1, TypeParts
<1>3. NoRestore \in RestoreRecords(Len(log)) /\ NoRestore.stage = "none"
  BY <1>2, EmptyIsDocument, BoundsAssumption DEF NoRestore, RestoreRecords
<1>4. NoSnapshot \in [seq : 0..Len(log), doc : Document]
  BY <1>2, EmptyIsDocument DEF NoSnapshot
<1>5. restores = 0 /\ restores \in 0..MaxRestores /\ leftover \in BOOLEAN
  <2>1. restores = 0 /\ restores \in 0..MaxRestores
    BY MaxRestoresAssumption DEF RestoreInit
  <2>2. leftover \in BOOLEAN
    BY Zenon DEF RestoreInit
  <2>3. QED
    BY <2>1, <2>2
<1>6. restore = NoRestore /\ restored = NoSnapshot
  BY DEF RestoreInit
<1>7. QED
  BY <1>1, <1>3, <1>4, <1>5, <1>6 DEF RestoreInOrder

\* Whatever goes on beside restores, and wherever they fail: a restore is of a
\* revision in the table, and rows, snapshots and the documents in them are of
\* their types, a snapshot being at most one seq ahead of the table
\* (restoreToRevision's two connections).
THEOREM RestoreTypeCorrect == RestoreSpec => []RestoreTypeOK
<1>1. RestoreSpec => [](ServerTypeOK /\ StagesInOrder /\ RestoreInOrder)
  BY InitRestoreInOrder, RestoreKeepsTypes, PTL DEF RestoreSpec
<1>2. ServerTypeOK /\ StagesInOrder /\ RestoreInOrder => RestoreTypeOK
  BY DEF ServerTypeOK, RestoreInOrder, RestoreTypeOK, RestoreRecords
<1>3. QED
  BY <1>1, <1>2, PTL

-----------------------------------------------------------------------------
(* Revisions.                                                              *)

\* What one row makes of the revisions so far.
NextRevision(revs, row) ==
    Append(revs, IF row.op.type = "ROLLBACK" THEN revs[row.op.target]
                 ELSE Apply(IF revs = << >> THEN EmptyDoc ELSE Last(revs), row.op))

\* Revisions, of any table.
RevisionsOf(lg) == FoldLeft(NextRevision, << >>, lg)

\* The document as of seq k, the empty one before the first row.
Revision(lg, k) == IF k = 0 THEN EmptyDoc ELSE RevisionsOf(lg)[k]

IsTable(lg) == Len(lg) \in Nat /\ DOMAIN lg = 1..Len(lg)

\* Rows are operations, and those of restores name earlier rows.
RowsInOrder(lg) ==
    /\ IsTable(lg)
    /\ \A k \in 1..Len(lg) : /\ lg[k].op \in Operation
                             /\ lg[k].op.type = "ROLLBACK" => lg[k].op.target \in 1..(k - 1)

\* The two names agree.
LEMMA RevisionsAgree == Revisions = RevisionsOf(log)
BY DEF Revisions, RevisionsOf, NextRevision

\* The rows are taken in one after the other.
LEMMA RevisionsFold ==
    ASSUME NEW lg, IsTable(lg)
    PROVE  \E f : /\ f[0] = << >> /\ f[Len(lg)] = RevisionsOf(lg)
                  /\ \A k \in 1..Len(lg) : f[k] = NextRevision(f[k - 1], lg[k])
<1> DEFINE D == 1..Len(lg)
           Upto(k) == {t \in SUBSET D : Cardinality(t) <= k}
           Step(G, t) == IF t = {} THEN << >> ELSE NextRevision(G[t \ {Max(t)}], lg[Max(t)])
           IsIter(G) == G = [t \in SUBSET D |->
                                IF t = {} THEN << >> ELSE NextRevision(G[t \ {Max(t)}], lg[Max(t)])]
           Folds(G, k) == \A t \in Upto(k) : G[t] = Step(G, t)
           P == {k \in Nat : \E G : Folds(G, k)}
<1>1. Len(lg) \in Nat /\ DOMAIN lg = D /\ IsFiniteSet(D) /\ Cardinality(D) = Len(lg)
  <2>1. Len(lg) \in Nat /\ Len(lg) \in Int /\ 1 \in Int /\ DOMAIN lg = 1..Len(lg)
    BY DEF IsTable
  <2>2. IsFiniteSet(1..Len(lg)) /\ Cardinality(1..Len(lg)) = IF 1 > Len(lg) THEN 0 ELSE Len(lg) - 1 + 1
    BY <2>1, FS_Interval
  <2>3. QED
    BY <2>1, <2>2
<1>2. RevisionsOf(lg) = (CHOOSE G : IsIter(G))[D]
  BY <1>1, Zenon DEF RevisionsOf, FoldLeft, MapThenFoldSet
<1> HIDE DEF D, IsIter, Upto, Step, Folds, P
<1>3. \A t \in SUBSET D : IsFiniteSet(t) /\ Cardinality(t) \in Nat /\ Cardinality(t) <= Len(lg)
  BY <1>1, FS_Subset, FS_CardinalityType
<1>4. ASSUME NEW t \in SUBSET D, t # {}
      PROVE  /\ Max(t) \in t /\ t \ {Max(t)} \in SUBSET D
             /\ Cardinality(t \ {Max(t)}) = Cardinality(t) - 1
  <2>1. Max(t) \in t
    BY <1>1, <1>4, MaxOfSet DEF D
  <2>2. QED
    BY <1>3, <2>1, FS_RemoveElement
<1>5. 0 \in P
  <2>1. ASSUME NEW t \in Upto(0) PROVE t = {}
    <3>1. IsFiniteSet(t) /\ Cardinality(t) \in Nat /\ Cardinality(t) <= 0
      BY <1>3 DEF Upto
    <3>2. QED
      BY <3>1, FS_EmptySet
  <2> DEFINE G == [t \in Upto(0) |-> << >>]
  <2>2. Folds(G, 0)
    BY <2>1 DEF Folds, Step
  <2> HIDE DEF G
  <2>3. QED
    BY <2>2 DEF P
<1>6. ASSUME NEW k \in P PROVE k + 1 \in P
  <2>1. k \in Nat /\ k + 1 \in Nat
    BY DEF P
  <2>2. PICK G : Folds(G, k)
    BY DEF P
  <2> DEFINE H == [t \in Upto(k + 1) |-> Step(G, t)]
  <2>3. \A t \in Upto(k) : t \in Upto(k + 1)
    BY <1>3, <2>1 DEF Upto
  <2>4. \A t \in Upto(k) : H[t] = G[t]
    BY <2>2, <2>3 DEF Folds
  <2>5. ASSUME NEW t \in Upto(k + 1), t # {} PROVE t \ {Max(t)} \in Upto(k)
    BY <1>3, <1>4, <2>1, <2>5 DEF Upto
  <2>6. \A t \in Upto(k + 1) : H[t] = Step(G, t)
    OBVIOUS
  <2> HIDE DEF H
  <2>7. ASSUME NEW t \in Upto(k + 1) PROVE H[t] = Step(H, t)
    <3>1. t # {} => H[t \ {Max(t)}] = G[t \ {Max(t)}]
      BY <2>4, <2>5
    <3>2. Step(H, t) = Step(G, t)
      BY <3>1 DEF Step
    <3>3. QED
      BY <2>6, <3>2
  <2>8. Folds(H, k + 1)
    BY <2>7 DEF Folds
  <2>9. QED
    BY <2>1, <2>8 DEF P
<1>7. P = Nat
  <2>1. P \in SUBSET Nat
    BY DEF P
  <2>2. QED
    BY <1>5, <1>6, <2>1, NatSetInduction
<1>8. PICK G0 : Folds(G0, Len(lg))
  BY <1>1, <1>7 DEF P
<1> DEFINE G1 == [t \in SUBSET D |-> G0[t]]
           G == CHOOSE G : IsIter(G)
           f == [k \in 0..Len(lg) |-> G[1..k]]
<1>9. IsIter(G1)
  <2>1. \A t \in SUBSET D : t \in Upto(Len(lg))
    BY <1>3 DEF Upto
  <2>2. \A t \in SUBSET D : G1[t] = Step(G0, t)
    BY <1>8, <2>1 DEF Folds
  <2>3. \A t \in SUBSET D : t # {} => G1[t \ {Max(t)}] = G0[t \ {Max(t)}]
    BY <1>4
  <2>4. \A t \in SUBSET D : G1[t] = IF t = {} THEN << >> ELSE NextRevision(G1[t \ {Max(t)}], lg[Max(t)])
    BY <2>2, <2>3 DEF Step
  <2>5. DOMAIN G1 = SUBSET D /\ G1 = [t \in SUBSET D |-> G1[t]]
    OBVIOUS
  <2> HIDE DEF G1
  <2>6. QED
    BY <2>4, <2>5 DEF IsIter
<1>10. IsIter(G)
  BY <1>9, Zenon
<1>11. \A t \in SUBSET D : G[t] = IF t = {} THEN << >> ELSE NextRevision(G[t \ {Max(t)}], lg[Max(t)])
  <2> HIDE DEF G
  <2>1. QED
    BY <1>10, Zenon DEF IsIter
<1> HIDE DEF G
<1>12. \A k \in 0..Len(lg) : f[k] = G[1..k] /\ 1..k \in SUBSET D
  BY <1>1 DEF D
<1> HIDE DEF f
<1>13. f[0] = << >>
  <2>1. 0 \in 0..Len(lg) /\ 1..0 = {}
    BY <1>1
  <2>2. G[{}] = << >>
    BY <1>11
  <2>3. QED
    BY <1>12, <2>1, <2>2
<1>14. ASSUME NEW k \in 1..Len(lg) PROVE f[k] = NextRevision(f[k - 1], lg[k])
  <2>1. k \in Nat /\ k # 0 /\ k \in 0..Len(lg) /\ k - 1 \in 0..Len(lg) /\ k \in 1..k
    BY <1>1
  <2>2. Max(1..k) = k /\ (1..k) \ {k} = 1..(k - 1) /\ 1..k # {}
    BY <2>1, MaxOfPrefix
  <2>3. G[1..k] = NextRevision(G[(1..k) \ {Max(1..k)}], lg[Max(1..k)])
    BY <1>11, <1>12, <2>1, <2>2, Zenon
  <2>4. QED
    BY <1>12, <2>1, <2>2, <2>3
<1>15. f[Len(lg)] = RevisionsOf(lg)
  <2>1. Len(lg) \in 0..Len(lg)
    BY <1>1
  <2>2. QED
    BY <1>2, <1>12, <2>1 DEF G, D
<1>16. QED
  BY <1>13, <1>14, <1>15

\* Every revision is the one before it with the row applied, or that of the
\* row's target.
LEMMA RevisionsAre ==
    ASSUME NEW lg, RowsInOrder(lg)
    PROVE  /\ RevisionsOf(lg) \in Seq(Document) /\ Len(RevisionsOf(lg)) = Len(lg)
           /\ \A k \in 0..Len(lg) : Revision(lg, k) \in Document
           /\ Revision(lg, 0) = EmptyDoc
           /\ \A k \in 1..Len(lg) :
                 Revision(lg, k) = IF lg[k].op.type = "ROLLBACK" THEN Revision(lg, lg[k].op.target)
                                   ELSE Apply(Revision(lg, k - 1), lg[k].op)
<1>1. IsTable(lg) /\ Len(lg) \in Nat
  BY DEF RowsInOrder, IsTable
<1>2. PICK f : /\ f[0] = << >> /\ f[Len(lg)] = RevisionsOf(lg)
               /\ \A k \in 1..Len(lg) : f[k] = NextRevision(f[k - 1], lg[k])
  BY <1>1, RevisionsFold
<1> DEFINE before(k, j) == IF j = 0 THEN EmptyDoc ELSE f[k][j]
           Good(k) == /\ f[k] \in Seq(Document) /\ Len(f[k]) = k
                      /\ \A j \in 1..k :
                            f[k][j] = IF lg[j].op.type = "ROLLBACK" THEN before(k, lg[j].op.target)
                                      ELSE Apply(before(k, j - 1), lg[j].op)
           P == {k \in Nat : k <= Len(lg) => Good(k)}
<1>3. Good(0)
  <2>1. f[0] \in Seq(Document) /\ Len(f[0]) = 0 /\ 1..0 = {}
    BY <1>2
  <2>2. QED
    BY <2>1
<1> HIDE DEF Good
<1>4. ASSUME NEW k \in P PROVE k + 1 \in P
  <2> SUFFICES ASSUME k + 1 <= Len(lg) PROVE Good(k + 1)
    OBVIOUS
  <2> USE DEF Good
  <2> DEFINE op == lg[k + 1].op
             d == IF op.type = "ROLLBACK" THEN f[k][op.target]
                  ELSE Apply(IF f[k] = << >> THEN EmptyDoc ELSE Last(f[k]), op)
  <2>1. k \in Nat /\ k + 1 \in 1..Len(lg) /\ (k + 1) - 1 = k /\ Good(k)
    BY <1>1
  <2>2. op \in Operation /\ (op.type = "ROLLBACK" => op.target \in 1..k)
    BY <2>1 DEF RowsInOrder
  <2>3. f[k + 1] = Append(f[k], d)
    BY <1>2, <2>1 DEF NextRevision
  <2>4. op.type # "ROLLBACK" => d = Apply(before(k, k), op)
    <3>1. CASE k = 0
      BY <2>1, <3>1
    <3>2. CASE k # 0
      <4>1. f[k] # << >> /\ Last(f[k]) = f[k][k]
        BY <2>1, <3>2 DEF Last
      <4>2. QED
        BY <3>2, <4>1
    <3>3. QED
      BY <3>1, <3>2
  <2>5. before(k, k) \in Document
    BY <2>1, EmptyIsDocument
  <2>6. d \in Document
    BY <2>1, <2>2, <2>4, <2>5, ApplyIsDocument
  <2> HIDE DEF P, d, op
  <2>7. /\ f[k + 1] \in Seq(Document) /\ Len(f[k + 1]) = k + 1 /\ f[k + 1][k + 1] = d
        /\ \A j \in 1..k : f[k + 1][j] = f[k][j]
    BY <2>1, <2>3, <2>6
  <2>8. \A j \in 0..k : before(k + 1, j) = before(k, j)
    BY <2>1, <2>7
  <2>9. ASSUME NEW j \in 1..(k + 1)
        PROVE  f[k + 1][j] = IF lg[j].op.type = "ROLLBACK" THEN before(k + 1, lg[j].op.target)
                             ELSE Apply(before(k + 1, j - 1), lg[j].op)
    <3>1. CASE j = k + 1
      <4>1. op.type = "ROLLBACK" => d = before(k, op.target) /\ op.target \in 0..k
        BY <2>1, <2>2 DEF d
      <4>2. k \in 0..k
        BY <2>1
      <4>3. d = IF op.type = "ROLLBACK" THEN before(k + 1, op.target) ELSE Apply(before(k + 1, k), op)
        BY <2>4, <2>8, <4>1, <4>2
      <4>4. QED
        BY <2>1, <2>7, <3>1, <4>3 DEF op
    <3>2. CASE j # k + 1
      <4>1. j \in 1..k /\ j - 1 \in 0..k /\ j \in 1..Len(lg)
        BY <1>1, <2>1, <3>2
      <4>2. lg[j].op.type = "ROLLBACK" => lg[j].op.target \in 0..k
        BY <2>1, <4>1 DEF RowsInOrder
      <4>3. QED
        BY <2>1, <2>7, <2>8, <4>1, <4>2
    <3>3. QED
      BY <3>1, <3>2
  <2>10. QED
    BY <2>7, <2>9
<1>5. P = Nat
  <2>1. P \in SUBSET Nat
    OBVIOUS
  <2>2. 0 \in P
    BY <1>3
  <2> HIDE DEF P
  <2>3. QED
    BY <2>2, <1>4, <2>1, NatSetInduction
<1>6. Good(Len(lg))
  BY <1>1, <1>5
<1> USE DEF Good
<1>7. \A j \in Nat : before(Len(lg), j) = Revision(lg, j)
  BY <1>2 DEF Revision
<1>8. \A k \in 0..Len(lg) : Revision(lg, k) \in Document
  BY <1>1, <1>2, <1>6, EmptyIsDocument DEF Revision
<1>9. ASSUME NEW k \in 1..Len(lg)
      PROVE  Revision(lg, k) = IF lg[k].op.type = "ROLLBACK" THEN Revision(lg, lg[k].op.target)
                               ELSE Apply(Revision(lg, k - 1), lg[k].op)
  <2>1. k \in Nat /\ k - 1 \in Nat /\ k # 0
    BY <1>1
  <2>2. lg[k].op.type = "ROLLBACK" => lg[k].op.target \in Nat
    BY <2>1 DEF RowsInOrder
  <2> HIDE DEF before
  <2>3. f[Len(lg)][k] = Revision(lg, k)
    BY <1>2, <2>1 DEF Revision
  <2>4. QED
    BY <1>6, <1>7, <2>1, <2>2, <2>3
<1>10. QED
  BY <1>2, <1>6, <1>8, <1>9 DEF Revision

\* Rows that come later leave the revisions as they are.
LEMMA RevisionsExtend ==
    ASSUME NEW lg, RowsInOrder(lg), NEW more, RowsInOrder(more), Len(lg) <= Len(more),
           \A i \in 1..Len(lg) : more[i] = lg[i]
    PROVE  \A k \in 0..Len(lg) : Revision(more, k) = Revision(lg, k)
<1> DEFINE P == {k \in Nat : \A j \in 0..k : j <= Len(lg) => Revision(more, j) = Revision(lg, j)}
<1>1. Len(lg) \in Nat /\ Len(more) \in Nat
  BY DEF RowsInOrder, IsTable
<1>2. 0 \in P
  BY DEF Revision
<1>3. ASSUME NEW k \in P PROVE k + 1 \in P
  <2>1. k \in Nat /\ k + 1 \in Nat /\ k \in 0..k
    OBVIOUS
  <2>2. \A j \in 0..k : j <= Len(lg) => Revision(more, j) = Revision(lg, j)
    OBVIOUS
  <2>3. ASSUME k + 1 <= Len(lg) PROVE Revision(more, k + 1) = Revision(lg, k + 1)
    <3>1. k + 1 \in 1..Len(lg) /\ k + 1 \in 1..Len(more) /\ (k + 1) - 1 = k /\ k <= Len(lg)
      BY <1>1, <2>1, <2>3
    <3>2. more[k + 1] = lg[k + 1]
      BY <3>1
    <3>3. lg[k + 1].op.type = "ROLLBACK" => lg[k + 1].op.target \in 0..k /\ lg[k + 1].op.target <= Len(lg)
      BY <1>1, <2>1, <3>1 DEF RowsInOrder
    <3>4. /\ Revision(lg, k + 1) = IF lg[k + 1].op.type = "ROLLBACK" THEN Revision(lg, lg[k + 1].op.target)
                                   ELSE Apply(Revision(lg, k), lg[k + 1].op)
          /\ Revision(more, k + 1) = IF lg[k + 1].op.type = "ROLLBACK" THEN Revision(more, lg[k + 1].op.target)
                                     ELSE Apply(Revision(more, k), lg[k + 1].op)
      BY <3>1, <3>2, RevisionsAre
    <3>5. QED
      BY <2>1, <2>2, <3>1, <3>3, <3>4
  <2> HIDE DEF P
  <2>4. \A j \in 0..(k + 1) : j <= Len(lg) => Revision(more, j) = Revision(lg, j)
    <3>1. \A j \in 0..(k + 1) : j \in 0..k \/ j = k + 1
      BY <2>1
    <3>2. QED
      BY <2>2, <2>3, <3>1
  <2>5. QED
    BY <2>1, <2>4 DEF P
<1>4. P = Nat
  <2>1. P \in SUBSET Nat
    OBVIOUS
  <2> HIDE DEF P
  <2>2. QED
    BY <1>2, <1>3, <2>1, NatSetInduction
<1>5. QED
  BY <1>1, <1>4

\* What takes in the operations one by one ends where the replay does.
LEMMA ReplayedStepwise ==
    ASSUME NEW d \in Document, NEW ops \in Seq(Operation), NEW h, Replays(h, d, ops)
    PROVE  ReplayFrom(d, ops) = h[Len(ops)]
<1>1. PICK f : Replays(f, d, ops) /\ f[Len(ops)] = ReplayFrom(d, ops)
  BY ReplaySteps
<1>2. Len(ops) \in Nat /\ Len(ops) \in 0..Len(ops)
  OBVIOUS
<1>3. \A k \in 0..Len(ops) : f[k] = h[k]
  BY <1>1, <1>2, ReplaysAreOne
<1>4. QED
  BY <1>1, <1>2, <1>3

\* Between two revisions with no rollback behind the first, the rows replay
\* the one to the other (reconstructAtSeq).
LEMMA ReplayRevisions ==
    ASSUME NEW lg, RowsInOrder(lg), NEW n \in 0..Len(lg), NEW m \in 0..n,
           NEW ops \in Seq(Operation), Len(ops) = n - m,
           \A i \in 1..(n - m) : ops[i] = lg[m + i].op /\ lg[m + i].op.type # "ROLLBACK"
    PROVE  ReplayFrom(Revision(lg, m), ops) = Revision(lg, n)
<1> DEFINE h == [k \in 0..(n - m) |-> Revision(lg, m + k)]
<1>1. /\ Len(lg) \in Nat /\ n \in Nat /\ m \in Nat /\ n - m \in Nat /\ m + 0 = m /\ m + (n - m) = n
      /\ 0 \in 0..(n - m) /\ n - m \in 0..(n - m) /\ m \in 0..Len(lg)
  BY DEF RowsInOrder, IsTable
<1>2. Revision(lg, m) \in Document
  BY <1>1, RevisionsAre
<1>4. DOMAIN h = 0..(n - m) /\ \A k \in 0..(n - m) : h[k] = Revision(lg, m + k)
  OBVIOUS
<1> HIDE DEF h
<1>5. ASSUME NEW k \in 1..(n - m) PROVE h[k] = Apply(h[k - 1], ops[k])
  <2>1. k \in 0..(n - m) /\ k - 1 \in 0..(n - m) /\ m + k \in 1..Len(lg) /\ (m + k) - 1 = m + (k - 1)
    BY <1>1
  <2>2. Revision(lg, m + k) = Apply(Revision(lg, (m + k) - 1), lg[m + k].op)
    BY <2>1, RevisionsAre
  <2>3. h[k] = Revision(lg, m + k) /\ h[k - 1] = Revision(lg, m + (k - 1)) /\ ops[k] = lg[m + k].op
    BY <1>4, <2>1
  <2>4. QED
    BY <2>1, <2>2, <2>3
<1>6. h[0] = Revision(lg, m)
  BY <1>1, <1>4
<1>7. Replays(h, Revision(lg, m), ops)
  BY <1>4, <1>5, <1>6 DEF Replays
<1>8. ReplayFrom(Revision(lg, m), ops) = h[Len(ops)]
  BY <1>2, <1>7, ReplayedStepwise
<1>9. QED
  BY <1>1, <1>4, <1>8

-----------------------------------------------------------------------------
(* What restores leave in the table and in the snapshots.                  *)

\* No handler stores a ROLLBACK, and a restore stores one that looks back.
RollbacksLookBack ==
    /\ RowsInOrder(log)
    /\ \A s \in Sessions : hand[s].op.type # "ROLLBACK"

\* While there was no compaction and no restore failed between its two writes:
\* the snapshots are those of the rollbacks, each the document it brought back,
\* and that of the restore that is about to commit; and what a restore has read
\* is the revision it will bring back.
SnapshotsOfRollbacks ==
    /\ tasks = {}
    /\ \A snap \in snapshots :
          \/ /\ snap.seq \in 1..Len(log) /\ log[snap.seq].op.type = "ROLLBACK"
             /\ snap.doc = Revision(log, snap.seq)
          \/ /\ restore.stage = "commit"
             /\ snap.seq = restore.seq /\ snap.doc = restore.doc
    /\ \A k \in 1..Len(log) : log[k].op.type = "ROLLBACK" => \E snap \in snapshots : snap.seq = k
    /\ restore.stage = "commit" => \E snap \in snapshots : snap.seq = restore.seq
    /\ restore.stage = "range" =>
          /\ restore.doc = Revision(log, restore.seq)
          /\ \A k \in (restore.seq + 1)..restore.target : log[k].op.type # "ROLLBACK"
    /\ restore.stage \in {"append", "save", "commit"} => restore.doc = Revision(log, restore.target)

History == due = 0 /\ ~leftover => SnapshotsOfRollbacks

\* The snapshot a revision is rebuilt from is that of the last rollback before
\* it, or none was restored yet.
LEMMA BeforeIsRevision ==
    ASSUME ServerTypeOK, RestoreInOrder, RollbacksLookBack, SnapshotsOfRollbacks, NEW n \in DOMAIN log
    PROVE  /\ SnapshotBefore(n).seq \in 0..n
           /\ SnapshotBefore(n).doc = Revision(log, SnapshotBefore(n).seq)
           /\ \A k \in (SnapshotBefore(n).seq + 1)..n : log[k].op.type # "ROLLBACK"
<1> DEFINE snap == SnapshotBefore(n)
<1>1. Len(log) \in Nat /\ DOMAIN log = 1..Len(log) /\ n \in 1..Len(log) /\ n \in Nat
  BY TypeParts
<1>2. /\ snap.seq \in 0..n
      /\ snap = NoSnapshot \/ snap \in snapshots
      /\ \A other \in snapshots : other.seq <= n => other.seq <= snap.seq
  BY <1>1, SnapshotBeforeIs
<1> HIDE DEF snap
<1>3. snap.doc = Revision(log, snap.seq)
  <2>1. CASE snap = NoSnapshot
    BY <2>1 DEF NoSnapshot, Revision
  <2>2. CASE snap \in snapshots
    <3>1. restore.stage = "commit" => snap.seq # restore.seq
      BY <1>1, <1>2 DEF RestoreInOrder
    <3>2. QED
      BY <2>2, <3>1 DEF SnapshotsOfRollbacks
  <2>3. QED
    BY <1>2, <2>1, <2>2
<1>4. ASSUME NEW k \in (snap.seq + 1)..n, log[k].op.type = "ROLLBACK" PROVE FALSE
  <2>1. k \in 1..Len(log) /\ k <= n /\ ~(k <= snap.seq)
    BY <1>1, <1>2
  <2>2. PICK other \in snapshots : other.seq = k
    BY <1>4, <2>1 DEF SnapshotsOfRollbacks
  <2>3. QED
    BY <1>2, <2>1, <2>2
<1>5. QED
  BY <1>2, <1>3, <1>4 DEF snap

\* Rebuilding a revision gives it back (reconstructAtSeq).
LEMMA ReconstructIsRevision ==
    ASSUME ServerTypeOK, RestoreInOrder, RollbacksLookBack, SnapshotsOfRollbacks, NEW n \in DOMAIN log
    PROVE  Reconstruct(n) = Revision(log, n)
<1> DEFINE m == SnapshotBefore(n).seq
           ops == StoredInRange(m + 1, n)
<1>1. /\ m \in 0..n /\ SnapshotBefore(n).doc = Revision(log, m)
      /\ \A k \in (m + 1)..n : log[k].op.type # "ROLLBACK"
  BY BeforeIsRevision
<1>2. Len(log) \in Nat /\ DOMAIN log = 1..Len(log) /\ n \in 0..Len(log) /\ n \in Nat
  BY TypeParts
<1>3. Reconstruct(n) = ReplayFrom(Revision(log, m), ops)
  BY <1>1, Zenon DEF Reconstruct, m, ops
<1> HIDE DEF m
<1>4. ops \in Seq(Operation) /\ Len(ops) = n - m /\ \A i \in 1..(n - m) : ops[i] = log[m + i].op
  BY <1>1, RangeIsTyped
<1> HIDE DEF ops
<1>5. \A i \in 1..(n - m) : log[m + i].op.type # "ROLLBACK"
  <2>1. \A i \in 1..(n - m) : m + i \in (m + 1)..n
    BY <1>1, <1>2
  <2>2. QED
    BY <1>1, <2>1
<1>6. ReplayFrom(Revision(log, m), ops) = Revision(log, n)
  BY <1>1, <1>2, <1>4, <1>5, ReplayRevisions DEF RollbacksLookBack
<1>7. QED
  BY <1>3, <1>6

\* Handlers store what was typed (submitInsert, submitDelete), restores a
\* ROLLBACK of a revision that is in the table (restoreToRevision).
LEMMA RollbacksKeepLookingBack ==
    ASSUME ServerTypeOK, StagesInOrder, RestoreInOrder, RollbacksLookBack, [RestoreNext]_allVars
    PROVE  /\ RollbacksLookBack'
           /\ \A k \in 0..Len(log) : Revision(log', k) = Revision(log, k)
<1>1. /\ Len(log) \in Nat /\ Len(log') \in Nat /\ Len(log) <= Len(log')
      /\ DOMAIN log = 1..Len(log) /\ DOMAIN log' = 1..Len(log')
      /\ \A i \in DOMAIN log : i \in DOMAIN log' /\ log'[i] = log[i]
  BY LogGrows
<1>2. ASSUME NEW s \in Sessions PROVE hand'[s].op.type # "ROLLBACK"
  <2>1. hand[s].op.type # "ROLLBACK"
    BY DEF RollbacksLookBack
  <2>2. CASE UNCHANGED hand
    BY <2>1, <2>2
  <2>3. ASSUME NEW r \in Sessions, Take(r) \/ Refuse(r) PROVE hand'[s].op.type # "ROLLBACK"
    <3>1. PICK n \in seen[r]..Len(channel) : \E op \in Keystrokes(r, n) :
              Sent(r, n, op) /\ (Applies(r, op) \/ Waits(r, op) \/ Refuses)
      BY <2>3, TakenUp
    <3>2. PICK op \in Keystrokes(r, n) : Applies(r, op) \/ Waits(r, op) \/ Refuses
      BY <3>1
    <3>3. op.type # "ROLLBACK"
      BY DEF Keystrokes, InsertOp, DeleteOp
    <3>4. /\ hand \in [Sessions -> HandRecords(0..Len(entries), 0..Len(log))]
      BY DEF ServerTypeOK
    <3>5. ASSUME NEW h, h.op = op, hand' = [hand EXCEPT ![r] = h] PROVE hand'[s].op.type # "ROLLBACK"
      BY <2>1, <3>3, <3>4, <3>5
    <3>6. CASE Applies(r, op)
      BY <3>5, <3>6 DEF Applies
    <3>7. CASE Waits(r, op)
      BY <3>5, <3>7 DEF Waits
    <3>8. CASE Refuses
      BY <2>1, <3>8 DEF Refuses
    <3>9. QED
      BY <3>2, <3>6, <3>7, <3>8
  <2>4. ASSUME NEW r \in Sessions, AppendOperation(r) PROVE hand'[s].op.type # "ROLLBACK"
    <3>1. hand'[s].op = hand[s].op
      BY <2>4, AppendIs
    <3>2. QED
      BY <2>1, <3>1
  <2>5. ASSUME NEW r \in Sessions, Publish(r) \/ HandlerFails(r) PROVE hand'[s].op.type # "ROLLBACK"
    <3>1. hand' = [hand EXCEPT ![r] = Idle] /\ hand \in [Sessions -> HandRecords(0..Len(entries), 0..Len(log))]
      BY <2>5 DEF Publish, HandlerFails, ServerTypeOK
    <3>2. QED
      BY <2>1, <3>1 DEF Idle, NoOp
  <2>6. ASSUME NEW w \in Workers, Resume(w) PROVE hand'[s].op.type # "ROLLBACK"
    <3>1. /\ s \in Waiting(w) => hand'[s].op = hand[s].op
          /\ s \notin Waiting(w) => hand'[s] = hand[s]
      BY <2>6, ResumeIs
    <3>2. QED
      BY <2>1, <3>1
  <2>7. ASSUME NEW w \in Workers, Crash(w) PROVE hand'[s].op.type # "ROLLBACK"
    BY <2>1, <2>7 DEF Crash, Closed, Idle, NoOp
  <2>8. CASE Next
    <3>1. ASSUME NEW t \in tasks, Compact(t) PROVE UNCHANGED hand
      BY <3>1 DEF Compact, Measure, Collect, Save, Prune, CompactionFails
    <3>2. ASSUME NEW w \in Workers, Load(w) \/ Evict(w) PROVE Resume(w) \/ UNCHANGED hand
      BY <3>2 DEF Load, Join, ReadSnapshot, ReadOperations, Evict
    <3>3. CASE Rest
      BY <2>2, <3>3 DEF Rest, vars
    <3>4. CASE \E r \in Sessions : Handle(r)
      <4>1. PICK r \in Sessions : Handle(r)
        BY <3>4
      <4>2. CASE Take(r) \/ Refuse(r)
        BY <2>3, <4>2
      <4>3. CASE AppendOperation(r)
        BY <2>4, <4>3
      <4>4. CASE Publish(r) \/ HandlerFails(r)
        BY <2>5, <4>4
      <4>5. QED
        BY <4>1, <4>2, <4>3, <4>4 DEF Handle
    <3>5. CASE (\E t \in tasks : Compact(t)) \/ Rest
      BY <2>2, <3>1, <3>3, <3>5
    <3>6. CASE \E w \in Workers : Load(w) \/ Evict(w)
      BY <2>2, <2>6, <3>2, <3>6
    <3>7. CASE \E w \in Workers : Crash(w)
      BY <2>7, <3>7
    <3>8. (\E r \in Sessions : Handle(r)) \/ ((\E t \in tasks : Compact(t)) \/ Rest)
          \/ (\E w \in Workers : Load(w) \/ Evict(w)) \/ (\E w \in Workers : Crash(w))
      BY <2>8, Zenon DEF Next
    <3>9. QED
      BY <3>4, <3>5, <3>6, <3>7, <3>8, Zenon
  <2>9. CASE ~Next
    <3>1. UNCHANGED hand \/ \E w \in Workers : Crash(w)
      BY <2>9, RestoreSteps DEF Beside, Aborts, RestoreFails, Quiet, vars, SaveRestored, CommitRestore, Invalidate
    <3>2. QED
      BY <2>2, <2>7, <3>1
  <2>10. QED
    BY <2>8, <2>9
<1>3. ASSUME NEW k \in 1..Len(log'), ~(k \in 1..Len(log))
      PROVE  /\ log'[k].op \in Operation
             /\ log'[k].op.type = "ROLLBACK" => log'[k].op.target \in 1..(k - 1)
  <2>1. CASE log' = log
    BY <1>3, <2>1
  <2>2. ASSUME NEW s \in Sessions, AppendOperation(s)
        PROVE  log'[k].op \in Operation /\ log'[k].op.type # "ROLLBACK"
    <3>1. Len(log') = Len(log) + 1 /\ log'[Len(log) + 1].op = hand[s].op /\ hand[s].op \in Operation
      BY <2>2, AppendIs
    <3>2. k = Len(log) + 1
      BY <1>1, <1>3, <3>1
    <3>3. QED
      BY <3>1, <3>2 DEF RollbacksLookBack
  <2>3. CASE CommitRestore
    <3> DEFINE op == [type |-> "ROLLBACK", uid |-> Root, target |-> restore.target]
    <3>1. log' = Append(log, [session |-> 0, op |-> op]) /\ log \in Seq([session : Sessions \cup {0}, op : Operation])
      BY <2>3 DEF CommitRestore, ServerTypeOK
    <3>2. restore.target \in 1..Len(log) /\ restore.target \in Nat
      BY <1>1, <2>3 DEF CommitRestore, RestoreInOrder
    <3>3. op \in Operation /\ op.target = restore.target
      BY <3>2 DEF Operation
    <3> HIDE DEF op
    <3>4. Len(log') = Len(log) + 1 /\ log'[Len(log) + 1].op = op
      BY <3>1
    <3>5. k = Len(log) + 1 /\ k - 1 = Len(log)
      BY <1>1, <1>3, <3>4
    <3>6. QED
      BY <3>2, <3>3, <3>4, <3>5
  <2>4. log' = log \/ CommitRestore \/ \E s \in Sessions : AppendOperation(s)
    <3>1. CASE Beside
      BY <3>1, BesideIs
    <3>2. CASE ~Beside
      BY <3>2, RestoreSteps DEF Quiet, vars, Aborts, Crash, RestoreFails, SaveRestored, Invalidate
    <3>3. QED
      BY <3>1, <3>2
  <2>5. QED
    BY <2>1, <2>2, <2>3, <2>4
<1>4. RowsInOrder(log')
  <2>1. IsTable(log')
    BY <1>1 DEF IsTable
  <2>2. ASSUME NEW k \in 1..Len(log)
        PROVE  /\ log'[k].op \in Operation
               /\ log'[k].op.type = "ROLLBACK" => log'[k].op.target \in 1..(k - 1)
    BY <1>1 DEF RollbacksLookBack, RowsInOrder
  <2>3. QED
    BY <1>3, <2>1, <2>2 DEF RowsInOrder
<1>5. \A k \in 0..Len(log) : Revision(log', k) = Revision(log, k)
  BY <1>1, <1>4, RevisionsExtend DEF RollbacksLookBack
<1>6. QED
  BY <1>2, <1>4, <1>5 DEF RollbacksLookBack

\* Neither ghost goes back, and a restore that ends between its two writes is
\* remembered.
LEMMA NothingForgotten ==
    ASSUME ServerTypeOK, StagesInOrder, [RestoreNext]_allVars, due' = 0, ~leftover'
    PROVE  due = 0 /\ ~leftover /\ (restore.stage = "commit" => restore'.stage # "none")
<1>1. due' = due \/ due' = due + 1
  <2>1. CASE Next
    <3>1. ASSUME NEW s \in Sessions, Handle(s) PROVE due' = due \/ due' = due + 1
      <4>1. CASE Publish(s)
        BY <4>1 DEF Publish, StartCompaction
      <4>2. CASE AppendOperation(s)
        BY <4>2 DEF AppendOperation, boundVars
      <4>3. CASE Take(s)
        BY <4>3 DEF Take, boundVars
      <4>4. CASE Refuse(s) \/ HandlerFails(s)
        BY <4>4 DEF Refuse, HandlerFails
      <4>5. QED
        BY <3>1, <4>1, <4>2, <4>3, <4>4 DEF Handle
    <3>2. ASSUME NEW t \in tasks, Compact(t) PROVE due' = due
      BY <3>2 DEF Compact, Measure, Collect, Save, Prune, CompactionFails, boundVars
    <3>3. ASSUME NEW w \in Workers, Load(w) \/ Evict(w) \/ Crash(w) PROVE due' = due
      BY <3>3 DEF Load, Join, ReadSnapshot, ReadOperations, Resume, Evict, Crash, boundVars
    <3>4. CASE Rest
      BY <3>4 DEF Rest, vars, boundVars
    <3>5. QED
      BY <2>1, <3>1, <3>2, <3>3, <3>4 DEF Next
  <2>2. CASE ~Next
    BY <2>2, RestoreSteps DEF Beside, Aborts, Crash, RestoreFails, Quiet, vars, boundVars,
                              SaveRestored, CommitRestore, Invalidate
  <2>3. QED
    BY <2>1, <2>2
<1>2. due = 0
  BY <1>1 DEF ServerTypeOK
<1>3. CASE UNCHANGED <<restore, leftover>>
  <2>1. ~leftover
    BY <1>3, Zenon
  <2>2. restore.stage = "commit" => restore'.stage # "none"
    BY <1>3
  <2>3. QED
    BY <1>2, <2>1, <2>2
<1>4. CASE leftover' = (leftover \/ LeavesSnapshot)
  <2>1. ~leftover /\ ~LeavesSnapshot
    BY <1>4, Zenon
  <2>2. QED
    BY <1>2, <2>1 DEF LeavesSnapshot
<1>5. UNCHANGED <<restore, leftover>> \/ leftover' = (leftover \/ LeavesSnapshot)
  BY Zenon DEF RestoreNext, RestoreRest, allVars, restoreVars
<1>6. QED
  BY <1>3, <1>4, <1>5

\* With no compaction there is none, and nobody but restores saves snapshots.
LEMMA OnlyRestoresSave ==
    ASSUME ServerTypeOK, StagesInOrder, [RestoreNext]_allVars, tasks = {}, due = 0, due' = 0
    PROVE  tasks' = {} /\ (snapshots' = snapshots \/ SaveRestored)
<1>1. CASE Next
  <2>1. ASSUME NEW s \in Sessions, Handle(s) PROVE tasks' = {} /\ snapshots' = snapshots
    <3>1. CASE Publish(s)
      BY <3>1 DEF Publish, StartCompaction
    <3>2. CASE ~Publish(s)
      BY <2>1, <3>2 DEF Handle, Take, Refuse, AppendOperation, HandlerFails
    <3>3. QED
      BY <3>1, <3>2
  <2>2. ASSUME NEW w \in Workers, Load(w) \/ Evict(w) PROVE tasks' = {} /\ snapshots' = snapshots
    BY <2>2 DEF Load, Join, ReadSnapshot, ReadOperations, Resume, Evict
  <2>3. ASSUME NEW w \in Workers, Crash(w) PROVE tasks' = {} /\ snapshots' = snapshots
    BY <2>3 DEF Crash
  <2>4. CASE Rest
    BY <2>4 DEF Rest, vars
  <2>5. QED
    BY <1>1, <2>1, <2>2, <2>3, <2>4 DEF Next
<1>2. CASE ~Next
  <2>1. CASE Aborts
    BY <2>1 DEF Aborts, Crash, RestoreFails
  <2>2. CASE SaveRestored
    BY <2>2 DEF SaveRestored
  <2>3. CASE Quiet \/ CommitRestore \/ Invalidate
    BY <2>3 DEF Quiet, vars, CommitRestore, Invalidate
  <2>4. QED
    BY <1>2, <2>1, <2>2, <2>3, RestoreSteps DEF Beside
<1>3. QED
  BY <1>1, <1>2

\* What restores leave and what they know stays right while others go on and
\* when a restore ends, and is right after each of its own steps.
LEMMA RestoreKeepsHistory ==
    ServerTypeOK /\ StagesInOrder /\ RestoreInOrder /\ RollbacksLookBack /\ History /\ [RestoreNext]_allVars
        => History'
<1> SUFFICES ASSUME ServerTypeOK, StagesInOrder, RestoreInOrder, RollbacksLookBack, History,
                    [RestoreNext]_allVars, due' = 0, ~leftover'
             PROVE  SnapshotsOfRollbacks'
  BY DEF History
<1>1. SnapshotsOfRollbacks /\ (restore.stage = "commit" => restore'.stage # "none") /\ due = 0
  BY NothingForgotten DEF History
<1>2. /\ Len(log) \in Nat /\ Len(log') \in Nat /\ Len(log) <= Len(log')
      /\ DOMAIN log = 1..Len(log) /\ DOMAIN log' = 1..Len(log')
      /\ \A i \in DOMAIN log : i \in DOMAIN log' /\ log'[i] = log[i]
  BY LogGrows
<1>3. \A k \in 0..Len(log) : Revision(log', k) = Revision(log, k)
  BY RollbacksKeepLookingBack
<1>4. tasks' = {} /\ (snapshots' = snapshots \/ SaveRestored)
  BY <1>1, OnlyRestoresSave DEF SnapshotsOfRollbacks
<1>5. ServerTypeOK' /\ RestoreInOrder'
  BY RestoreKeepsTypes
<1>6. \A k \in 0..Len(log) : Revision(log, k) \in Document
  BY RevisionsAre DEF RollbacksLookBack
<1>7. /\ restore.stage \in {"snapshot", "range", "append", "save", "commit"} => restore.target \in 1..Len(log)
      /\ restore.stage = "range" => restore.seq \in 0..Len(log) /\ restore.seq < restore.target
      /\ restore.stage \in {"save", "commit"} => restore.seq = Len(log) + 1
      /\ \A snap \in snapshots : snap.seq \in Nat
  <2>1. restore.seq \in Nat /\ restore.target \in Nat
    BY <1>2 DEF RestoreInOrder, RestoreRecords
  <2>2. \A snap \in snapshots : snap.seq \in Nat
    BY <1>2, TypeParts
  <2>3. QED
    BY <1>2, <2>1, <2>2 DEF RestoreInOrder
<1>8. ASSUME snapshots' = snapshots, restore' = restore \/ restore' = NoRestore,
             \A k \in 1..Len(log') : k \in 1..Len(log) \/ log'[k].op.type # "ROLLBACK"
      PROVE  SnapshotsOfRollbacks'
  <2>1. restore.stage = "commit" => restore' = restore
    BY <1>1, <1>8 DEF NoRestore
  <2>2. ASSUME NEW snap \in snapshots
        PROVE  \/ /\ snap.seq \in 1..Len(log') /\ log'[snap.seq].op.type = "ROLLBACK"
                  /\ snap.doc = Revision(log', snap.seq)
               \/ /\ restore'.stage = "commit"
                  /\ snap.seq = restore'.seq /\ snap.doc = restore'.doc
    BY <1>1, <1>2, <1>3, <2>1 DEF SnapshotsOfRollbacks
  <2>3. \A k \in 1..Len(log') : log'[k].op.type = "ROLLBACK" => \E snap \in snapshots : snap.seq = k
    BY <1>1, <1>2, <1>8 DEF SnapshotsOfRollbacks
  <2>4. CASE restore' = NoRestore
    BY <1>4, <1>8, <2>2, <2>3, <2>4 DEF SnapshotsOfRollbacks, NoRestore
  <2>5. CASE restore' = restore
    <3>1. restore.stage = "range" =>
              /\ restore.doc = Revision(log', restore.seq)
              /\ \A k \in (restore.seq + 1)..restore.target : log'[k].op.type # "ROLLBACK"
      <4>1. SUFFICES ASSUME restore.stage = "range"
                     PROVE  /\ restore.doc = Revision(log', restore.seq)
                            /\ \A k \in (restore.seq + 1)..restore.target : log'[k].op.type # "ROLLBACK"
        OBVIOUS
      <4>2. \A k \in (restore.seq + 1)..restore.target : k \in 1..Len(log)
        BY <1>2, <1>7, <4>1
      <4>3. QED
        BY <1>1, <1>2, <1>3, <1>7, <4>1, <4>2 DEF SnapshotsOfRollbacks
    <3>2. restore.stage \in {"append", "save", "commit"} => restore.doc = Revision(log', restore.target)
      BY <1>1, <1>2, <1>3, <1>7 DEF SnapshotsOfRollbacks
    <3>3. restore.stage = "commit" => \E snap \in snapshots : snap.seq = restore.seq
      BY <1>1 DEF SnapshotsOfRollbacks
    <3>4. QED
      BY <1>4, <1>8, <2>2, <2>3, <2>5, <3>1, <3>2, <3>3 DEF SnapshotsOfRollbacks
  <2>6. QED
    BY <1>8, <2>4, <2>5
<1>9. CASE Beside
  <2>1. snapshots' = snapshots
    <3>1. restore \in RestoreRecords(Len(log))
      BY DEF RestoreInOrder
    <3>2. ~SaveRestored
      BY <1>9, <3>1 DEF Beside, SaveRestored, RestoreRecords
    <3>3. QED
      BY <1>4, <3>2
  <2>2. restore' = restore
    BY <1>9 DEF Beside
  <2>3. ASSUME NEW k \in 1..Len(log'), ~(k \in 1..Len(log)) PROVE log'[k].op.type # "ROLLBACK"
    <3>1. PICK s \in Sessions : AppendOperation(s)
      BY <1>9, <2>3, BesideIs
    <3>2. Len(log') = Len(log) + 1 /\ log'[Len(log) + 1].op = hand[s].op
      BY <3>1, AppendIs
    <3>3. k = Len(log) + 1
      BY <1>2, <2>3, <3>2
    <3>4. QED
      BY <3>2, <3>3 DEF RollbacksLookBack
  <2>4. QED
    BY <1>8, <2>1, <2>2, <2>3
<1>10. CASE Aborts \/ Invalidate \/ (Quiet /\ UNCHANGED restoreVars)
  <2>1. snapshots' = snapshots /\ log' = log
    BY <1>10 DEF Aborts, Crash, RestoreFails, Invalidate, Quiet, vars
  <2>2. restore' = restore \/ restore' = NoRestore
    BY <1>10 DEF Aborts, Invalidate, restoreVars
  <2>3. QED
    BY <1>8, <2>1, <2>2
<1>11. ASSUME snapshots' = snapshots, log' = log, restore.stage # "commit", restore'.stage # "commit",
              restore'.stage = "range" =>
                 /\ restore'.doc = Revision(log, restore'.seq)
                 /\ \A k \in (restore'.seq + 1)..restore'.target : log[k].op.type # "ROLLBACK",
              restore'.stage \in {"append", "save"} => restore'.doc = Revision(log, restore'.target)
       PROVE  SnapshotsOfRollbacks'
  BY <1>1, <1>4, <1>11 DEF SnapshotsOfRollbacks
<1>12. CASE \E w \in Workers : BeginRestore(w)
  <2>1. snapshots' = snapshots /\ log' = log /\ restore.stage = "none"
    BY <1>12 DEF BeginRestore, vars
  <2>2. restore'.stage = "snapshot"
    BY <1>12 DEF BeginRestore, NoRestore
  <2>3. QED
    BY <1>11, <2>1, <2>2
<1>13. CASE ReadSnapshotBefore
  <2> DEFINE snap == SnapshotBefore(restore.target)
  <2>1. /\ snapshots' = snapshots /\ log' = log /\ restore.stage = "snapshot"
        /\ restore' = [restore EXCEPT !.stage = IF snap.seq < restore.target THEN "range" ELSE "append",
                                      !.seq = snap.seq, !.doc = snap.doc]
    BY <1>13 DEF ReadSnapshotBefore, vars
  <2>2. /\ snap.seq \in 0..restore.target /\ snap.doc = Revision(log, snap.seq)
        /\ \A k \in (snap.seq + 1)..restore.target : log[k].op.type # "ROLLBACK"
    BY <1>1, <1>2, <1>7, <2>1, BeforeIsRevision
  <2> HIDE DEF snap
  <2>3. restore \in RestoreRecords(Len(log))
    BY DEF RestoreInOrder
  <2>4. /\ restore'.seq = snap.seq /\ restore'.doc = snap.doc /\ restore'.target = restore.target
        /\ restore'.stage = IF snap.seq < restore.target THEN "range" ELSE "append"
    BY <2>1, <2>3 DEF RestoreRecords
  <2>5. restore'.stage \in {"range", "append"} /\ (restore'.stage = "append" => snap.seq = restore.target)
    BY <1>2, <1>7, <2>1, <2>2, <2>4
  <2>6. QED
    BY <1>11, <2>1, <2>2, <2>4, <2>5
<1>14. CASE ReadRange
  <2> DEFINE m == restore.seq
             n == restore.target
             ops == StoredInRange(m + 1, n)
  <2>1. /\ snapshots' = snapshots /\ log' = log /\ restore.stage = "range"
        /\ restore' = [restore EXCEPT !.stage = "append", !.doc = ReplayFrom(@, ops)]
    BY <1>14 DEF ReadRange, vars
  <2>2. m \in Nat /\ n \in DOMAIN log /\ n \in 0..Len(log) /\ m \in 0..n
    BY <1>2, <1>7, <2>1
  <2>3. restore.doc = Revision(log, m) /\ \A k \in (m + 1)..n : log[k].op.type # "ROLLBACK"
    BY <1>1, <2>1 DEF SnapshotsOfRollbacks
  <2>4. ops \in Seq(Operation) /\ Len(ops) = n - m /\ \A i \in 1..(n - m) : ops[i] = log[m + i].op
    BY <2>2, RangeIsTyped
  <2>5. restore \in RestoreRecords(Len(log))
    BY DEF RestoreInOrder
  <2>6. restore'.stage = "append" /\ restore'.target = n /\ restore'.doc = ReplayFrom(restore.doc, ops)
    BY <2>1, <2>5 DEF RestoreRecords
  <2> HIDE DEF ops, m, n
  <2>7. \A i \in 1..(n - m) : log[m + i].op.type # "ROLLBACK"
    <3>1. \A i \in 1..(n - m) : m + i \in (m + 1)..n
      BY <1>2, <2>2
    <3>2. QED
      BY <2>3, <3>1
  <2>8. ReplayFrom(Revision(log, m), ops) = Revision(log, n)
    BY <2>2, <2>4, <2>7, ReplayRevisions DEF RollbacksLookBack
  <2>9. QED
    BY <1>11, <2>1, <2>3, <2>6, <2>8
<1>15. CASE AppendRollback
  <2>1. /\ snapshots' = snapshots /\ log' = log /\ restore.stage = "append"
        /\ restore' = [restore EXCEPT !.stage = "save", !.seq = Len(log) + 1]
    BY <1>15 DEF AppendRollback, vars
  <2>2. restore \in RestoreRecords(Len(log))
    BY DEF RestoreInOrder
  <2>3. restore'.stage = "save" /\ restore'.target = restore.target /\ restore'.doc = restore.doc
    BY <2>1, <2>2 DEF RestoreRecords
  <2>4. restore.doc = Revision(log, restore.target)
    BY <1>1, <2>1 DEF SnapshotsOfRollbacks
  <2>5. QED
    BY <1>11, <2>1, <2>3, <2>4
<1>16. CASE SaveRestored
  <2> DEFINE new == [seq |-> restore.seq, doc |-> restore.doc]
  <2>1. restore.stage = "save" /\ log' = log /\ restore' = [restore EXCEPT !.stage = "commit"]
    BY <1>16 DEF SaveRestored
  <2>2. restore \in RestoreRecords(Len(log))
    BY DEF RestoreInOrder
  <2>3. /\ restore'.stage = "commit" /\ restore'.target = restore.target /\ restore'.doc = restore.doc
        /\ restore'.seq = restore.seq
    BY <2>1, <2>2 DEF RestoreRecords
  <2>4. \A snap \in snapshots : snap.seq # restore.seq
    BY <1>1, <1>2, <1>7, <2>1 DEF SnapshotsOfRollbacks
  <2>5. snapshots' = snapshots \cup {new}
    BY <1>16, <2>4 DEF SaveRestored
  <2>6. new.seq = restore.seq /\ new.doc = restore.doc
    OBVIOUS
  <2> HIDE DEF new
  <2>7. \A snap \in snapshots :
           /\ snap.seq \in 1..Len(log) /\ log[snap.seq].op.type = "ROLLBACK"
           /\ snap.doc = Revision(log, snap.seq)
    BY <1>1, <2>1 DEF SnapshotsOfRollbacks
  <2>8. /\ restore.doc = Revision(log, restore.target)
        /\ \A k \in 1..Len(log) : log[k].op.type = "ROLLBACK" => \E snap \in snapshots : snap.seq = k
    BY <1>1, <2>1 DEF SnapshotsOfRollbacks
  <2>9. QED
    BY <1>4, <2>1, <2>3, <2>5, <2>6, <2>7, <2>8 DEF SnapshotsOfRollbacks
<1>17. CASE CommitRestore
  <2> DEFINE row == [session |-> 0, op |-> [type |-> "ROLLBACK", uid |-> Root, target |-> restore.target]]
             l == Len(log) + 1
  <2>1. /\ restore.stage = "commit" /\ restore' = [restore EXCEPT !.stage = "invalidate"]
        /\ log' = Append(log, row) /\ snapshots' = snapshots
        /\ log \in Seq([session : Sessions \cup {0}, op : Operation])
    BY <1>17 DEF CommitRestore, ServerTypeOK
  <2>2. row.op.type = "ROLLBACK" /\ row.op.target = restore.target
    OBVIOUS
  <2> HIDE DEF row
  <2>3. Len(log') = l /\ log'[l] = row /\ l \in 1..Len(log') /\ restore.seq = l /\ restore.target \in 0..Len(log)
    BY <1>2, <1>7, <2>1
  <2>4. restore'.stage = "invalidate"
    BY <2>1 DEF RestoreInOrder, RestoreRecords
  <2>5. Revision(log', l) = Revision(log', restore.target)
    <3>1. RowsInOrder(log')
      BY RollbacksKeepLookingBack DEF RollbacksLookBack
    <3>2. QED
      BY <2>2, <2>3, <3>1, RevisionsAre
  <2>6. restore.doc = Revision(log', l)
    BY <1>1, <1>3, <2>1, <2>3, <2>5 DEF SnapshotsOfRollbacks
  <2>7. ASSUME NEW snap \in snapshots
        PROVE  /\ snap.seq \in 1..Len(log') /\ log'[snap.seq].op.type = "ROLLBACK"
               /\ snap.doc = Revision(log', snap.seq)
    <3>1. CASE snap.seq = restore.seq /\ snap.doc = restore.doc
      BY <2>2, <2>3, <2>6, <3>1
    <3>2. CASE /\ snap.seq \in 1..Len(log) /\ log[snap.seq].op.type = "ROLLBACK"
               /\ snap.doc = Revision(log, snap.seq)
      BY <1>2, <1>3, <3>2
    <3>3. QED
      BY <1>1, <3>1, <3>2 DEF SnapshotsOfRollbacks
  <2>8. ASSUME NEW k \in 1..Len(log'), log'[k].op.type = "ROLLBACK" PROVE \E snap \in snapshots : snap.seq = k
    <3>1. CASE k = l
      BY <1>1, <2>1, <2>3, <3>1 DEF SnapshotsOfRollbacks
    <3>2. CASE k # l
      <4>1. k \in 1..Len(log) /\ log'[k] = log[k]
        BY <1>2, <2>3, <3>2
      <4>2. QED
        BY <1>1, <2>8, <4>1 DEF SnapshotsOfRollbacks
    <3>3. QED
      BY <3>1, <3>2
  <2>9. QED
    BY <1>4, <2>1, <2>4, <2>7, <2>8 DEF SnapshotsOfRollbacks
<1>18. \/ Beside \/ (Aborts \/ Invalidate \/ (Quiet /\ UNCHANGED restoreVars))
       \/ (\E w \in Workers : BeginRestore(w))
       \/ ReadSnapshotBefore \/ ReadRange \/ AppendRollback \/ SaveRestored \/ CommitRestore
  BY RestoreSteps, Zenon
<1>19. QED
  BY <1>9, <1>10, <1>12, <1>13, <1>14, <1>15, <1>16, <1>17, <1>18, Zenon

\* Nothing was restored, and there is nothing to restore from.
LEMMA InitHistory == RestoreInit => RollbacksLookBack /\ History
<1> SUFFICES ASSUME RestoreInit PROVE RollbacksLookBack /\ SnapshotsOfRollbacks
  BY DEF History
<1>1. log = << >> /\ tasks = {} /\ snapshots = {} /\ hand = [s \in Sessions |-> Idle] /\ restore = NoRestore
  BY DEF RestoreInit, Init
<1>2. RowsInOrder(log)
  BY <1>1 DEF RowsInOrder, IsTable
<1>3. QED
  BY <1>1, <1>2 DEF RollbacksLookBack, SnapshotsOfRollbacks, NoRestore, Idle, NoOp

\* While nothing was compacted and no restore failed between its two writes,
\* whatever was typed, restored and lost, every revision can be had as it was,
\* also those between two rollbacks and before one (reconstructAtSeq).
THEOREM RevisionsStay == RestoreSpec => []RevisionIsWhatItWas
<1> DEFINE Inv == ServerTypeOK /\ StagesInOrder /\ RestoreInOrder /\ RollbacksLookBack /\ History
<1>1. RestoreInit => Inv
  BY InitRestoreInOrder, InitHistory
<1>2. Inv /\ [RestoreNext]_allVars => Inv'
  BY RestoreKeepsTypes, RollbacksKeepLookingBack, RestoreKeepsHistory
<1>3. Inv => RevisionIsWhatItWas
  <2> SUFFICES ASSUME Inv, ~leftover, due = 0, NEW n \in DOMAIN log
               PROVE  Text(Reconstruct(n)) = Text(Revisions[n])
    BY DEF RevisionIsWhatItWas
  <2>1. Reconstruct(n) = Revision(log, n)
    BY ReconstructIsRevision DEF History
  <2>2. n # 0
    BY TypeParts
  <2>3. Revision(log, n) = Revisions[n]
    BY <2>2, RevisionsAgree DEF Revision
  <2>4. QED
    BY <2>1, <2>3
<1> HIDE DEF Inv
<1>4. QED
  BY <1>1, <1>2, <1>3, PTL DEF RestoreSpec
=============================================================================
