--------------------------- MODULE DocumentServer ---------------------------
(***************************************************************************)
(* The document on the server: each worker's in-memory copy and how it is  *)
(* loaded, used and dropped (src/server/sync), the operations table and    *)
(* the snapshots (src/server/persistence), and the compaction that runs in *)
(* the background of every operation (src/server/jobs).                    *)
(*                                                                         *)
(* A handler and a compaction keep a reference to the cache entry they     *)
(* were given across every await, so entries have an identity here.        *)
(* Clients appear as the operations they may send: a session types against *)
(* its own operations and a prefix of what was published. When it typed is *)
(* told only when the handler takes the operation up.                      *)
(***************************************************************************)
EXTENDS RGA

CONSTANTS
    Sessions,        \* the editors' sessions, also their sites
    NumWorkers,      \* the server processes
    Homes,           \* the ways sessions may be spread over workers
    EvictInUse,      \* whether an entry may be dropped while somebody uses it
    KeepSnapshots,   \* MAX_SNAPSHOTS_PER_DOC
    MaxEdits,        \* bound: operations of all sessions together
    MaxCompactions,  \* bound: operations after which a snapshot is due
    MaxEvictions,    \* bound: entries dropped from a cache
    MaxFaults        \* bound: refused operations, failed statements, crashed workers

Workers == 1..NumWorkers

ASSUME SessionsAssumption == Sessions \subseteq Nat \ {0} /\ IsFiniteSet(Sessions)

ASSUME HomesAssumption == Homes \subseteq [Sessions -> Workers]

ASSUME EvictInUseAssumption == EvictInUse \in BOOLEAN

ASSUME BoundsAssumption ==
    /\ NumWorkers \in Nat \ {0} /\ KeepSnapshots \in Nat \ {0}
    /\ MaxEdits \in Nat /\ MaxCompactions \in Nat /\ MaxEvictions \in Nat /\ MaxFaults \in Nat

VARIABLES
    home,       \* home[s]: the worker session s is connected to
    typed,      \* typed[s]: the operations s sent, in order
    seen,       \* seen[s]: how much of the channel s had received when it last typed
    hand,       \* hand[s]: the operation being handled for s, and how far it is
    entries,    \* every cache entry ever made; its index is its identity
    cache,      \* cache[w]: the entry worker w has in its cache, 0 for none
    load,       \* load[w]: the load in flight on w
    log,        \* the operations table
    snapshots,  \* the snapshots table
    channel,    \* what was published, as seqs
    tasks,      \* compactions in progress
    due,        \* how many compactions were started
    evicted,    \* how many entries were dropped
    abandoned,  \* ghost: operations applied in memory whose append never came
    faults      \* how many faults there were

clientVars == <<home, typed, seen>>
cacheVars == <<entries, cache, load>>
boundVars == <<due, evicted, abandoned, faults>>
vars == <<clientVars, hand, cacheVars, log, snapshots, channel, tasks, boundVars>>

Uids == UID(Sessions)

\* A ROLLBACK is a row a restore stores (module Restore); its UID is nobody's.
Operation ==
    [type : {"INSERT"}, uid : Uids, after : Uids \cup {Root}] \cup [type : {"DELETE"}, uid : Uids]
        \cup [type : {"ROLLBACK"}, uid : {Root}, target : Nat]

Document == [list : Seq(Uids), tomb : SUBSET Uids]

NoOp == [type |-> "NONE"]
Idle == [stage |-> "idle", op |-> NoOp, entry |-> 0, seq |-> 0]
Closed == [Idle EXCEPT !.stage = "closed"]

NoSnapshot == [seq |-> 0, doc |-> EmptyDoc]
NoLoad == [stage |-> "none", seq |-> 0, doc |-> EmptyDoc]

TypeOK ==
    /\ home \in Homes
    /\ typed \in [Sessions -> Seq(Operation)]
    /\ seen \in [Sessions -> 0..Len(channel)]
    /\ entries \in Seq([doc : Document, lastSeq : 0..Len(log)])
    /\ cache \in [Workers -> 0..Len(entries)]
    /\ hand \in [Sessions -> [stage : {"idle", "closed", "load", "append", "publish"},
                              op : Operation \cup {NoOp},
                              entry : 0..Len(entries), seq : 0..Len(log)]]
    /\ load \in [Workers -> [stage : {"none", "snapshot", "operations", "resume"},
                             seq : 0..Len(log), doc : Document]]
    /\ log \in Seq([session : Sessions, op : Operation])
    /\ snapshots \subseteq [seq : DOMAIN log, doc : Document]
    /\ channel \in Seq(DOMAIN log)
    /\ tasks \subseteq [id : DOMAIN log, worker : Workers, entry : 0..Len(entries),
                        stage : {"load", "measure", "collect", "save", "prune"},
                        seq : 0..Len(log), doc : Document]
    /\ due \in 0..MaxCompactions /\ evicted \in 0..MaxEvictions
    /\ abandoned \subseteq Operation /\ faults \in 0..MaxFaults

\* Everybody has joined the empty document: every worker has loaded it.
Init ==
    /\ home \in Homes
    /\ typed = [s \in Sessions |-> << >>]
    /\ seen = [s \in Sessions |-> 0]
    /\ hand = [s \in Sessions |-> Idle]
    /\ entries = [w \in Workers |-> [doc |-> EmptyDoc, lastSeq |-> 0]]
    /\ cache = [w \in Workers |-> w]
    /\ load = [w \in Workers |-> NoLoad]
    /\ log = << >>
    /\ snapshots = {}
    /\ channel = << >>
    /\ tasks = {}
    /\ due = 0 /\ evicted = 0 /\ abandoned = {} /\ faults = 0

----------------------------------------------------------------------------
(* Operations a session may send. *)

ReplayFrom(d, ops) == FoldLeft(Apply, d, ops)

\* The client's replica when it has received n messages of the channel.
View(s, n) ==
    ReplayFrom(ReplayFrom(EmptyDoc, [i \in 1..n |-> log[channel[i]].op]), typed[s])

ClockOf(d) == Max({u.clock : u \in ToSet(d.list)} \cup {0})

Keystrokes(s, n) ==
    LET view == View(s, n)
        visible == VisibleUids(view)
    IN {InsertOp([clock |-> ClockOf(view) + 1, site |-> s], a) : a \in visible \cup {Root}}
           \cup {DeleteOp(u) : u \in visible}

Edits == FoldFunction(LAMBDA ops, n : n + Len(ops), 0, typed)

\* The next operation of s is up, and the handler is free to take it.
Ready(s) == Edits < MaxEdits /\ hand[s].stage = "idle"

\* It is op, typed when s had received n messages of the channel.
Sent(s, n, op) ==
    /\ typed' = [typed EXCEPT ![s] = Append(@, op)]
    /\ seen' = [seen EXCEPT ![s] = n]
    /\ UNCHANGED home

----------------------------------------------------------------------------
(* getOrLoadDocument. A caller whose worker has the entry goes on with it  *)
(* at once; any other waits for the load in flight, or starts it.          *)

Cached(w) == cache[w] # 0

\* The part of a cache miss that changes state.
AwaitLoad(w) ==
    load' = IF load[w].stage = "none" THEN [load EXCEPT ![w].stage = "snapshot"] ELSE load

LatestSnapshot ==
    IF snapshots = {} THEN NoSnapshot
    ELSE CHOOSE snap \in snapshots : \A other \in snapshots : other.seq <= snap.seq

StoredAfter(seq) == [i \in 1..(Len(log) - seq) |-> log[seq + i].op]

ReadSnapshot(w) ==
    /\ load[w].stage = "snapshot"
    /\ load' = [load EXCEPT ![w] = [stage |-> "operations", seq |-> LatestSnapshot.seq,
                                    doc |-> LatestSnapshot.doc]]
    /\ UNCHANGED <<clientVars, hand, entries, cache, log, snapshots, channel, tasks, boundVars>>

\* The query is for the operations from the snapshot's own seq on ...
ReadOperationsSkippingOne(w) ==
    /\ load[w].stage = "operations"
    /\ load' = [load EXCEPT ![w] = [stage |-> "resume", seq |-> Len(log),
                  doc |-> ReplayFrom(@.doc, StoredAfter(IF @.seq < Len(log) THEN @.seq + 1
                                                        ELSE @.seq))]]
    /\ UNCHANGED <<clientVars, hand, entries, cache, log, snapshots, channel, tasks, boundVars>>

ReadOperations(w) ==
    /\ load[w].stage = "operations"
    /\ load' = [load EXCEPT ![w] = [stage |-> "resume", seq |-> Len(log),
                                    doc |-> ReplayFrom(@.doc, StoredAfter(@.seq))]]
    /\ UNCHANGED <<clientVars, hand, entries, cache, log, snapshots, channel, tasks, boundVars>>

\* The load resolves: the entry is cached, and all who waited for it go on in
\* the same turn of the event loop, the handlers by applying their operation.
Resume(w) ==
    LET waiting == {s \in Sessions : home[s] = w /\ hand[s].stage = "load"}
        d == ReplayFrom(load[w].doc, [i \in 1..Cardinality(waiting) |->
                                        hand[SetToSeq(waiting)[i]].op])
        e == Len(entries) + 1
    IN /\ load[w].stage = "resume"
       /\ entries' = Append(entries, [doc |-> d, lastSeq |-> load[w].seq])
       /\ cache' = [cache EXCEPT ![w] = e]
       /\ load' = [load EXCEPT ![w] = NoLoad]
       /\ hand' = [s \in Sessions |-> IF s \in waiting
                                      THEN [hand[s] EXCEPT !.stage = "append", !.entry = e]
                                      ELSE hand[s]]
       /\ tasks' = {IF t.worker = w /\ t.stage = "load"
                    THEN [t EXCEPT !.stage = "measure", !.entry = e] ELSE t : t \in tasks}
       /\ UNCHANGED <<clientVars, log, snapshots, channel, boundVars>>

\* A JOIN, of whoever, that misses the cache.
Join(w) ==
    /\ ~Cached(w)
    /\ load[w].stage = "none"
    /\ AwaitLoad(w)
    /\ UNCHANGED <<clientVars, hand, entries, cache, log, snapshots, channel, tasks, boundVars>>

----------------------------------------------------------------------------
(* handleOperation: apply in memory, append to the table, publish. *)

ApplyIn(e, op) == entries' = [entries EXCEPT ![e].doc = Apply(@, op)]

Take(s) ==
    LET w == home[s]
    IN /\ Ready(s)
       /\ \E n \in seen[s]..Len(channel) : \E op \in Keystrokes(s, n) :
             /\ Sent(s, n, op)
             /\ IF Cached(w)
                THEN /\ ApplyIn(cache[w], op)
                     /\ hand' = [hand EXCEPT ![s] = [stage |-> "append", op |-> op,
                                                     entry |-> cache[w], seq |-> 0]]
                     /\ UNCHANGED load
                ELSE /\ AwaitLoad(w)
                     /\ hand' = [hand EXCEPT ![s] = [stage |-> "load", op |-> op,
                                                     entry |-> 0, seq |-> 0]]
                     /\ UNCHANGED entries
       /\ UNCHANGED <<cache, log, snapshots, channel, tasks, boundVars>>

\* The checks run after the document was touched.
RefuseApplied(s) ==
    /\ Cached(home[s])
    /\ faults < MaxFaults
    /\ Ready(s)
    /\ \E n \in seen[s]..Len(channel) : \E op \in Keystrokes(s, n) :
          Sent(s, n, op) /\ ApplyIn(cache[home[s]], op)
    /\ faults' = faults + 1
    /\ UNCHANGED <<hand, cache, load, log, snapshots, channel, tasks, due, evicted, abandoned>>

\* The rate, nonce or site check fails: an ERROR and nothing else.
Refuse(s) ==
    /\ faults < MaxFaults
    /\ Ready(s)
    /\ \E n \in seen[s]..Len(channel) : \E op \in Keystrokes(s, n) : Sent(s, n, op)
    /\ faults' = faults + 1
    /\ UNCHANGED <<hand, cacheVars, log, snapshots, channel, tasks, due, evicted, abandoned>>

\* The statement commits and gives the seq; updateCachedDocument notes it on
\* the entry the worker has in its cache by now.
AppendOperation(s) ==
    LET seq == Len(log) + 1
    IN /\ hand[s].stage = "append"
       /\ log' = Append(log, [session |-> s, op |-> hand[s].op])
       /\ entries' = IF Cached(home[s]) THEN [entries EXCEPT ![cache[home[s]]].lastSeq = seq]
                     ELSE entries
       /\ hand' = [hand EXCEPT ![s].stage = "publish", ![s].seq = seq]
       /\ UNCHANGED <<clientVars, cache, load, snapshots, channel, tasks, boundVars>>

\* A compaction begins in the background of the operation stored as seq.
StartCompaction(w, seq) ==
    \/ /\ due < MaxCompactions
       /\ due' = due + 1
       /\ tasks' = tasks \cup {[id |-> seq, worker |-> w, entry |-> cache[w],
                                stage |-> IF Cached(w) THEN "measure" ELSE "load",
                                seq |-> 0, doc |-> EmptyDoc]}
    \/ UNCHANGED <<due, tasks>>

Publish(s) ==
    /\ hand[s].stage = "publish"
    /\ channel' = Append(channel, hand[s].seq)
    /\ hand' = [hand EXCEPT ![s] = Idle]
    /\ StartCompaction(home[s], hand[s].seq)
    /\ IF Cached(home[s]) THEN UNCHANGED load ELSE AwaitLoad(home[s])
    /\ UNCHANGED <<clientVars, entries, cache, log, snapshots, evicted, abandoned, faults>>

\* What handlers of these sessions have applied in memory only.
Unstored(sessions) == {hand[s].op : s \in {r \in sessions : hand[r].stage = "append"}}

\* The append or the publish throws: the handler ends where it is. An append
\* that throws after it took effect is like a publish that throws.
HandlerFails(s) ==
    /\ faults < MaxFaults
    /\ hand[s].stage \in {"append", "publish"}
    /\ hand' = [hand EXCEPT ![s] = Idle]
    /\ abandoned' = abandoned \cup Unstored({s})
    /\ faults' = faults + 1
    /\ UNCHANGED <<clientVars, cacheVars, log, snapshots, channel, tasks, due, evicted>>

----------------------------------------------------------------------------
(* maybeTakeSnapshot, when one is due. Whether it is depends on a count of *)
(* operations and on the time; the first one on a worker always is.        *)

Becomes(t, next) == tasks' = (tasks \ {t}) \cup {next}

\* The seq the next operation will get.
MeasureNext(t) ==
    /\ t.stage = "measure"
    /\ Becomes(t, [t EXCEPT !.stage = "collect", !.seq = Len(log) + 1])
    /\ UNCHANGED <<clientVars, hand, cacheVars, log, snapshots, channel, boundVars>>

\* getMaxSeq
Measure(t) ==
    /\ t.stage = "measure"
    /\ Becomes(t, [t EXCEPT !.stage = "collect", !.seq = Len(log)])
    /\ UNCHANGED <<clientVars, hand, cacheVars, log, snapshots, channel, boundVars>>

\* Back on the worker: gc() and serialize(), in one turn.
Collect(t) ==
    LET kept == Gc(entries[t.entry].doc)
    IN /\ t.stage = "collect"
       /\ entries' = [entries EXCEPT ![t.entry].doc = kept]
       /\ Becomes(t, [t EXCEPT !.stage = "save", !.doc = kept])
       /\ UNCHANGED <<clientVars, hand, cache, load, log, snapshots, channel, boundVars>>

\* The INSERT, which does nothing when there is a snapshot of that seq. It is
\* an error, and the end, when that one is no longer the latest.
Save(t) ==
    LET taken == \E snap \in snapshots : snap.seq = t.seq
    IN /\ t.stage = "save"
       /\ snapshots' = IF taken THEN snapshots ELSE snapshots \cup {[seq |-> t.seq, doc |-> t.doc]}
       /\ IF taken /\ LatestSnapshot.seq # t.seq
          THEN tasks' = tasks \ {t}
          ELSE Becomes(t, [t EXCEPT !.stage = "prune"])
       /\ UNCHANGED <<clientVars, hand, cacheVars, log, channel, boundVars>>

\* Keeps the first in ascending order.
PruneNewest(t) ==
    /\ t.stage = "prune"
    /\ snapshots' = {snap \in snapshots :
                        Cardinality({o \in snapshots : o.seq < snap.seq}) < KeepSnapshots}
    /\ tasks' = tasks \ {t}
    /\ UNCHANGED <<clientVars, hand, cacheVars, log, channel, boundVars>>

\* pruneOldSnapshots: only those stay that have few enough newer ones.
Prune(t) ==
    /\ t.stage = "prune"
    /\ snapshots' = {snap \in snapshots :
                        Cardinality({o \in snapshots : o.seq > snap.seq}) < KeepSnapshots}
    /\ tasks' = tasks \ {t}
    /\ UNCHANGED <<clientVars, hand, cacheVars, log, channel, boundVars>>

CompactionFails(t) ==
    /\ faults < MaxFaults
    /\ t.stage \in {"measure", "save", "prune"}
    /\ tasks' = tasks \ {t}
    /\ faults' = faults + 1
    /\ UNCHANGED <<clientVars, hand, cacheVars, log, snapshots, channel, due, evicted, abandoned>>

Compact(t) == Measure(t) \/ Collect(t) \/ Save(t) \/ Prune(t) \/ CompactionFails(t)

----------------------------------------------------------------------------
(* What happens to a cache from outside. *)

\* Somebody on w has an entry in hand that he has not finished with: an
\* operation applied but not stored, a compaction that has not read it yet.
InUse(w) ==
    \/ \E s \in Sessions : home[s] = w /\ hand[s].stage = "append"
    \/ \E t \in tasks : t.worker = w /\ t.stage \in {"measure", "collect"}

\* The TTL, the LRU order or invalidateDocument drops the entry.
Evict(w) ==
    /\ evicted < MaxEvictions
    /\ Cached(w)
    /\ InUse(w) => EvictInUse
    /\ cache' = [cache EXCEPT ![w] = 0]
    /\ evicted' = evicted + 1
    /\ UNCHANGED <<clientVars, hand, entries, load, log, snapshots, channel, tasks, due, abandoned, faults>>

\* The process ends, and with it the sessions connected to it.
Crash(w) ==
    /\ faults < MaxFaults
    /\ faults' = faults + 1
    /\ cache' = [cache EXCEPT ![w] = 0]
    /\ load' = [load EXCEPT ![w] = NoLoad]
    /\ hand' = [s \in Sessions |-> IF home[s] = w THEN Closed ELSE hand[s]]
    /\ tasks' = {t \in tasks : t.worker # w}
    /\ abandoned' = abandoned \cup Unstored({s \in Sessions : home[s] = w})
    /\ UNCHANGED <<clientVars, entries, log, snapshots, channel, due, evicted>>

----------------------------------------------------------------------------
Handle(s) == Take(s) \/ Refuse(s) \/ AppendOperation(s) \/ Publish(s) \/ HandlerFails(s)

Load(w) == Join(w) \/ ReadSnapshot(w) \/ ReadOperations(w) \/ Resume(w)

Rest ==
    /\ tasks = {} /\ \A w \in Workers : load[w].stage = "none"
    /\ \A s \in Sessions :
          \/ hand[s].stage = "closed"
          \/ hand[s].stage = "idle" /\ Edits = MaxEdits
    /\ UNCHANGED vars

Next ==
    \/ \E s \in Sessions : Handle(s)
    \/ \E t \in tasks : Compact(t)
    \/ \E w \in Workers : Load(w) \/ Evict(w) \/ Crash(w)
    \/ Rest

Spec == Init /\ [][Next]_vars

----------------------------------------------------------------------------
(* What a document has to contain. *)

\* Characters somebody deleted: gc() may have unlinked them.
Deleted ==
    UNION {{op.uid : op \in {o \in ToSet(typed[s]) : o.type = "DELETE"}} : s \in Sessions}

\* Characters that no server may lack: neither they nor any character they
\* hang on was deleted. One that hangs on a character that gc() forgot, or that
\* was never stored, is a causal gap no buffer ever closes.
Lasting ==
    LET insertions == {i \in DOMAIN log :
                          log[i].op.type = "INSERT" /\ log[i].op.uid \notin Deleted}
        reachRoot(uids) == \A u \in uids : \E i \in insertions :
                              log[i].op.uid = u /\ log[i].op.after \in uids \cup {Root}
    IN UNION {uids \in SUBSET {log[i].op.uid : i \in insertions} : reachRoot(uids)}

\* d shows the effect of the first n stored operations.
Covers(d, n) ==
    \A i \in 1..n :
        IF log[i].op.type = "INSERT"
        THEN log[i].op.uid \in Lasting => Holds(d.list, log[i].op.uid)
        ELSE log[i].op.uid \notin VisibleUids(d)

ColdLoad == ReplayFrom(LatestSnapshot.doc, StoredAfter(LatestSnapshot.seq))

\* The next three hold when one worker serves all editors and no entry is
\* dropped while in use. Neither is sure to be the case.

\* A snapshot contains every operation up to its seq (src/shared/types/
\* document.ts: "All operations up through this seq are captured") although
\* seq is read first, other handlers apply operations meanwhile, and the rows
\* are written last.
SnapshotsCapture == \A snap \in snapshots : Covers(snap.doc, snap.seq)

\* The snapshot a JOIN_ACK is made from: "Operations through this seq are
\* encoded in nodes" (src/shared/types/protocol.ts), although handlers note
\* their seqs on the entry in any order, and it may be a new one.
CachesCapture ==
    \A w \in Workers : Cached(w) => Covers(entries[cache[w]].doc, entries[cache[w]].lastSeq)

\* After a restart or an eviction the document is all there: what a load
\* would build now, whatever was saved, pruned, refused or failed before.
ColdLoadIsComplete == Covers(ColdLoad, Len(log))

\* No replica and no snapshot shows an operation that was refused: what is in
\* memory is stored, its handler is about to store it, or its append failed.
OnlyStoredContent ==
    LET accepted == {log[i].op.uid : i \in DOMAIN log}
                        \cup {op.uid : op \in Unstored(Sessions) \cup abandoned}
    IN /\ \A e \in DOMAIN entries : ToSet(entries[e].doc.list) \subseteq accepted
       /\ \A snap \in snapshots : ToSet(snap.doc.list) \subseteq accepted

\* Loads never go back to an older snapshot: concurrent compactions that save
\* out of order and prune each other's rows leave the newest.
LatestNeverRegresses == [][LatestSnapshot.seq <= LatestSnapshot'.seq]_vars

\* docs/ARCHITECTURE.md, Document Loading: the state is the latest snapshot
\* plus the operations after it, which is to say what the whole table replays
\* to, when every handler is done. gc() breaks this even on one worker that
\* nothing disturbs: who typed behind a character that was being deleted has
\* typed in vain.
ColdLoadIsTheLog ==
    (\A s \in Sessions : hand[s] = Idle) =>
        Text(ColdLoad) = Text(ReplayFrom(EmptyDoc, StoredAfter(0)))
=============================================================================
