------------------------------ MODULE Restore ------------------------------
(***************************************************************************)
(* Restoring a document to an earlier revision                             *)
(* (src/server/persistence/history-service.ts, the route in                *)
(* src/server/api/routes/restore.ts), next to everything DocumentServer    *)
(* does. A restore rebuilds the document as it was at a seq and makes it   *)
(* the document of a new seq: a ROLLBACK row that carries no content, and  *)
(* a snapshot under its seq that does.                                     *)
(***************************************************************************)
EXTENDS DocumentServer

CONSTANTS
    Straddling,   \* whether loads, compactions and handlers may go on across a restore
    MaxRestores   \* bound: restores begun

ASSUME StraddlingAssumption == Straddling \in BOOLEAN

ASSUME MaxRestoresAssumption == MaxRestores \in Nat

VARIABLES
    restore,    \* the request being served, and how far it is
    restores,   \* how many were begun
    restored,   \* ghost: the last restore that was committed, as the snapshot of it
    leftover    \* ghost: a restore that failed has left its snapshot

restoreVars == <<restore, restores, restored, leftover>>
allVars == <<vars, restoreVars>>

NoRestore == [stage |-> "none", worker |-> 0, target |-> 0, seq |-> 0, doc |-> EmptyDoc]

RestoreTypeOK ==
    /\ restore \in [stage : {"none", "snapshot", "range", "append", "save", "commit", "invalidate"},
                    worker : 0..NumWorkers, target : 0..Len(log), seq : 0..(Len(log) + 1),
                    doc : Document]
    /\ restores \in 0..MaxRestores
    /\ restored \in [seq : 0..Len(log), doc : Document]
    /\ leftover \in BOOLEAN
    /\ log \in Seq([session : Sessions \cup {0}, op : Operation])
    /\ snapshots \subseteq [seq : 1..(Len(log) + 1), doc : Document]

RestoreInit ==
    Init /\ restore = NoRestore /\ restores = 0 /\ restored = NoSnapshot /\ leftover = FALSE

----------------------------------------------------------------------------
(* reconstructAtSeq: two queries. *)

\* Only the snapshots older than the revision.
SnapshotStrictlyBefore(n) ==
    LET earlier == {snap \in snapshots : snap.seq < n}
    IN IF earlier = {} THEN NoSnapshot
       ELSE CHOOSE snap \in earlier : \A other \in earlier : other.seq <= snap.seq

\* loadSnapshotBefore
SnapshotBefore(n) ==
    LET upTo == {snap \in snapshots : snap.seq <= n}
    IN IF upTo = {} THEN NoSnapshot
       ELSE CHOOSE snap \in upTo : \A other \in upTo : other.seq <= snap.seq

\* loadOperationsInRange
StoredInRange(first, last) == [i \in 1..(last + 1 - first) |-> log[first + i - 1].op]

Reconstruct(n) ==
    ReplayFrom(SnapshotBefore(n).doc, StoredInRange(SnapshotBefore(n).seq + 1, n))

\* A restore to a revision the history lists.
BeginRestore(w) ==
    /\ restores < MaxRestores
    /\ restore.stage = "none"
    /\ \E n \in DOMAIN log :
          restore' = [NoRestore EXCEPT !.stage = "snapshot", !.worker = w, !.target = n]
    /\ restores' = restores + 1
    /\ UNCHANGED <<vars, restored>>

ReadSnapshotBefore ==
    LET snap == SnapshotBefore(restore.target)
    IN /\ restore.stage = "snapshot"
       /\ restore' = [restore EXCEPT !.stage = IF snap.seq < restore.target THEN "range" ELSE "append",
                                     !.seq = snap.seq, !.doc = snap.doc]
       /\ UNCHANGED <<vars, restores, restored>>

ReadRange ==
    /\ restore.stage = "range"
    /\ restore' = [restore EXCEPT !.stage = "append",
                       !.doc = ReplayFrom(@, StoredInRange(restore.seq + 1, restore.target))]
    /\ UNCHANGED <<vars, restores, restored>>

----------------------------------------------------------------------------
(* restoreToRevision's transaction. *)

\* BEGIN and the INSERT: the row and its seq are the transaction's, and so is
\* the lock on the counter of seqs until it ends.
AppendRollback ==
    /\ restore.stage = "append"
    /\ restore' = [restore EXCEPT !.stage = "save", !.seq = Len(log) + 1]
    /\ UNCHANGED <<vars, restores, restored>>

CounterLocked == restore.stage \in {"save", "commit"}

\* saveSnapshot takes another connection: everybody sees the row at once, and
\* it stays whatever becomes of the transaction. A snapshot of that seq that
\* is there already is kept.
SaveRestored ==
    LET taken == \E snap \in snapshots : snap.seq = restore.seq
    IN /\ restore.stage = "save"
       /\ snapshots' = IF taken THEN snapshots
                       ELSE snapshots \cup {[seq |-> restore.seq, doc |-> restore.doc]}
       /\ restore' = [restore EXCEPT !.stage = "commit"]
       /\ UNCHANGED <<clientVars, hand, cacheVars, log, channel, tasks, boundVars, restores, restored>>

\* The row was inserted in no transaction that commits.
CommitRestoreUnlogged ==
    /\ restore.stage = "commit"
    /\ restore' = [restore EXCEPT !.stage = "invalidate"]
    /\ restored' = [seq |-> restore.seq, doc |-> restore.doc]
    /\ UNCHANGED <<clientVars, hand, cacheVars, log, snapshots, channel, tasks, boundVars, restores>>

\* The statements for documents.updated_at and the audit log, and COMMIT. The
\* audit log keeps the target, which the row itself does not.
CommitRestore ==
    /\ restore.stage = "commit"
    /\ log' = Append(log, [session |-> 0, op |-> [type |-> "ROLLBACK", uid |-> Root,
                                                  target |-> restore.target]])
    /\ restore' = [restore EXCEPT !.stage = "invalidate"]
    /\ restored' = [seq |-> restore.seq, doc |-> restore.doc]
    /\ UNCHANGED <<clientVars, hand, cacheVars, snapshots, channel, tasks, boundVars, restores>>

\* The entry stays in the cache.
PublishRollback ==
    /\ restore.stage = "invalidate"
    /\ channel' = Append(channel, restore.seq)
    /\ restore' = NoRestore
    /\ UNCHANGED <<clientVars, hand, cacheVars, log, snapshots, tasks, boundVars, restores, restored>>

\* invalidateDocument on this worker, and the ROLLBACK for the channel, which
\* no replica does anything with.
Invalidate ==
    /\ restore.stage = "invalidate"
    /\ cache' = [cache EXCEPT ![restore.worker] = 0]
    /\ channel' = Append(channel, restore.seq)
    /\ restore' = NoRestore
    /\ UNCHANGED <<clientVars, hand, entries, load, log, snapshots, tasks, boundVars, restores, restored>>

\* A query fails, or the publication: the request ends there, and PostgreSQL
\* forgets the transaction if it had not committed.
RestoreFails ==
    /\ restore.stage # "none"
    /\ faults < MaxFaults
    /\ faults' = faults + 1
    /\ cache' = IF restore.stage = "invalidate" THEN [cache EXCEPT ![restore.worker] = 0] ELSE cache
    /\ restore' = NoRestore
    /\ UNCHANGED <<clientVars, hand, entries, load, log, snapshots, channel, tasks, due, evicted,
                   abandoned, restores, restored>>

\* The worker dies, and its connections to PostgreSQL with it.
CrashWhileRestoring(w) ==
    /\ Crash(w)
    /\ restore.worker = w
    /\ restore' = NoRestore
    /\ UNCHANGED <<restores, restored>>

----------------------------------------------------------------------------
(* What a restore does not allow for. *)

\* A compaction or a load under way between BEGIN and the invalidation may
\* carry the old document past it, and an operation that was applied to the
\* old document is missed by a load that begins before it is in the table.
Straddled ==
    \/ /\ restore.stage \in {"save", "commit", "invalidate"}
       /\ \/ tasks # {}
          \/ \E w \in Workers : load[w].stage # "none"
    \/ \E s \in Sessions : /\ hand[s].stage = "append"
                           /\ hand[s].entry # cache[home[s]]
                           /\ load[home[s]].stage # "none"

\* A transaction that ends after its snapshot was saved leaves the snapshot,
\* under a seq the next operation will get.
LeavesSnapshot == restore.stage = "commit" /\ restore'.stage = "none"

RestoreStep ==
    \/ \E w \in Workers : BeginRestore(w) \/ CrashWhileRestoring(w)
    \/ ReadSnapshotBefore \/ ReadRange \/ AppendRollback \/ SaveRestored \/ CommitRestore
    \/ Invalidate \/ RestoreFails

\* A handler that wants a seq waits while a restore has the counter.
ServerStep ==
    /\ \/ \E s \in Sessions : Handle(s)
       \/ \E t \in tasks : Compact(t)
       \/ \E w \in Workers : Load(w) \/ Evict(w)
       \/ \E w \in Workers \ {restore.worker} : Crash(w)
    /\ CounterLocked => UNCHANGED log
    /\ UNCHANGED <<restore, restores, restored>>

RestoreRest == Rest /\ restore.stage = "none" /\ UNCHANGED restoreVars

RestoreNext ==
    \/ /\ ServerStep \/ RestoreStep
       /\ Straddled' => Straddling
       /\ leftover' = (leftover \/ LeavesSnapshot)
    \/ RestoreRest

RestoreSpec == RestoreInit /\ [][RestoreNext]_allVars

----------------------------------------------------------------------------
(* What a restore promises. *)

\* The document as of every seq: a ROLLBACK brings back the one of its target.
Revisions ==
    LET next(revs, row) ==
            Append(revs, IF row.op.type = "ROLLBACK" THEN revs[row.op.target]
                         ELSE Apply(IF revs = << >> THEN EmptyDoc ELSE Last(revs), row.op))
    IN FoldLeft(next, << >>, log)

\* The document last come back to, with all that was stored since.
CurrentText == Text(ReplayFrom(restored.doc, StoredAfter(restored.seq)))

\* No request is under way, and what was applied in memory was stored.
Settled ==
    /\ restore.stage = "none" /\ abandoned = {}
    /\ \A s \in Sessions : hand[s].stage \in {"idle", "closed"}

\* gc() has had nothing to take away.
NothingCollected == due = 0 \/ Deleted = {}

\* The next two are about restores that nothing straddles and that have not
\* failed between their two writes. Neither is sure to be the case.

\* After any restores, and the operations before, during and after them, a
\* load finds the document of the last one and what was typed since: what it
\* took away stays away, what it brought back is there, and operations that
\* were waiting for the counter are applied to the restored document ("making
\* rollback itself an event", history-service.ts). So does the cache of the
\* worker that served it ("Invalidate cache", restore.ts).
RestoreHolds ==
    Settled /\ ~leftover /\ NothingCollected =>
        /\ Text(ColdLoad) = CurrentText
        /\ \A w \in Workers : Cached(w) => Text(entries[cache[w]].doc) = CurrentText

\* Every revision can be had as it was, also those between two rollbacks and
\* those before a rollback. Compactions are left out: their snapshots may
\* contain operations with a later seq, and take those of restores away.
RevisionIsWhatItWas ==
    Settled /\ ~leftover /\ due = 0
        => \A n \in DOMAIN log : Text(Reconstruct(n)) = Text(Revisions[n])
=============================================================================
