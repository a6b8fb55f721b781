---------------------------- MODULE OperationLog ----------------------------
(***************************************************************************)
(* The causal buffer of src/crdt/operation-log.ts: envelopes arrive in any *)
(* order and any number of times; one that cannot be applied yet waits for *)
(* its predecessors, until the buffer is full and everything in it is      *)
(* thrown away and a reload is asked for.                                  *)
(*                                                                         *)
(* history is the sequence of operations the server stored, seq being the  *)
(* position. An envelope carries its operation's seq, or 0 before the      *)
(* server has assigned one; the pair (sessionId, clientSeq) is as good a   *)
(* name for the operation, so the position stands for it too.              *)
(***************************************************************************)
EXTENDS RGA

CONSTANTS
    Histories,      \* the stored histories considered
    MaxBufferSize   \* the buffer's limit

ASSUME MaxBufferSizeAssumption == MaxBufferSize \in Nat \ {0}

\* Histories are what LiveEditing stores: no UID is inserted twice, anchors
\* and deleted characters come first, clocks are above their anchors'.
Causal(h) ==
    \A i \in DOMAIN h :
        LET before == {h[j].uid : j \in {k \in 1..(i - 1) : h[k].type = "INSERT"}}
        IN IF h[i].type = "INSERT"
           THEN /\ h[i].uid \notin before
                /\ h[i].after \in before \cup {Root}
                /\ h[i].after.clock < h[i].uid.clock
           ELSE h[i].uid \in before

StoredOperations ==
    [type : {"INSERT"}, uid : UID(Nat \ {0}), after : UID(Nat \ {0}) \cup {Root}]
        \cup [type : {"DELETE"}, uid : UID(Nat \ {0})]

ASSUME HistoriesAssumption == \A h \in Histories : h \in Seq(StoredOperations) /\ Causal(h)

VARIABLES
    history,        \* the operations there are, fixed from the start
    received,       \* ghost: those that arrived at least once
    doc,            \* the RGADocument the operations are applied to
    appliedSeqs,    \* the two duplicate indexes
    appliedKeys,
    maxAppliedSeq,
    buffer,         \* envelopes waiting for causal predecessors
    reload          \* onCausalGapExceeded has fired

vars == <<history, received, doc, appliedSeqs, appliedKeys, maxAppliedSeq, buffer, reload>>

Envelope == [seq : {0} \cup DOMAIN history, key : DOMAIN history]

Op(env) == history[env.key]

Uids == {op.uid : op \in ToSet(history)}

TypeOK ==
    /\ history \in Histories
    /\ received \subseteq DOMAIN history
    /\ doc \in [list : Seq(Uids), tomb : SUBSET Uids]
    /\ appliedSeqs \subseteq DOMAIN history
    /\ appliedKeys \subseteq DOMAIN history
    /\ maxAppliedSeq \in {0} \cup appliedSeqs
    /\ buffer \in Seq(Envelope)
    /\ reload \in BOOLEAN

Init ==
    /\ history \in Histories
    /\ received = {}
    /\ doc = EmptyDoc
    /\ appliedSeqs = {}
    /\ appliedKeys = {}
    /\ maxAppliedSeq = 0
    /\ buffer = << >>
    /\ reload = FALSE

----------------------------------------------------------------------------
(* The object's fields as one value, for the helpers that update it.       *)

State == [doc |-> doc, seqs |-> appliedSeqs, keys |-> appliedKeys,
          top |-> maxAppliedSeq, buffer |-> buffer]

\* The greatest seq is tracked but the index of seqs is not kept up.
AppliedOffIndex(st, env) ==
    [st EXCEPT !.doc = Apply(@, Op(env)), !.keys = @ \cup {env.key},
               !.top = IF env.seq > @ THEN env.seq ELSE @]

\* applyOperation succeeded: recordApplied.
Applied(st, env) ==
    [doc |-> Apply(st.doc, Op(env)),
     seqs |-> st.seqs \cup ({env.seq} \ {0}),
     keys |-> st.keys \cup {env.key},
     top |-> IF env.seq > st.top THEN env.seq ELSE st.top,
     buffer |-> st.buffer]

\* A waiting envelope is applied, or waits on.
Try(st, env) ==
    IF Applicable(st.doc, Op(env)) THEN Applied(st, env)
    ELSE [st EXCEPT !.buffer = Append(@, env)]

\* One round of flushBuffer: every waiting envelope is tried once, in order,
\* and what still does not apply waits on.
Round(st) == FoldLeft(Try, [st EXCEPT !.buffer = << >>], st.buffer)

\* A flush without its loop.
FlushOnce(st) == Round(st)

\* Rounds until one makes no progress; a round that makes some shortens the
\* buffer, so there are at most as many as envelopes waiting.
Flush(st) == FoldLeft(LAMBDA s, env : Round(s), st, st.buffer)

Duplicate(env) == env.seq \in appliedSeqs \/ env.key \in appliedKeys

\* The overflow without its callback.
HoldBackSilently(env) ==
    LET waiting == IF Len(buffer) < MaxBufferSize THEN Append(buffer, env) ELSE buffer
    IN /\ buffer' = IF Len(waiting) >= MaxBufferSize THEN << >> ELSE waiting
       /\ UNCHANGED reload

\* The branch of applyOrBuffer for a causal gap: queue, unless full; when
\* that fills the buffer, drop all of it and ask for a reload.
HoldBack(env) ==
    LET waiting == IF Len(buffer) < MaxBufferSize THEN Append(buffer, env) ELSE buffer
        full == Len(waiting) >= MaxBufferSize
    IN /\ buffer' = IF full THEN << >> ELSE waiting
       /\ reload' = (reload \/ full)

Buffer(env) ==
    /\ ~Duplicate(env) /\ ~Applicable(doc, Op(env))
    /\ HoldBack(env)
    /\ UNCHANGED <<doc, appliedSeqs, appliedKeys, maxAppliedSeq>>

ApplyAndFlush(env) ==
    /\ ~Duplicate(env) /\ Applicable(doc, Op(env))
    /\ LET st == Flush(Applied(State, env))
       IN /\ doc' = st.doc
          /\ appliedSeqs' = st.seqs
          /\ appliedKeys' = st.keys
          /\ maxAppliedSeq' = st.top
          /\ buffer' = st.buffer
    /\ UNCHANGED reload

Ignore(env) ==
    /\ Duplicate(env)
    /\ UNCHANGED <<doc, appliedSeqs, appliedKeys, maxAppliedSeq, buffer, reload>>

\* applyOrBuffer(envelope, doc)
ApplyOrBuffer(env) ==
    /\ ApplyAndFlush(env) \/ Buffer(env) \/ Ignore(env)
    /\ received' = received \cup {env.key}
    /\ UNCHANGED history

Next == \E i \in DOMAIN history : \E seq \in {0, i} : ApplyOrBuffer([seq |-> seq, key |-> i])

Spec == Init /\ [][Next]_vars

----------------------------------------------------------------------------
Effective(op) ==
    IF op.type = "INSERT" THEN Holds(doc.list, op.uid) ELSE op.uid \in doc.tomb

\* After every call, what waits really has to wait, and there is room for one
\* more: the flush goes on until nothing else can be applied, however the
\* chain of predecessors lies in the buffer.
OnlyGapsWait ==
    /\ \A env \in ToSet(buffer) : ~Applicable(doc, Op(env))
    /\ Len(buffer) < MaxBufferSize

\* An operation that arrived is in the document or waits for a predecessor
\* that did not arrive, or the owner was told to reload.
NothingDroppedSilently ==
    reload \/ \A i \in received : Effective(history[i]) \/ \E env \in ToSet(buffer) : env.key = i

\* Whatever order, duplication and overflow the envelopes met, the document
\* is the stored history restricted to the operations applied.
DocumentIsHistory ==
    LET done == Omit([i \in DOMAIN history |-> i], DOMAIN history \ appliedKeys)
    IN doc = FoldLeft(Apply, EmptyDoc, [k \in DOMAIN done |-> history[done[k]]])
=============================================================================
