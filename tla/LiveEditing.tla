----------------------------- MODULE LiveEditing -----------------------------
(***************************************************************************)
(* Clients typing into one document over live connections: the editor hook *)
(* and its offline queue (src/client), the session's message queue and the *)
(* operation handler on a worker, the operations table, the document's     *)
(* Redis channel and the fan-out to every session (src/server).            *)
(*                                                                         *)
(* Every client has joined the empty document and stays connected; joining *)
(* again, snapshots and the workers' in-memory replicas are not part of    *)
(* this module. The server's copy of the document is what replaying the    *)
(* operations table yields.                                                *)
(***************************************************************************)
EXTENDS RGA

CONSTANTS
    Clients,    \* the connected editors
    Workers,    \* the server processes they connect to
    Homes,      \* the ways the load balancer may have spread the clients
    SiteOf,     \* the client id, kept per browser, that signs a client's UIDs
    MaxEdits,   \* bound: keystrokes of all clients together
    MaxFaults   \* bound: operations whose handler ends in an error

ASSUME ClientsAssumption == Clients \subseteq Nat \ {0} /\ IsFiniteSet(Clients)

ASSUME HomesAssumption == Homes \subseteq [Clients -> Workers]

ASSUME SitesAssumption == SiteOf \in [Clients -> Nat \ {0}]

ASSUME BoundsAssumption == MaxEdits \in Nat /\ MaxFaults \in Nat

VARIABLES
    home,       \* home[c]: the worker client c is connected to
    list,       \* list[c]: the UIDs of client c's replica, in order
    tomb,       \* tomb[c]: the tombstoned ones
    clock,      \* clock[c]: its Lamport clock
    clientSeq,  \* clientSeq[c]: the number of its last keystroke
    queue,      \* queue[c]: its offline queue, what is not yet acknowledged
    lastSeq,    \* lastSeq[c]: the greatest server seq it was told of
    up,         \* up[c]: operations on their way to and waiting in the session
    hand,       \* hand[c]: what the session's handler is doing
    log,        \* the operations table, seq being the position
    channel,    \* seqs in the order Redis received them
    fanned,     \* fanned[w]: how much of the channel worker w has fanned out
    down,       \* down[c]: server messages on their way to client c
    faults      \* how many operations were refused or failed so far

clientVars == <<list, tomb, clock, clientSeq, queue, lastSeq>>
serverVars == <<home, hand, log, channel, fanned, faults>>
vars == <<clientVars, serverVars, up, down>>

doc(c) == [list |-> list[c], tomb |-> tomb[c]]

Sites == {SiteOf[c] : c \in Clients}

Operation ==
    [type : {"INSERT"}, uid : UID(Sites), after : UID(Sites) \cup {Root}]
        \cup [type : {"DELETE"}, uid : UID(Sites)]

Message == [clientSeq : Nat, op : Operation]

Entry == [client : Clients, clientSeq : Nat, op : Operation]

OpAck(n, seq) == [type |-> "OP_ACK", clientSeq |-> n, serverSeq |-> seq]

Broadcast(seq) == [type |-> "BROADCAST", serverSeq |-> seq]

Idle == [stage |-> "idle", seq |-> 0]

TypeOK ==
    /\ home \in Homes
    /\ list \in [Clients -> Seq(UID(Sites))]
    /\ tomb \in [Clients -> SUBSET UID(Sites)]
    /\ clock \in [Clients -> Nat]
    /\ clientSeq \in [Clients -> Nat]
    /\ queue \in [Clients -> Seq(Message)]
    /\ lastSeq \in [Clients -> 0..Len(log)]
    /\ up \in [Clients -> Seq(Message)]
    /\ log \in Seq(Entry)
    /\ hand \in [Clients -> [stage : {"idle", "publish", "acknowledge"}, seq : 0..Len(log)]]
    /\ channel \in Seq(DOMAIN log)
    /\ fanned \in [Workers -> 0..Len(channel)]
    /\ down \in [Clients -> Seq([type : {"OP_ACK"}, clientSeq : Nat, serverSeq : DOMAIN log]
                                  \cup [type : {"BROADCAST"}, serverSeq : DOMAIN log])]
    /\ faults \in 0..MaxFaults

Init ==
    /\ home \in Homes
    /\ list = [c \in Clients |-> << >>]
    /\ tomb = [c \in Clients |-> {}]
    /\ clock = [c \in Clients |-> 0]
    /\ clientSeq = [c \in Clients |-> 0]
    /\ queue = [c \in Clients |-> << >>]
    /\ lastSeq = [c \in Clients |-> 0]
    /\ up = [c \in Clients |-> << >>]
    /\ hand = [c \in Clients |-> Idle]
    /\ log = << >>
    /\ channel = << >>
    /\ fanned = [w \in Workers |-> 0]
    /\ down = [c \in Clients |-> << >>]
    /\ faults = 0

----------------------------------------------------------------------------
(* The editor. *)

Keystrokes == FoldFunction(+, 0, clientSeq)

\* The session's message queue: operations keep the order they came in.
EnqueueInFront(messages, msg) == <<msg>> \o messages

Enqueue(messages, msg) == Append(messages, msg)

\* Number the operation, remember it in the offline queue and send it.
Submit(c, op) ==
    LET msg == [clientSeq |-> clientSeq[c] + 1, op |-> op]
    IN /\ clientSeq' = [clientSeq EXCEPT ![c] = @ + 1]
       /\ queue' = [queue EXCEPT ![c] = Append(@, msg)]
       /\ up' = [up EXCEPT ![c] = Enqueue(@, msg)]

\* LocalInsert without counting the clock up.
LocalInsertUncounted(c) ==
    /\ Keystrokes < MaxEdits
    /\ \E a \in {Root} \cup VisibleUids(doc(c)) :
          LET u == [clock |-> clock[c] + 1, site |-> SiteOf[c]]
          IN /\ list' = [list EXCEPT ![c] = ApplyInsert(doc(c), InsertOp(u, a)).list]
             /\ Submit(c, InsertOp(u, a))
    /\ UNCHANGED <<tomb, clock, lastSeq, serverVars, down>>

LocalInsert(c) ==
    /\ Keystrokes < MaxEdits
    /\ \E a \in {Root} \cup VisibleUids(doc(c)) :
          LET u == [clock |-> clock[c] + 1, site |-> SiteOf[c]]
          IN /\ list' = [list EXCEPT ![c] = ApplyInsert(doc(c), InsertOp(u, a)).list]
             /\ clock' = [clock EXCEPT ![c] = @ + 1]
             /\ Submit(c, InsertOp(u, a))
    /\ UNCHANGED <<tomb, lastSeq, serverVars, down>>

LocalDelete(c) ==
    /\ Keystrokes < MaxEdits
    /\ \E u \in VisibleUids(doc(c)) :
          /\ tomb' = [tomb EXCEPT ![c] = @ \cup {u}]
          /\ Submit(c, DeleteOp(u))
    /\ UNCHANGED <<list, clock, lastSeq, serverVars, down>>

\* A delete at an index with no character: the number is used up all the same.
LocalDeleteNothing(c) ==
    /\ Keystrokes < MaxEdits
    /\ clientSeq' = [clientSeq EXCEPT ![c] = @ + 1]
    /\ UNCHANGED <<list, tomb, clock, queue, lastSeq, serverVars, up, down>>

----------------------------------------------------------------------------
(* The operation handler. A session's loop works on one operation at a     *)
(* time; the handlers of different sessions interleave at every await.     *)

\* appendOperation: next_doc_seq gives the position, in one statement.
Persist(c) ==
    /\ hand[c].stage = "idle"
    /\ up[c] # << >>
    /\ log' = Append(log, [client |-> c, clientSeq |-> Head(up[c]).clientSeq,
                           op |-> Head(up[c]).op])
    /\ up' = [up EXCEPT ![c] = Tail(@)]
    /\ hand' = [hand EXCEPT ![c] = [stage |-> "publish", seq |-> Len(log) + 1]]
    /\ UNCHANGED <<clientVars, home, channel, fanned, faults, down>>

\* Whatever is newest in the table instead of the handler's own envelope.
PublishNewest(c) ==
    /\ hand[c].stage = "publish"
    /\ channel' = Append(channel, Len(log))
    /\ hand' = [hand EXCEPT ![c].stage = "acknowledge"]
    /\ UNCHANGED <<clientVars, home, log, fanned, faults, up, down>>

Publish(c) ==
    /\ hand[c].stage = "publish"
    /\ channel' = Append(channel, hand[c].seq)
    /\ hand' = [hand EXCEPT ![c].stage = "acknowledge"]
    /\ UNCHANGED <<clientVars, home, log, fanned, faults, up, down>>

\* The two numbers of an OP_ACK exchanged.
AcknowledgeSwapped(c) ==
    /\ hand[c].stage = "acknowledge"
    /\ down' = [down EXCEPT ![c] = Append(@, OpAck(hand[c].seq, log[hand[c].seq].clientSeq))]
    /\ hand' = [hand EXCEPT ![c] = Idle]
    /\ UNCHANGED <<clientVars, home, log, channel, fanned, faults, up>>

Acknowledge(c) ==
    /\ hand[c].stage = "acknowledge"
    /\ down' = [down EXCEPT ![c] = Append(@, OpAck(log[hand[c].seq].clientSeq, hand[c].seq))]
    /\ hand' = [hand EXCEPT ![c] = Idle]
    /\ UNCHANGED <<clientVars, home, log, channel, fanned, faults, up>>

\* The handler ends before the operation is stored: an ERROR, RATE_LIMITED for
\* one, which the client only logs, or an exception.
Refuse(c) ==
    /\ faults < MaxFaults
    /\ hand[c].stage = "idle"
    /\ up[c] # << >>
    /\ up' = [up EXCEPT ![c] = Tail(@)]
    /\ faults' = faults + 1
    /\ UNCHANGED <<clientVars, home, hand, log, channel, fanned, down>>

\* The publish throws, before or after Redis took the message: the operation
\* is stored, but its author gets no OP_ACK.
FailToPublish(c) ==
    /\ faults < MaxFaults
    /\ hand[c].stage = "publish"
    /\ channel' \in {channel, Append(channel, hand[c].seq)}
    /\ hand' = [hand EXCEPT ![c] = Idle]
    /\ faults' = faults + 1
    /\ UNCHANGED <<clientVars, home, log, fanned, up, down>>

----------------------------------------------------------------------------
(* Fan-out and what the client does with it. *)

\* Every JOIN on a worker adds a handler of its own for the document's
\* channel, and each handler sends to all sessions of the document.
Copies(w) == Cardinality({c \in Clients : home[c] = w})

FanOut(w) ==
    /\ fanned[w] < Len(channel)
    /\ LET copies == [i \in 1..Copies(w) |-> Broadcast(channel[fanned[w] + 1])]
       IN down' = [c \in Clients |-> IF home[c] = w THEN down[c] \o copies ELSE down[c]]
    /\ fanned' = [fanned EXCEPT ![w] = @ + 1]
    /\ UNCHANGED <<clientVars, home, hand, log, channel, faults, up>>

LaterOf(m, n) == IF m < n THEN n ELSE m

\* OfflineQueue.acknowledge, and a version that trusts the order of ACKs.
WithoutUpTo(messages, n) == Omit(messages, {m \in ToSet(messages) : m.clientSeq <= n})

Without(messages, n) == Omit(messages, {m \in ToSet(messages) : m.clientSeq = n})

ReceiveAck(c) ==
    /\ down[c] # << >> /\ Head(down[c]).type = "OP_ACK"
    /\ queue' = [queue EXCEPT ![c] = Without(@, Head(down[c]).clientSeq)]
    /\ lastSeq' = [lastSeq EXCEPT ![c] = LaterOf(@, Head(down[c]).serverSeq)]
    /\ down' = [down EXCEPT ![c] = Tail(@)]
    /\ UNCHANGED <<list, tomb, clock, clientSeq, serverVars, up>>

\* The clock follows a remote insert that was new and could be applied.
KeepClock(c, op) == clock[c]

ClockAfter(c, op) ==
    IF op.type = "INSERT" /\ ~Holds(list[c], op.uid) /\ Known(list[c], op.after)
    THEN LaterOf(clock[c], op.uid.clock)
    ELSE clock[c]

ReceiveBroadcast(c) ==
    /\ down[c] # << >> /\ Head(down[c]).type = "BROADCAST"
    /\ LET seq == Head(down[c]).serverSeq
           op == log[seq].op
       IN /\ lastSeq' = [lastSeq EXCEPT ![c] = LaterOf(@, seq)]
          /\ list' = [list EXCEPT ![c] = Apply(doc(c), op).list]
          /\ tomb' = [tomb EXCEPT ![c] = Apply(doc(c), op).tomb]
          /\ clock' = [clock EXCEPT ![c] = ClockAfter(c, op)]
    /\ down' = [down EXCEPT ![c] = Tail(@)]
    /\ UNCHANGED <<clientSeq, queue, serverVars, up>>

----------------------------------------------------------------------------
Handle(c) == Persist(c) \/ Publish(c) \/ Acknowledge(c)

Receive(c) == ReceiveAck(c) \/ ReceiveBroadcast(c)

Type(c) == LocalInsert(c) \/ LocalDelete(c) \/ LocalDeleteNothing(c)

\* Everything is delivered and nobody types any more.
Quiet ==
    /\ \A c \in Clients : up[c] = << >> /\ hand[c] = Idle /\ down[c] = << >>
    /\ \A w \in Workers : fanned[w] = Len(channel)

Rest == Quiet /\ Keystrokes = MaxEdits /\ UNCHANGED vars

Next ==
    \/ \E c \in Clients : Type(c) \/ Handle(c) \/ Receive(c)
    \/ \E c \in Clients : Refuse(c) \/ FailToPublish(c)
    \/ \E w \in Workers : FanOut(w)
    \/ Rest

\* Event loops run what is ready, TCP and Redis deliver; nobody has to type.
Fairness ==
    /\ \A c \in Clients : WF_vars(Handle(c)) /\ WF_vars(Receive(c))
    /\ \A w \in Workers : WF_vars(FanOut(w))

Spec == Init /\ [][Next]_vars /\ Fairness

----------------------------------------------------------------------------
(* The server's document: what loading the table from its start rebuilds. *)

ReplayOf(entries) == FoldLeft(Apply, EmptyDoc, [i \in DOMAIN entries |-> entries[i].op])

\* loadDocumentFromDB without a snapshot.
Stored == ReplayOf(log)

\* Every operation issued and not lost: it is stored or its author still has it.
Issued ==
    {log[i].op : i \in DOMAIN log}
        \cup UNION {{queue[c][i].op : i \in DOMAIN queue[c]} : c \in Clients}

Server == 0

Document == INSTANCE ReplicatedDocument WITH
    Replicas <- Clients \cup {Server},
    Sites <- Clients,
    MaxClock <- MaxEdits,
    list <- [r \in Clients \cup {Server} |-> IF r = Server THEN Stored.list ELSE list[r]],
    tomb <- [r \in Clients \cup {Server} |-> IF r = Server THEN Stored.tomb ELSE tomb[r]],
    ops <- Issued

\* The whole pipeline is replicas that only ever apply operations somebody
\* issued, with the stored log as one more replica; and an operation leaves
\* its author's offline queue only once it is stored, even if another
\* operation of that author was refused on the way.
ImplementsDocument == Document!Spec

\* The table replays without a causal gap: an operation gets its seq after
\* the one that inserted its anchor, although seqs are drawn by concurrent
\* handlers.
LogIsCausal ==
    faults = 0 =>
        \A i \in DOMAIN log : Applicable(ReplayOf(SubSeq(log, 1, i - 1)), log[i].op)

\* A client is never sent an operation it cannot apply (client-rga.ts:
\* "Causal gap - should not happen on client if ops are ordered"), although
\* the channel's order is not the order of seqs.
ClientsSeeNoGap ==
    faults = 0 =>
        \A c \in Clients :
            down[c] # << >> /\ Head(down[c]).type = "BROADCAST"
                => Applicable(doc(c), log[Head(down[c]).serverSeq].op)

\* A session's operations are stored in the order they were typed, each once.
StoredInTypingOrder ==
    \A i, j \in DOMAIN log :
        i < j /\ log[i].client = log[j].client => log[i].clientSeq < log[j].clientSeq

\* When everything sent has arrived, all clients show what the table says.
QuietMeansConverged ==
    faults = 0 /\ Quiet => \A c \in Clients : doc(c) = Stored /\ queue[c] = << >>

\* Nothing stays in the offline queue of a connected client for ever.
QueueDrains ==
    \A c \in Clients : (queue[c] # << >>) ~> (queue[c] = << >> \/ faults > 0)

\* Concurrent typing ends in one document everywhere.
EventuallyConverged ==
    <>[](faults > 0 \/ \A c \in Clients : doc(c) = Stored)

\* lastSeq is a position to resume from: every operation up to it has reached
\* the client (docs/ARCHITECTURE.md, Reconnection: a JOIN with lastSeq fetches
\* "all operations since `lastSeq`", and nothing else is sent again).
LastSeqCoversAll ==
    \A c \in Clients :
        \A seq \in 1..lastSeq[c] :
            \/ log[seq].op.type = "INSERT" /\ Holds(list[c], log[seq].op.uid)
            \/ log[seq].op.type = "DELETE" /\ log[seq].op.uid \in tomb[c]

\* No two keystrokes share a UID (src/crdt/uid.ts: "The combination of
\* (clock, siteId) is globally unique because: 1. siteId is a UUID").
UidsUnique ==
    LET typed == ToSet(log) \cup
                 UNION {{[client |-> c, clientSeq |-> m.clientSeq, op |-> m.op] :
                            m \in ToSet(queue[c])} : c \in Clients}
    IN \A t, v \in typed :
          t.op.type = "INSERT" /\ v.op.type = "INSERT" /\ t.op.uid = v.op.uid => t = v
=============================================================================
