----------------------------- MODULE ClientSync -----------------------------
(***************************************************************************)
(* Joining, losing and regaining the connection: the editor hook with its  *)
(* offline queue (src/client), the JOIN handler step by step, the sessions *)
(* with their message loops, the replay guard and the missed operations    *)
(* (src/server).                                                           *)
(*                                                                         *)
(* One worker serves the document, has it in memory and is subscribed to   *)
(* its channel; its copy is never evicted nor compacted. What eviction,    *)
(* compaction and further workers do is DocumentServer's subject; the      *)
(* order of duplicates of a broadcast is LiveEditing's, one is sent here.  *)
(***************************************************************************)
EXTENDS RGA

CONSTANTS
    Clients,         \* the editors, each in a browser of its own; also their sites
    PayloadLimit,    \* inserted characters after which the whole document is sent
    ReloadQueued,    \* whether a page may be reloaded while operations are queued
    MaxEdits,        \* bound: keystrokes of all clients together
    Roaming,         \* bound: the editors that join during the behaviour, and may have to again
    MaxDrops,        \* bound: connections lost
    MaxIncidents     \* bound: pages reloaded, nonces forgotten, operations refused or failed

ASSUME ClientsAssumption == Clients \subseteq Nat \ {0} /\ IsFiniteSet(Clients)

ASSUME RoamingAssumption == Roaming \subseteq Clients

ASSUME ReloadAssumption == ReloadQueued \in BOOLEAN

ASSUME BoundsAssumption ==
    /\ PayloadLimit \in Nat
    /\ MaxEdits \in Nat /\ MaxDrops \in Nat /\ MaxIncidents \in Nat

VARIABLES
    joined,       \* joined[c]: whether the page of c has a document
    doc,          \* doc[c]: the client's replica
    clientSeq,    \* clientSeq[c]: the number of its last keystroke
    queue,        \* queue[c]: its offline queue, in localStorage
    lastSeq,      \* lastSeq[c]: the greatest seq it heard of
    conn,         \* conn[c]: the connection it has open, 0 for none
    gaveUp,       \* gaveUp[c]: whether it stays disconnected
    typed,        \* typed[c]: how many keystrokes it ever sent, which makes nonces new
    connections,  \* every connection ever made, client's and server's end of it
    memory,       \* the document in the worker's memory
    log,          \* the operations table
    channel,      \* the document's channel, as seqs
    fanned,       \* how much of it was fanned out
    nonces,       \* what the replay guard remembers
    expired,      \* what it had to forget
    gap,          \* ghost: whether an operation met a causal gap in memory
    failed,       \* ghost: whether an operation was refused or its handler failed
    drops, incidents

pageVars == <<joined, doc, clientSeq, lastSeq>>
clientVars == <<pageVars, queue, conn, gaveUp, typed>>
storeVars == <<log, channel, fanned>>
guardVars == <<nonces, expired>>
boundVars == <<drops, incidents>>
serverVars == <<memory, storeVars, guardVars, gap, failed>>
vars == <<clientVars, connections, serverVars, boundVars>>

Uids == UID(Clients)

Operation ==
    [type : {"INSERT"}, uid : Uids, after : Uids \cup {Root}] \cup [type : {"DELETE"}, uid : Uids]

Document == [list : Seq(Uids), tomb : SUBSET Uids]

Nonce == Clients \X Nat

Message == [clientSeq : Nat, nonce : Nonce, op : Operation]

JoinAck(nodes, from, to) == [type |-> "JOIN_ACK", nodes |-> nodes, from |-> from, to |-> to]

OpAck(n, seq) == [type |-> "OP_ACK", clientSeq |-> n, serverSeq |-> seq]

Broadcast(seq) == [type |-> "BROADCAST", serverSeq |-> seq]

Close == [type |-> "CLOSE"]

ServerMessage ==
    [type : {"JOIN_ACK"}, nodes : Document, from : 0..Len(log), to : 0..Len(log)]
        \cup [type : {"OP_ACK"}, clientSeq : Nat, serverSeq : DOMAIN log]
        \cup [type : {"BROADCAST"}, serverSeq : DOMAIN log]
        \cup {Close}

NoMessage == [clientSeq |-> 0]
Idle == [stage |-> "idle", msg |-> NoMessage, seq |-> 0]

\* Where the handler is, with its operation and, once stored, its seq.
Hand ==
    {Idle} \cup [stage : {"append"}, msg : Message, seq : {0}]
        \cup [stage : {"publish", "acknowledge"}, msg : Message, seq : DOMAIN log]

\* stage is how far the JOIN is: received, missed operations read, session
\* registered, JOIN_ACK sent. since is the JOIN's lastSeq, upto the seq to
\* which missed operations were read, whole says that all nodes were sent.
Connection ==
    [client : Clients, socket : {"open", "closing", "gone"},
     stage : {"join", "missed", "registered", "live"},
     since : 0..Len(log), upto : 0..Len(log), whole : BOOLEAN,
     inbox : Seq(Message), out : Seq(ServerMessage), hand : Hand]

TypeOK ==
    /\ joined \in [Clients -> BOOLEAN] /\ gaveUp \in [Clients -> BOOLEAN]
    /\ doc \in [Clients -> Document]
    /\ clientSeq \in [Clients -> Nat]
    /\ queue \in [Clients -> Seq(Message)]
    /\ lastSeq \in [Clients -> 0..Len(log)]
    /\ conn \in [Clients -> 0..Len(connections)]
    /\ typed \in [Clients -> 0..MaxEdits]
    /\ connections \in Seq(Connection)
    /\ memory \in Document
    /\ log \in Seq(Message)
    /\ channel \in Seq(DOMAIN log) /\ fanned \in 0..Len(channel)
    /\ nonces \subseteq Nonce /\ expired \subseteq Nonce
    /\ gap \in BOOLEAN /\ failed \in BOOLEAN
    /\ drops \in 0..MaxDrops /\ incidents \in 0..MaxIncidents

----------------------------------------------------------------------------
(* A connection, and where everybody starts. *)

\* The client's socket opens, and the JOIN goes out with its lastSeq.
Opened(c, since) ==
    [client |-> c, socket |-> "open", stage |-> "join", since |-> since, upto |-> 0,
     whole |-> FALSE, inbox |-> << >>, out |-> << >>, hand |-> Idle]

Joined(c) == [Opened(c, 0) EXCEPT !.stage = "live", !.whole = TRUE]

\* The others have joined the empty document; a roaming client has just opened
\* the page, and its JOIN is under way.
Init ==
    /\ joined = [c \in Clients |-> c \notin Roaming]
    /\ doc = [c \in Clients |-> EmptyDoc]
    /\ clientSeq = [c \in Clients |-> 0]
    /\ queue = [c \in Clients |-> << >>]
    /\ lastSeq = [c \in Clients |-> 0]
    /\ conn = [c \in Clients |-> CHOOSE k \in 1..Cardinality(Clients) : SetToSeq(Clients)[k] = c]
    /\ connections = [k \in 1..Cardinality(Clients) |->
                         LET c == SetToSeq(Clients)[k]
                         IN IF c \in Roaming THEN Opened(c, 0) ELSE Joined(c)]
    /\ gaveUp = [c \in Clients |-> FALSE]
    /\ typed = [c \in Clients |-> 0]
    /\ memory = EmptyDoc
    /\ log = << >> /\ channel = << >> /\ fanned = 0
    /\ nonces = {} /\ expired = {}
    /\ gap = FALSE /\ failed = FALSE
    /\ drops = 0 /\ incidents = 0

Socket(k) == connections[k].socket

Registered(k) == connections[k].stage \in {"registered", "live"}

\* Messages the client sends over k, in order.
SentUp(k, messages) ==
    connections' = IF k = 0 THEN connections
                   ELSE [connections EXCEPT ![k].inbox = @ \o messages]

\* sendToSession: nothing to a socket that is not open.
Told(connection, msg) ==
    IF connection.socket = "open" THEN [connection EXCEPT !.out = Append(@, msg)]
    ELSE connection

----------------------------------------------------------------------------
(* The JOIN handler. *)

\* The reconnect timer fires.
Connect(c) ==
    /\ conn[c] = 0 /\ ~gaveUp[c]
    /\ connections' = Append(connections, Opened(c, lastSeq[c]))
    /\ conn' = [conn EXCEPT ![c] = Len(connections) + 1]
    /\ UNCHANGED <<pageVars, queue, gaveUp, typed, serverVars, boundVars>>

\* getMissedOperations
ReadMissed(k) ==
    /\ Socket(k) # "gone" /\ connections[k].stage = "join"
    /\ connections[k].since > 0
    /\ connections' = [connections EXCEPT ![k].stage = "missed", ![k].upto = Len(log)]
    /\ UNCHANGED <<clientVars, serverVars, boundVars>>

\* registerSession. A first JOIN has no missed operations to read.
Register(k) ==
    /\ Socket(k) # "gone"
    /\ \/ connections[k].stage = "missed"
       \/ connections[k].stage = "join" /\ connections[k].since = 0
    /\ connections' = [connections EXCEPT ![k].stage = "registered"]
    /\ UNCHANGED <<clientVars, serverVars, boundVars>>

Missed(from, to) == [i \in 1..(to - from) |-> log[from + i].op]

\* shouldForceFullReload: too many characters among the missed operations.
Oversized(ops) == Len(SelectSeq(ops, LAMBDA op : op.type = "INSERT")) > PayloadLimit

\* JOIN_ACK: the document in memory when there is nothing to go on from or
\* too much to tell, and no node of it otherwise.
SendAck(k) ==
    LET since == connections[k].since
        upto == connections[k].upto
        whole == since = 0 \/ Oversized(Missed(since, upto))
        ack == IF whole THEN JoinAck(memory, 0, 0) ELSE JoinAck(EmptyDoc, since, upto)
    IN /\ Socket(k) # "gone" /\ connections[k].stage = "registered"
       /\ connections' = [connections EXCEPT
             ![k] = [Told(@, ack) EXCEPT !.stage = "live", !.whole = whole]]
       /\ UNCHANGED <<clientVars, serverVars, boundVars>>

\* An OPERATION that comes before the session exists is taken for a JOIN: an
\* invalid one, which closes the socket with 4001 while the JOIN goes on.
RejectEarly(k) ==
    /\ Socket(k) # "gone" /\ ~Registered(k)
    /\ connections[k].inbox # << >>
    /\ connections' = [connections EXCEPT
          ![k] = [Told(connections[k], Close) EXCEPT !.inbox = Tail(@), !.socket = "closing"]]
    /\ UNCHANGED <<clientVars, serverVars, boundVars>>

----------------------------------------------------------------------------
(* A session's message loop. It outlives its socket: what had arrived is   *)
(* handled, next to the client's new session if there is one.              *)

Waiting(k) ==
    /\ Registered(k)
    /\ connections[k].hand.stage = "idle" /\ connections[k].inbox # << >>

Discard(k) == connections' = [connections EXCEPT ![k].inbox = Tail(@)]

\* The operation is applied in memory, and the append is under way.
Accept(k) ==
    LET msg == Head(connections[k].inbox)
    IN /\ memory' = Apply(memory, msg.op)
       /\ gap' = (gap \/ ~Applicable(memory, msg.op))
       /\ connections' = [connections EXCEPT
             ![k].inbox = Tail(@), ![k].hand = [Idle EXCEPT !.stage = "append", !.msg = msg]]

\* The nonce is looked up in the table, as when Redis is unavailable.
TakeUnlessStored(k) ==
    LET msg == Head(connections[k].inbox)
    IN /\ Waiting(k)
       /\ ~\E i \in DOMAIN log : log[i].nonce = msg.nonce
       /\ Accept(k)
       /\ nonces' = nonces \cup {msg.nonce}
       /\ UNCHANGED <<clientVars, storeVars, expired, failed, boundVars>>

\* isReplay registers a new nonce at once.
Take(k) ==
    LET msg == Head(connections[k].inbox)
    IN /\ Waiting(k)
       /\ msg.nonce \notin nonces
       /\ Accept(k)
       /\ nonces' = nonces \cup {msg.nonce}
       /\ UNCHANGED <<clientVars, storeVars, expired, failed, boundVars>>

\* An OP_ACK for what is known already, so that the client can forget it.
AcknowledgeReplay(k) ==
    LET msg == Head(connections[k].inbox)
    IN /\ Waiting(k)
       /\ msg.nonce \in nonces
       /\ connections' = [connections EXCEPT
             ![k] = [Told(connections[k], OpAck(msg.clientSeq, Len(log))) EXCEPT !.inbox = Tail(@)]]
       /\ UNCHANGED <<clientVars, serverVars, boundVars>>

\* REPLAY_DETECTED, which the client only logs.
RefuseReplay(k) ==
    /\ Waiting(k)
    /\ Head(connections[k].inbox).nonce \in nonces
    /\ Discard(k)
    /\ UNCHANGED <<clientVars, serverVars, boundVars>>

\* RATE_LIMITED, or the replay guard's own refusal in an outage.
Refuse(k) ==
    /\ incidents < MaxIncidents
    /\ Waiting(k)
    /\ Discard(k)
    /\ failed' = TRUE /\ incidents' = incidents + 1
    /\ UNCHANGED <<clientVars, memory, storeVars, guardVars, gap, drops>>

Persist(k) ==
    LET msg == connections[k].hand.msg
    IN /\ connections[k].hand.stage = "append"
       /\ log' = Append(log, msg)
       /\ connections' = [connections EXCEPT ![k].hand.stage = "publish",
                                             ![k].hand.seq = Len(log) + 1]
       /\ UNCHANGED <<clientVars, memory, channel, fanned, guardVars, gap, failed, boundVars>>

Publish(k) ==
    /\ connections[k].hand.stage = "publish"
    /\ channel' = Append(channel, connections[k].hand.seq)
    /\ connections' = [connections EXCEPT ![k].hand.stage = "acknowledge"]
    /\ UNCHANGED <<clientVars, memory, log, fanned, guardVars, gap, failed, boundVars>>

\* The two numbers of an OP_ACK exchanged.
AcknowledgeSwapped(k) ==
    LET hand == connections[k].hand
    IN /\ hand.stage = "acknowledge"
       /\ connections' = [connections EXCEPT
             ![k] = [Told(@, OpAck(hand.seq, hand.msg.clientSeq)) EXCEPT !.hand = Idle]]
       /\ UNCHANGED <<clientVars, serverVars, boundVars>>

Acknowledge(k) ==
    LET hand == connections[k].hand
    IN /\ hand.stage = "acknowledge"
       /\ connections' = [connections EXCEPT
             ![k] = [Told(@, OpAck(hand.msg.clientSeq, hand.seq)) EXCEPT !.hand = Idle]]
       /\ UNCHANGED <<clientVars, serverVars, boundVars>>

\* The append or the publish throws, the latter before or after Redis took the
\* message. An append that throws after it took effect is like the former.
HandlerFails(k) ==
    /\ incidents < MaxIncidents
    /\ \/ connections[k].hand.stage = "append" /\ UNCHANGED channel
       \/ /\ connections[k].hand.stage = "publish"
          /\ channel' \in {channel, Append(channel, connections[k].hand.seq)}
    /\ connections' = [connections EXCEPT ![k].hand = Idle]
    /\ failed' = TRUE /\ incidents' = incidents + 1
    /\ UNCHANGED <<clientVars, memory, log, fanned, guardVars, gap, drops>>

\* To everybody but the originator.
FanOutToOthers ==
    LET seq == channel[fanned + 1]
    IN /\ fanned < Len(channel)
       /\ connections' = [k \in DOMAIN connections |->
             IF Registered(k) /\ connections[k].client # log[seq].nonce[1]
             THEN Told(connections[k], Broadcast(seq)) ELSE connections[k]]
       /\ fanned' = fanned + 1
       /\ UNCHANGED <<clientVars, memory, log, channel, guardVars, gap, failed, boundVars>>

\* To every session of the document, the originator's own included.
FanOut ==
    /\ fanned < Len(channel)
    /\ connections' = [k \in DOMAIN connections |->
                          IF Registered(k) THEN Told(connections[k], Broadcast(channel[fanned + 1]))
                          ELSE connections[k]]
    /\ fanned' = fanned + 1
    /\ UNCHANGED <<clientVars, memory, log, channel, guardVars, gap, failed, boundVars>>

\* Redis forgets a nonce after REPLAY_WINDOW_SECONDS.
Expire ==
    /\ incidents < MaxIncidents
    /\ incidents' = incidents + 1
    /\ \E nonce \in nonces :
          nonces' = nonces \ {nonce} /\ expired' = expired \cup {nonce}
    /\ UNCHANGED <<clientVars, connections, memory, storeVars, gap, failed, drops>>

----------------------------------------------------------------------------
(* The editor. *)

Clock(d) == Max({u.clock : u \in ToSet(d.list)} \cup {0})

Keystrokes == FoldFunction(+, 0, typed)

Edits(c) ==
    LET visible == VisibleUids(doc[c])
    IN {InsertOp([clock |-> Clock(doc[c]) + 1, site |-> c], a) : a \in visible \cup {Root}}
           \cup {DeleteOp(u) : u \in visible}

\* localInsert and localDelete, connected or not. A delete of nothing, which
\* uses a number up and no more, is LiveEditing's.
Type(c) ==
    /\ joined[c] /\ Keystrokes < MaxEdits
    /\ \E op \in Edits(c) :
          LET msg == [clientSeq |-> clientSeq[c] + 1, nonce |-> <<c, typed[c]>>, op |-> op]
          IN /\ doc' = [doc EXCEPT ![c] = Apply(@, op)]
             /\ queue' = [queue EXCEPT ![c] = Append(@, msg)]
             /\ SentUp(conn[c], <<msg>>)
    /\ clientSeq' = [clientSeq EXCEPT ![c] = @ + 1]
    /\ typed' = [typed EXCEPT ![c] = @ + 1]
    /\ UNCHANGED <<joined, lastSeq, conn, gaveUp, serverVars, boundVars>>

Incoming(c) == Head(connections[conn[c]].out)

HasMessage(c, type) ==
    /\ conn[c] # 0
    /\ connections[conn[c]].out # << >> /\ Incoming(c).type = type

Received(c) == connections' = [connections EXCEPT ![conn[c]].out = Tail(@)]

LaterOf(m, n) == IF m < n THEN n ELSE m

\* OfflineQueue.acknowledge
Without(messages, n) == Omit(messages, {m \in ToSet(messages) : m.clientSeq = n})

\* The document is built anew; what is queued goes out again. The first of
\* these sends it only when operations were missed.
RejoinResendingIfMissed(c) ==
    LET ack == Incoming(c)
        k == conn[c]
    IN /\ HasMessage(c, "JOIN_ACK")
       /\ joined' = [joined EXCEPT ![c] = TRUE]
       /\ doc' = [doc EXCEPT ![c] = FoldLeft(Apply, ack.nodes, Missed(ack.from, ack.to))]
       /\ lastSeq' = [lastSeq EXCEPT ![c] = LaterOf(@, ack.to)]
       /\ connections' = [connections EXCEPT ![k].out = Tail(@),
             ![k].inbox = IF ack.to > ack.from THEN @ \o queue[c] ELSE @]
       /\ UNCHANGED <<clientSeq, queue, conn, gaveUp, typed, serverVars, boundVars>>

ReceiveJoinAck(c) ==
    LET ack == Incoming(c)
        k == conn[c]
    IN /\ HasMessage(c, "JOIN_ACK")
       /\ joined' = [joined EXCEPT ![c] = TRUE]
       /\ doc' = [doc EXCEPT ![c] = FoldLeft(Apply, ack.nodes, Missed(ack.from, ack.to))]
       /\ lastSeq' = [lastSeq EXCEPT ![c] = IF ack.to > ack.from THEN LaterOf(@, ack.to) ELSE @]
       /\ connections' = [connections EXCEPT ![k].out = Tail(@), ![k].inbox = @ \o queue[c]]
       /\ UNCHANGED <<clientSeq, queue, conn, gaveUp, typed, serverVars, boundVars>>

ReceiveAck(c) ==
    /\ HasMessage(c, "OP_ACK")
    /\ queue' = [queue EXCEPT ![c] = Without(@, Incoming(c).clientSeq)]
    /\ lastSeq' = [lastSeq EXCEPT ![c] = LaterOf(@, Incoming(c).serverSeq)]
    /\ Received(c)
    /\ UNCHANGED <<joined, doc, clientSeq, conn, gaveUp, typed, serverVars, boundVars>>

\* A broadcast before the JOIN_ACK of a new page is lost on it, but not its seq.
ReceiveBroadcast(c) ==
    LET seq == Incoming(c).serverSeq
    IN /\ HasMessage(c, "BROADCAST")
       /\ lastSeq' = [lastSeq EXCEPT ![c] = LaterOf(@, seq)]
       /\ doc' = IF joined[c] THEN [doc EXCEPT ![c] = Apply(@, log[seq].op)] ELSE doc
       /\ Received(c)
       /\ UNCHANGED <<joined, clientSeq, queue, conn, gaveUp, typed, serverVars, boundVars>>

\* The connection k is over on both ends. Of what the client had sent, the
\* first n messages had reached the session; without a session they are lost.
Cut(k, n) ==
    LET over == [connections[k] EXCEPT
                    !.socket = "gone", !.stage = IF Registered(k) THEN "live" ELSE "join",
                    !.since = 0, !.upto = 0, !.whole = FALSE,
                    !.inbox = SubSeq(@, 1, n), !.out = << >>]
    IN connections' = [connections EXCEPT ![k] = over]

Arrived(k) == IF Registered(k) THEN 0..Len(connections[k].inbox) ELSE {0}

\* Close code 4001: the hook does not reconnect.
ReceiveClose(c) ==
    /\ HasMessage(c, "CLOSE")
    /\ \E n \in Arrived(conn[c]) : Cut(conn[c], n)
    /\ conn' = [conn EXCEPT ![c] = 0]
    /\ gaveUp' = [gaveUp EXCEPT ![c] = TRUE]
    /\ UNCHANGED <<pageVars, queue, typed, serverVars, boundVars>>

\* The network fails, the heartbeat or the send-queue limit ends the socket.
Drop(c) ==
    /\ conn[c] # 0
    /\ c \in Roaming /\ drops < MaxDrops
    /\ \E n \in Arrived(conn[c]) : Cut(conn[c], n)
    /\ conn' = [conn EXCEPT ![c] = 0]
    /\ drops' = drops + 1
    /\ UNCHANGED <<pageVars, queue, gaveUp, typed, serverVars, incidents>>

\* A new page: only the client id and the queue are in localStorage.
Reload(c) ==
    /\ conn[c] = 0 /\ joined[c]
    /\ c \in Roaming /\ incidents < MaxIncidents
    /\ queue[c] = << >> \/ ReloadQueued
    /\ joined' = [joined EXCEPT ![c] = FALSE]
    /\ doc' = [doc EXCEPT ![c] = EmptyDoc]
    /\ clientSeq' = [clientSeq EXCEPT ![c] = 0]
    /\ lastSeq' = [lastSeq EXCEPT ![c] = 0]
    /\ gaveUp' = [gaveUp EXCEPT ![c] = FALSE]
    /\ incidents' = incidents + 1
    /\ UNCHANGED <<queue, conn, typed, connections, serverVars, drops>>

----------------------------------------------------------------------------
Joining(k) == ReadMissed(k) \/ Register(k) \/ SendAck(k)

Handle(k) == Take(k) \/ RefuseReplay(k) \/ Persist(k) \/ Publish(k) \/ Acknowledge(k)

Receive(c) == ReceiveJoinAck(c) \/ ReceiveAck(c) \/ ReceiveBroadcast(c) \/ ReceiveClose(c)

\* Nothing is under way.
Quiet ==
    /\ fanned = Len(channel)
    /\ \A k \in DOMAIN connections :
          /\ connections[k].inbox = << >> /\ connections[k].out = << >>
          /\ connections[k].hand = Idle
          /\ Socket(k) # "gone" => connections[k].stage = "live"

Rest == Quiet /\ UNCHANGED vars

Next ==
    \/ \E c \in Clients : Connect(c) \/ Type(c) \/ Receive(c) \/ Drop(c) \/ Reload(c)
    \/ \E k \in DOMAIN connections : Joining(k) \/ RejectEarly(k) \/ Handle(k)
    \/ \E k \in DOMAIN connections : Refuse(k) \/ HandlerFails(k)
    \/ FanOut \/ Expire \/ Rest

Spec == Init /\ [][Next]_vars

----------------------------------------------------------------------------
\* A re-sent operation meets its first copy, handled or still being handled by
\* the session of the connection that was lost: it is stored once, unless the
\* replay guard had to forget its nonce (src/server/security/replay-guard.ts).
StoredOnce ==
    \A i, j \in DOMAIN log : log[i].nonce = log[j].nonce => i = j \/ log[i].nonce \in expired

Stored(msg) == \E i \in DOMAIN log : log[i].nonce = msg.nonce

\* An operation leaves the offline queue only once it is stored, across lost
\* connections, re-sent operations and refusals, as long as no page starts
\* again to number its operations beside queued ones.
AcknowledgedMeansStored ==
    [][\A c \in Clients : \A msg \in ToSet(queue[c]) \ ToSet(queue'[c]) : Stored(msg)]_vars

\* What a connected client typed, online or not, is stored when nothing is
\* under way any more: an operation is sent, re-sent, or refused as a replay of
\* one that arrived (src/client/crdt/offline-queue.ts, On reconnect).
QueuedMeansStored ==
    Quiet /\ ~failed =>
        \A c \in Clients : conn[c] # 0 => \A msg \in ToSet(queue[c]) : Stored(msg)

Published == [i \in DOMAIN channel |-> log[channel[i]].op]

\* Nobody has drawn a UID twice nor met a causal gap, as may happen to who
\* types while or after rejoining with a lastSeq.
Orderly ==
    /\ ~gap /\ ~failed
    /\ \A i \in DOMAIN Published :
          Applicable(FoldLeft(Apply, EmptyDoc, SubSeq(Published, 1, i - 1)), Published[i])
    /\ \A i, j \in DOMAIN log :
          /\ log[i].op.type = "INSERT" /\ log[j].op.type = "INSERT"
          /\ log[i].op.uid = log[j].op.uid
          => log[i].nonce = log[j].nonce

\* Who got all nodes in JOIN_ACK and has received everything shows the
\* document, although operations were applied, stored and published between
\* any two steps of the JOIN.
JoinerIsCurrent ==
    Quiet /\ Orderly =>
        \A c \in Clients : conn[c] # 0 /\ connections[conn[c]].whole => doc[c] = memory

\* src/server/sync/offline-merger.ts: a client that reconnects has "A local
\* CRDT state" and merges the missed operations into it, so it too shows the
\* document.
RejoinerIsCurrent ==
    Quiet /\ Orderly => \A c \in Clients : conn[c] # 0 => doc[c] = memory
=============================================================================
