-------------------------- MODULE LiveEditing_proofs --------------------------
(***************************************************************************)
(* Proofs about LiveEditing for any number of clients, workers, keystrokes *)
(* and faults, in this order: its types; the table has every author's      *)
(* operations in the order of typing; the books queue, session, table and  *)
(* answers keep of one keystroke; the pipeline implements the replicated   *)
(* document and so converges; while no handler fails, causes come before   *)
(* effects everywhere, and a quiet system has one document; no UID twice.  *)
(***************************************************************************)
EXTENDS LiveEditing, RGA_proofs

Uids == UID(Sites)

ServerMessages(seqs) ==
    [type : {"OP_ACK"}, clientSeq : Nat, serverSeq : seqs] \cup [type : {"BROADCAST"}, serverSeq : seqs]

\* TypeOK, its sets named.
PipelineTypeOK ==
    /\ home \in Homes
    /\ list \in [Clients -> Seq(Uids)]
    /\ tomb \in [Clients -> SUBSET Uids]
    /\ clock \in [Clients -> Nat]
    /\ clientSeq \in [Clients -> Nat]
    /\ queue \in [Clients -> Seq(Message)]
    /\ lastSeq \in [Clients -> 0..Len(log)]
    /\ up \in [Clients -> Seq(Message)]
    /\ log \in Seq(Entry)
    /\ hand \in [Clients -> [stage : {"idle", "publish", "acknowledge"}, seq : 0..Len(log)]]
    /\ channel \in Seq(DOMAIN log)
    /\ fanned \in [Workers -> 0..Len(channel)]
    /\ down \in [Clients -> Seq(ServerMessages(DOMAIN log))]
    /\ faults \in 0..MaxFaults

\* A handler that has stored an operation knows its seq.
HandsHoldSeqs == \A c \in Clients : hand[c].stage # "idle" => hand[c].seq \in DOMAIN log

\* What a session has not handled yet was typed in this order, and after what
\* the table has of the same client.
TypedLater ==
    /\ \A c \in Clients : \A i, j \in DOMAIN up[c] : i < j => up[c][i].clientSeq < up[c][j].clientSeq
    /\ \A c \in Clients : \A i \in DOMAIN up[c] : up[c][i].clientSeq <= clientSeq[c]
    /\ \A i \in DOMAIN log : log[i].clientSeq <= clientSeq[log[i].client]
    /\ \A i \in DOMAIN log : \A j \in DOMAIN up[log[i].client] :
          log[i].clientSeq < up[log[i].client][j].clientSeq

IInv == PipelineTypeOK /\ HandsHoldSeqs /\ TypedLater /\ StoredInTypingOrder

----------------------------------------------------------------------------
(* Types. *)

\* Seqs of a shorter table are seqs of a longer one.
LEMMA SeqsStay ==
    ASSUME NEW S, NEW T, S \subseteq T
    PROVE  /\ Seq(S) \subseteq Seq(T)
           /\ ServerMessages(S) \subseteq ServerMessages(T)
           /\ Seq(ServerMessages(S)) \subseteq Seq(ServerMessages(T))
<1>1. \A U, V : U \subseteq V => Seq(U) \subseteq Seq(V)
  OBVIOUS
<1>2. ServerMessages(S) \subseteq ServerMessages(T)
  BY DEF ServerMessages
<1>3. QED
  BY <1>1, <1>2

\* applyOperation of either kind gives a document of the same UIDs.
LEMMA ApplyTypes ==
    ASSUME NEW d, d.list \in Seq(Uids), d.tomb \in SUBSET Uids, d = [list |-> d.list, tomb |-> d.tomb],
           NEW op \in Operation
    PROVE  Apply(d, op).list \in Seq(Uids) /\ Apply(d, op).tomb \in SUBSET Uids
<1>1. CASE op.type = "INSERT"
  <2>1. op.uid \in Uids /\ op.after \in Uids \cup {Root}
    BY <1>1 DEF Operation, Uids
  <2>2. Known(d.list, op.after) => Place(d.list, op.after, op.uid) \in Seq(Uids)
    BY <2>1, PlaceSplices
  <2>3. QED
    BY <1>1, <2>2 DEF Apply, ApplyInsert
<1>2. CASE op.type # "INSERT"
  <2>1. op.uid \in Uids
    BY <1>2 DEF Operation, Uids
  <2>2. QED
    BY <1>2, <2>1 DEF Apply, ApplyDelete
<1>3. QED
  BY <1>1, <1>2

\* The UID a client gives a character it types (insertLocal: its own siteId).
LEMMA NewUid ==
    ASSUME NEW c \in Clients, NEW n \in Nat
    PROVE  [clock |-> n, site |-> SiteOf[c]] \in Uids
BY DEF Uids, UID, Sites

\* A client's document (RGADocument: elements and tombstones) is a list and a
\* set of UIDs, and what the editor shows of it are UIDs.
LEMMA TypeParts ==
    ASSUME PipelineTypeOK, NEW c \in Clients
    PROVE  /\ list[c] \in Seq(Uids) /\ tomb[c] \in SUBSET Uids
           /\ doc(c) = [list |-> doc(c).list, tomb |-> doc(c).tomb]
           /\ doc(c).list = list[c] /\ doc(c).tomb = tomb[c]
           /\ VisibleUids(doc(c)) \subseteq Uids
<1>1. list[c] \in Seq(Uids) /\ tomb[c] \in SUBSET Uids
  BY DEF PipelineTypeOK, Uids
<1>2. \A i \in DOMAIN list[c] : list[c][i] \in Uids
  BY <1>1
<1>3. ToSet(list[c]) \subseteq Uids
  BY <1>2 DEF ToSet
<1>4. QED
  BY <1>1, <1>3 DEF doc, VisibleUids

----------------------------------------------------------------------------
(* Typing. *)

\* Submit appends one message, numbered one higher.
LEMMA SubmitTypes ==
    ASSUME PipelineTypeOK, NEW c \in Clients, NEW op \in Operation, Submit(c, op)
    PROVE  /\ clientSeq' \in [Clients -> Nat]
           /\ queue' \in [Clients -> Seq(Message)]
           /\ up' \in [Clients -> Seq(Message)]
<1>1. [clientSeq |-> clientSeq[c] + 1, op |-> op] \in Message
  BY DEF PipelineTypeOK, Message
<1>2. up[c] \in Seq(Message) /\ queue[c] \in Seq(Message)
  BY DEF PipelineTypeOK
<1>3. QED
  BY SMTT(60), <1>1, <1>2 DEF PipelineTypeOK, Submit, Enqueue

\* Typing leaves every variable of its type.
LEMMA TypeKeepsTypes ==
    ASSUME PipelineTypeOK, HandsHoldSeqs, NEW c \in Clients, Type(c)
    PROVE  PipelineTypeOK' /\ HandsHoldSeqs'
<1> USE DEF serverVars
<1>1. CASE LocalInsert(c)
  <2>1. PICK a \in {Root} \cup VisibleUids(doc(c)) :
          LET u == [clock |-> clock[c] + 1, site |-> SiteOf[c]]
          IN /\ list' = [list EXCEPT ![c] = ApplyInsert(doc(c), InsertOp(u, a)).list]
             /\ clock' = [clock EXCEPT ![c] = @ + 1]
             /\ Submit(c, InsertOp(u, a))
    BY <1>1 DEF LocalInsert
  <2> DEFINE op == InsertOp([clock |-> clock[c] + 1, site |-> SiteOf[c]], a)
  <2>2. clock[c] + 1 \in Nat
    BY DEF PipelineTypeOK
  <2>3. op \in Operation
    BY <2>2, NewUid, TypeParts DEF InsertOp, Operation, Uids
  <2>4. ApplyInsert(doc(c), op).list \in Seq(Uids)
    <3>1. Apply(doc(c), op).list \in Seq(Uids)
      BY <2>3, TypeParts, ApplyTypes
    <3>2. QED
      BY <3>1 DEF Apply, InsertOp
  <2>5. /\ clientSeq' \in [Clients -> Nat] /\ up' \in [Clients -> Seq(Message)]
        /\ queue' \in [Clients -> Seq(Message)]
    BY <2>1, <2>3, SubmitTypes
  <2> HIDE DEF op
  <2>6. list' \in [Clients -> Seq(Uids)] /\ clock' \in [Clients -> Nat]
    BY <2>1, <2>2, <2>4 DEF PipelineTypeOK, Uids, op
  <2>7. UNCHANGED <<tomb, lastSeq, serverVars, down>>
    BY <1>1 DEF LocalInsert
  <2>8. QED
    BY <2>5, <2>6, <2>7 DEF PipelineTypeOK, HandsHoldSeqs, Uids
<1>2. CASE LocalDelete(c)
  <2>1. PICK u \in VisibleUids(doc(c)) :
            tomb' = [tomb EXCEPT ![c] = @ \cup {u}] /\ Submit(c, DeleteOp(u))
    BY <1>2 DEF LocalDelete
  <2>2. u \in Uids
    BY TypeParts
  <2>3. DeleteOp(u) \in Operation
    BY <2>2 DEF DeleteOp, Operation, Uids
  <2>4. /\ clientSeq' \in [Clients -> Nat] /\ up' \in [Clients -> Seq(Message)]
        /\ queue' \in [Clients -> Seq(Message)]
    BY <2>1, <2>3, SubmitTypes
  <2>5. tomb' \in [Clients -> SUBSET Uids]
    BY <2>1, <2>2 DEF PipelineTypeOK, Uids
  <2>6. UNCHANGED <<list, clock, lastSeq, serverVars, down>>
    BY <1>2 DEF LocalDelete
  <2>7. QED
    BY <2>4, <2>5, <2>6 DEF PipelineTypeOK, HandsHoldSeqs, Uids
<1>3. CASE LocalDeleteNothing(c)
  <2>1. clientSeq' \in [Clients -> Nat]
    BY SMTT(60), <1>3 DEF LocalDeleteNothing, PipelineTypeOK
  <2>2. UNCHANGED <<list, tomb, clock, queue, lastSeq, serverVars, up, down>>
    BY <1>3 DEF LocalDeleteNothing
  <2>3. QED
    BY <2>1, <2>2 DEF PipelineTypeOK, HandsHoldSeqs
<1>4. QED
  BY <1>1, <1>2, <1>3 DEF Type

----------------------------------------------------------------------------
(* The handler. *)

\* So does the server's handling of a message, refused or stored
\* (processMessageQueue, handleOperation).
LEMMA HandleKeepsTypes ==
    ASSUME PipelineTypeOK, HandsHoldSeqs, NEW c \in Clients, Handle(c) \/ Refuse(c) \/ FailToPublish(c)
    PROVE  PipelineTypeOK' /\ HandsHoldSeqs'
<1> USE DEF clientVars
<1>1. CASE Persist(c)
  <2>1. up[c] \in Seq(Message) /\ up[c] # << >>
    BY <1>1 DEF Persist, PipelineTypeOK
  <2>2. Head(up[c]) \in Message /\ Tail(up[c]) \in Seq(Message)
    BY <2>1
  <2>3. PICK e \in Entry : log' = Append(log, e)
    BY <1>1, <2>2 DEF Persist, Entry, Message
  <2>4. log' \in Seq(Entry) /\ Len(log') = Len(log) + 1 /\ Len(log) \in Nat
    BY <2>3 DEF PipelineTypeOK
  <2>5. DOMAIN log = 1..Len(log) /\ DOMAIN log' = 1..(Len(log) + 1)
    BY <2>4 DEF PipelineTypeOK
  <2>6. DOMAIN log \subseteq DOMAIN log' /\ 0..Len(log) \subseteq 0..Len(log')
    BY <2>4, <2>5
  <2>7. up' \in [Clients -> Seq(Message)]
    BY <1>1, <2>2 DEF Persist, PipelineTypeOK
  <2>8. /\ hand' \in [Clients -> [stage : {"idle", "publish", "acknowledge"}, seq : 0..Len(log')]]
        /\ HandsHoldSeqs'
    <3>1. hand' = [hand EXCEPT ![c] = [stage |-> "publish", seq |-> Len(log) + 1]]
      BY <1>1 DEF Persist
    <3>2. [stage |-> "publish", seq |-> Len(log) + 1]
              \in [stage : {"idle", "publish", "acknowledge"}, seq : 0..Len(log')]
      BY <2>4
    <3>3. \A d \in Clients :
              hand[d] \in [stage : {"idle", "publish", "acknowledge"}, seq : 0..Len(log')]
      <4> SUFFICES ASSUME NEW d \in Clients
                   PROVE  hand[d] \in [stage : {"idle", "publish", "acknowledge"}, seq : 0..Len(log')]
        OBVIOUS
      <4>1. hand[d] \in [stage : {"idle", "publish", "acknowledge"}, seq : 0..Len(log)]
        BY DEF PipelineTypeOK
      <4>2. QED
        BY <2>6, <4>1
    <3>4. hand \in [Clients -> [stage : {"idle", "publish", "acknowledge"}, seq : 0..Len(log')]]
      BY <3>3 DEF PipelineTypeOK
    <3>5. hand' \in [Clients -> [stage : {"idle", "publish", "acknowledge"}, seq : 0..Len(log')]]
      BY <3>1, <3>2, <3>4
    <3>6. HandsHoldSeqs'
      BY <2>4, <2>5, <2>6, <3>1, <3>4 DEF HandsHoldSeqs
    <3>7. QED
      BY <3>5, <3>6
  <2>9. channel' \in Seq(DOMAIN log') /\ down' \in [Clients -> Seq(ServerMessages(DOMAIN log'))]
    BY ZenonT(60), <1>1, <2>6, SeqsStay DEF Persist, PipelineTypeOK
  <2>10. lastSeq' \in [Clients -> 0..Len(log')]
    BY <1>1, <2>6 DEF Persist, PipelineTypeOK
  <2>11. UNCHANGED <<list, tomb, clock, clientSeq, queue, home, channel, fanned, faults>>
    BY <1>1 DEF Persist
  <2>12. QED
    BY <2>4, <2>7, <2>8, <2>9, <2>10, <2>11 DEF PipelineTypeOK
<1>2. CASE Publish(c)
  <2>1. hand[c].seq \in DOMAIN log
    BY <1>2 DEF Publish, HandsHoldSeqs
  <2>2. channel' \in Seq(DOMAIN log) /\ Len(channel') = Len(channel) + 1 /\ Len(channel) \in Nat
    BY <1>2, <2>1 DEF Publish, PipelineTypeOK
  <2>3. fanned' \in [Workers -> 0..Len(channel')]
    BY <1>2, <2>2 DEF Publish, PipelineTypeOK
  <2>4. QED
    BY <1>2, <2>2, <2>3 DEF Publish, PipelineTypeOK, HandsHoldSeqs
<1>3. CASE Acknowledge(c)
  <2>1. hand[c].seq \in DOMAIN log
    BY <1>3 DEF Acknowledge, HandsHoldSeqs
  <2>2. log[hand[c].seq].clientSeq \in Nat
    <3>1. log[hand[c].seq] \in Entry
      BY <2>1 DEF PipelineTypeOK
    <3>2. QED
      BY <3>1 DEF Entry
  <2>3. OpAck(log[hand[c].seq].clientSeq, hand[c].seq) \in ServerMessages(DOMAIN log)
    BY <2>1, <2>2 DEF OpAck, ServerMessages
  <2>4. down' \in [Clients -> Seq(ServerMessages(DOMAIN log))]
    BY <1>3, <2>3 DEF Acknowledge, PipelineTypeOK
  <2>5. Len(log) \in Nat
    BY DEF PipelineTypeOK
  <2>6. hand' \in [Clients -> [stage : {"idle", "publish", "acknowledge"}, seq : 0..Len(log)]]
        /\ HandsHoldSeqs'
    BY <1>3, <2>5 DEF Acknowledge, PipelineTypeOK, Idle, HandsHoldSeqs
  <2>7. UNCHANGED <<list, tomb, clock, clientSeq, queue, lastSeq, home, log, channel, fanned, faults, up>>
    BY <1>3 DEF Acknowledge
  <2>8. QED
    BY <2>4, <2>6, <2>7 DEF PipelineTypeOK
<1>4. CASE Refuse(c)
  <2>1. up[c] \in Seq(Message) /\ up[c] # << >>
    BY <1>4 DEF Refuse, PipelineTypeOK
  <2>2. Tail(up[c]) \in Seq(Message)
    BY <2>1
  <2>3. up' \in [Clients -> Seq(Message)]
    BY <1>4, <2>2 DEF Refuse, PipelineTypeOK
  <2>4. faults' \in 0..MaxFaults
    BY <1>4, BoundsAssumption DEF Refuse, PipelineTypeOK
  <2>5. UNCHANGED <<clientVars, home, hand, log, channel, fanned, down>>
    BY <1>4 DEF Refuse
  <2>6. QED
    BY <2>3, <2>4, <2>5 DEF PipelineTypeOK, HandsHoldSeqs
<1>5. CASE FailToPublish(c)
  <2>1. hand[c].seq \in DOMAIN log
    BY <1>5 DEF FailToPublish, HandsHoldSeqs
  <2>2. channel \in Seq(DOMAIN log) /\ Len(channel) \in Nat
    BY DEF PipelineTypeOK
  <2>3. /\ Append(channel, hand[c].seq) \in Seq(DOMAIN log)
        /\ Len(Append(channel, hand[c].seq)) = Len(channel) + 1
    BY <2>1, <2>2
  <2>4. /\ channel' \in Seq(DOMAIN log)
        /\ Len(channel') = Len(channel) \/ Len(channel') = Len(channel) + 1
    BY <1>5, <2>2, <2>3 DEF FailToPublish
  <2>5. fanned' \in [Workers -> 0..Len(channel')]
    <3>1. fanned' = fanned
      BY <1>5 DEF FailToPublish
    <3>2. 0..Len(channel) \subseteq 0..Len(channel')
      BY <2>2, <2>4
    <3>3. QED
      BY <3>1, <3>2 DEF PipelineTypeOK
  <2>6. faults' \in 0..MaxFaults
    BY <1>5, BoundsAssumption DEF PipelineTypeOK, FailToPublish
  <2>7. /\ hand' \in [Clients -> [stage : {"idle", "publish", "acknowledge"}, seq : 0..Len(log)]]
        /\ HandsHoldSeqs'
    <3>1. Len(log) \in Nat
      BY DEF PipelineTypeOK
    <3>2. QED
      BY <1>5, <3>1 DEF FailToPublish, PipelineTypeOK, HandsHoldSeqs, Idle
  <2>8. UNCHANGED <<clientVars, home, log, up, down>>
    BY <1>5 DEF FailToPublish
  <2>9. QED
    BY <2>4, <2>5, <2>6, <2>7, <2>8 DEF PipelineTypeOK
<1>6. QED
  BY <1>1, <1>2, <1>3, <1>4, <1>5 DEF Handle

----------------------------------------------------------------------------
(* Fan-out and receiving. *)

\* So does the fan-out of a stored operation to the sessions of a worker.
LEMMA FanOutKeepsTypes ==
    ASSUME PipelineTypeOK, HandsHoldSeqs, NEW w \in Workers, FanOut(w)
    PROVE  PipelineTypeOK' /\ HandsHoldSeqs'
<1> USE DEF clientVars
<1> DEFINE seq == channel[fanned[w] + 1]
           copies == [i \in 1..Copies(w) |-> Broadcast(seq)]
<1>1. fanned[w] + 1 \in 1..Len(channel) /\ Len(channel) \in Nat
  BY DEF FanOut, PipelineTypeOK
<1>2. Broadcast(seq) \in ServerMessages(DOMAIN log)
  BY <1>1 DEF PipelineTypeOK, Broadcast, ServerMessages
<1>3. Copies(w) \in Nat
  <2>1. {c \in Clients : home[c] = w} \in SUBSET Clients
    OBVIOUS
  <2>2. QED
    BY <2>1, FS_Subset, FS_CardinalityType, ClientsAssumption DEF Copies
<1>4. copies \in Seq(ServerMessages(DOMAIN log))
  BY <1>2, <1>3
<1> HIDE DEF copies
<1>5. down' = [c \in Clients |-> IF home[c] = w THEN down[c] \o copies ELSE down[c]]
  BY DEF FanOut, copies
<1>6. \A c \in Clients : down[c] \o copies \in Seq(ServerMessages(DOMAIN log))
  BY <1>4 DEF PipelineTypeOK
<1>7. down' \in [Clients -> Seq(ServerMessages(DOMAIN log))]
  BY <1>5, <1>6 DEF PipelineTypeOK
<1>8. fanned' \in [Workers -> 0..Len(channel)]
  BY <1>1 DEF FanOut, PipelineTypeOK
<1>9. UNCHANGED <<clientVars, home, hand, log, channel, faults, up>>
  BY DEF FanOut
<1>10. QED
  BY <1>7, <1>8, <1>9 DEF PipelineTypeOK, HandsHoldSeqs

\* OfflineQueue.acknowledge keeps the messages of all other numbers.
LEMMA WithoutKeepsOthers ==
    ASSUME NEW messages \in Seq(Message), NEW n
    PROVE  /\ Without(messages, n) \in Seq(Message)
           /\ ToSet(Without(messages, n)) = {m \in ToSet(messages) : m.clientSeq # n}
BY OmitElements DEF Without

\* So does a client's handling of what the server sent it.
LEMMA ReceiveKeepsTypes ==
    ASSUME PipelineTypeOK, HandsHoldSeqs, NEW c \in Clients, Receive(c)
    PROVE  PipelineTypeOK' /\ HandsHoldSeqs'
<1> USE DEF serverVars
<1> DEFINE msg == Head(down[c])
<1>1. down \in [Clients -> Seq(ServerMessages(DOMAIN log))] /\ down[c] # << >>
  BY DEF PipelineTypeOK, Receive, ReceiveAck, ReceiveBroadcast
<1>2. msg \in ServerMessages(DOMAIN log) /\ Tail(down[c]) \in Seq(ServerMessages(DOMAIN log))
  BY <1>1
<1>3. down' \in [Clients -> Seq(ServerMessages(DOMAIN log))]
  BY <1>1, <1>2 DEF Receive, ReceiveAck, ReceiveBroadcast
<1>4. msg.serverSeq \in DOMAIN log /\ DOMAIN log = 1..Len(log) /\ Len(log) \in Nat
  BY SMTT(60), <1>2 DEF ServerMessages, PipelineTypeOK
<1>5. LaterOf(lastSeq[c], msg.serverSeq) \in 0..Len(log)
  BY SMTT(60), <1>4 DEF LaterOf, PipelineTypeOK
<1>6. lastSeq' \in [Clients -> 0..Len(log)]
  BY ZenonT(60), <1>5 DEF Receive, ReceiveAck, ReceiveBroadcast, PipelineTypeOK
<1>7. CASE ReceiveAck(c)
  <2>1. UNCHANGED <<list, tomb, clock, clientSeq, serverVars, up>>
    BY <1>7 DEF ReceiveAck
  <2>2. queue' \in [Clients -> Seq(Message)]
    BY <1>7, WithoutKeepsOthers DEF ReceiveAck, PipelineTypeOK
  <2>3. QED
    BY <1>3, <1>6, <2>1, <2>2 DEF PipelineTypeOK, HandsHoldSeqs
<1>8. CASE ReceiveBroadcast(c)
  <2>1. log[msg.serverSeq].op \in Operation
    <3>1. log[msg.serverSeq] \in Entry
      BY SMTT(60), <1>4 DEF PipelineTypeOK
    <3>2. QED
      BY <3>1 DEF Entry
  <2>2. /\ Apply(doc(c), log[msg.serverSeq].op).list \in Seq(Uids)
        /\ Apply(doc(c), log[msg.serverSeq].op).tomb \in SUBSET Uids
    BY <2>1, TypeParts, ApplyTypes
  <2>3. ClockAfter(c, log[msg.serverSeq].op) \in Nat
    BY <2>1 DEF ClockAfter, LaterOf, PipelineTypeOK, Operation, UID
  <2>4. /\ list' \in [Clients -> Seq(Uids)] /\ tomb' \in [Clients -> SUBSET Uids]
        /\ clock' \in [Clients -> Nat]
    BY <1>8, <2>2, <2>3 DEF ReceiveBroadcast, PipelineTypeOK, Uids
  <2>5. UNCHANGED <<clientSeq, queue, serverVars, up>>
    BY <1>8 DEF ReceiveBroadcast
  <2>6. QED
    BY <1>3, <1>6, <2>4, <2>5 DEF PipelineTypeOK, HandsHoldSeqs
<1>9. QED
  BY <1>7, <1>8 DEF Receive

----------------------------------------------------------------------------
(* The order of typing. *)

\* The order concerns the table, what sessions have waiting, and the last
\* number each client used.
LEMMA OrderStays ==
    ASSUME TypedLater, StoredInTypingOrder, UNCHANGED <<log, up, clientSeq>>
    PROVE  TypedLater' /\ StoredInTypingOrder'
BY DEF TypedLater, StoredInTypingOrder

\* A new operation has the greatest number, and goes behind all others of its
\* session (messageQueue, sorted by priority only).
LEMMA SubmitKeepsOrder ==
    ASSUME PipelineTypeOK, TypedLater, StoredInTypingOrder,
           NEW c \in Clients, NEW op \in Operation, Submit(c, op), log' = log
    PROVE  TypedLater' /\ StoredInTypingOrder'
<1> DEFINE msg == [clientSeq |-> clientSeq[c] + 1, op |-> op]
<1>1. msg \in Message /\ msg.clientSeq = clientSeq[c] + 1
  BY DEF PipelineTypeOK, Message
<1>2. /\ clientSeq' = [clientSeq EXCEPT ![c] = @ + 1]
      /\ up' = [up EXCEPT ![c] = Append(@, msg)]
  BY DEF Submit, Enqueue
<1> HIDE DEF msg
<1>3. /\ \A d \in Clients : clientSeq'[d] \in Nat /\ clientSeq[d] \in Nat
      /\ \A d \in Clients : clientSeq[d] <= clientSeq'[d]
      /\ clientSeq'[c] = clientSeq[c] + 1
      /\ \A d \in Clients \ {c} : up'[d] = up[d]
  <2>1. clientSeq \in [Clients -> Nat] /\ up \in [Clients -> Seq(Message)]
    BY DEF PipelineTypeOK
  <2>2. QED
    BY <1>2, <2>1
<1>4. /\ up[c] \in Seq(Message) /\ up'[c] = Append(up[c], msg)
      /\ \A d \in Clients : up[d] \in Seq(Message)
  BY <1>2 DEF PipelineTypeOK
<1>5. /\ DOMAIN up[c] = 1..Len(up[c]) /\ DOMAIN up'[c] = 1..(Len(up[c]) + 1)
      /\ Len(up[c]) \in Nat
      /\ \A i \in DOMAIN up[c] : up'[c][i] = up[c][i]
      /\ up'[c][Len(up[c]) + 1] = msg
  BY <1>1, <1>4
<1>6. \A d \in Clients : \A i \in DOMAIN up[d] : up[d][i].clientSeq \in Nat
  <2>1. \A d \in Clients : \A i \in DOMAIN up[d] : up[d][i] \in Message
    BY <1>4
  <2>2. QED
    BY <2>1 DEF Message
<1>7. \A i \in DOMAIN up'[c] : i \in DOMAIN up[c] \/ i = Len(up[c]) + 1
  BY <1>5
<1>8. \A d \in Clients : \A i, j \in DOMAIN up'[d] :
          i < j => up'[d][i].clientSeq < up'[d][j].clientSeq
  <2> SUFFICES ASSUME NEW d \in Clients, NEW i \in DOMAIN up'[d], NEW j \in DOMAIN up'[d], i < j
               PROVE  up'[d][i].clientSeq < up'[d][j].clientSeq
    OBVIOUS
  <2>1. CASE d # c
    BY <1>3, <2>1 DEF TypedLater
  <2>2. CASE d = c /\ j \in DOMAIN up[c]
    <3>1. i \in DOMAIN up[c]
      BY <1>5, <1>7, <2>2
    <3>2. QED
      BY <1>5, <2>2, <3>1 DEF TypedLater
  <2>3. CASE d = c /\ j = Len(up[c]) + 1
    <3>1. i \in DOMAIN up[c]
      BY <1>5, <1>7, <2>3
    <3>2. up[c][i].clientSeq <= clientSeq[c]
      BY <3>1 DEF TypedLater
    <3>3. QED
      BY SMTT(60), <1>1, <1>3, <1>5, <1>6, <2>3, <3>1, <3>2
  <2>4. QED
    BY <1>7, <2>1, <2>2, <2>3
<1>9. \A d \in Clients : \A i \in DOMAIN up'[d] : up'[d][i].clientSeq <= clientSeq'[d]
  <2> SUFFICES ASSUME NEW d \in Clients, NEW i \in DOMAIN up'[d]
               PROVE  up'[d][i].clientSeq <= clientSeq'[d]
    OBVIOUS
  <2>1. ASSUME i \in DOMAIN up[d], up'[d][i] = up[d][i] PROVE up'[d][i].clientSeq <= clientSeq'[d]
    BY <1>3, <1>6, <2>1 DEF TypedLater
  <2>2. CASE d # c
    BY <1>3, <2>1, <2>2
  <2>3. CASE d = c
    BY <1>1, <1>3, <1>5, <1>7, <2>1, <2>3
  <2>4. QED
    BY <2>2, <2>3
<1>10. \A i \in DOMAIN log : log[i].client \in Clients /\ log[i].clientSeq \in Nat
  <2>1. \A i \in DOMAIN log : log[i] \in Entry
    BY DEF PipelineTypeOK
  <2>2. QED
    BY <2>1 DEF Entry
<1>11. \A i \in DOMAIN log : log[i].clientSeq <= clientSeq'[log[i].client]
  BY <1>3, <1>10 DEF TypedLater
<1>12. \A i \in DOMAIN log : \A j \in DOMAIN up'[log[i].client] :
          log[i].clientSeq < up'[log[i].client][j].clientSeq
  <2> SUFFICES ASSUME NEW i \in DOMAIN log, NEW j \in DOMAIN up'[log[i].client]
               PROVE  log[i].clientSeq < up'[log[i].client][j].clientSeq
    OBVIOUS
  <2>1. CASE log[i].client # c
    BY <1>3, <1>10, <2>1 DEF TypedLater
  <2>2. CASE log[i].client = c /\ j \in DOMAIN up[c]
    BY <1>5, <2>2 DEF TypedLater
  <2>3. CASE log[i].client = c /\ j = Len(up[c]) + 1
    <3>1. log[i].clientSeq <= clientSeq[c]
      BY <2>3 DEF TypedLater
    <3>2. QED
      BY <1>1, <1>3, <1>5, <1>10, <2>3, <3>1
  <2>4. QED
    BY <1>7, <2>1, <2>2, <2>3
<1>13. QED
  BY <1>8, <1>9, <1>11, <1>12 DEF TypedLater, StoredInTypingOrder

\* What is left of a session's queue without its head.
LEMMA TailKeepsOrder ==
    ASSUME PipelineTypeOK, TypedLater, NEW c \in Clients, up[c] # << >>
    PROVE  /\ up[c] \in Seq(Message) /\ Tail(up[c]) \in Seq(Message)
           /\ Head(up[c]) = up[c][1] /\ 1 \in DOMAIN up[c]
           /\ \A i \in DOMAIN Tail(up[c]) :
                 i + 1 \in DOMAIN up[c] /\ 1 < i + 1 /\ Tail(up[c])[i] = up[c][i + 1]
           /\ \A i, j \in DOMAIN Tail(up[c]) : i < j => i + 1 < j + 1
<1>1. up[c] \in Seq(Message)
  BY DEF PipelineTypeOK
<1>2. Len(up[c]) \in Nat /\ DOMAIN up[c] = 1..Len(up[c]) /\ Len(up[c]) # 0
  BY <1>1
<1>3. Tail(up[c]) \in Seq(Message) /\ DOMAIN Tail(up[c]) = 1..(Len(up[c]) - 1)
  BY <1>1, <1>2
<1>4. \A i \in 1..(Len(up[c]) - 1) : Tail(up[c])[i] = up[c][i + 1]
  BY <1>1, <1>2
<1>5. QED
  BY <1>1, <1>2, <1>3, <1>4

\* A refused operation leaves a hole in the numbers, and the others in order.
LEMMA RefuseKeepsOrder ==
    ASSUME PipelineTypeOK, TypedLater, StoredInTypingOrder, NEW c \in Clients, Refuse(c)
    PROVE  TypedLater' /\ StoredInTypingOrder'
<1>1. up[c] # << >> /\ up' = [up EXCEPT ![c] = Tail(@)] /\ log' = log /\ clientSeq' = clientSeq
  BY DEF Refuse, clientVars
<1>2. /\ up'[c] = Tail(up[c]) /\ \A d \in Clients \ {c} : up'[d] = up[d]
  BY <1>1 DEF PipelineTypeOK
<1>3. \A d \in Clients : \A i, j \in DOMAIN up'[d] :
          i < j => up'[d][i].clientSeq < up'[d][j].clientSeq
  BY <1>1, <1>2, TailKeepsOrder DEF TypedLater
<1>4. \A d \in Clients : \A i \in DOMAIN up'[d] : up'[d][i].clientSeq <= clientSeq[d]
  BY <1>1, <1>2, TailKeepsOrder DEF TypedLater
<1>5. \A i \in DOMAIN log : log[i].client \in Clients
  <2>1. \A i \in DOMAIN log : log[i] \in Entry
    BY DEF PipelineTypeOK
  <2>2. QED
    BY <2>1 DEF Entry
<1>6. \A i \in DOMAIN log : \A j \in DOMAIN up'[log[i].client] :
          log[i].clientSeq < up'[log[i].client][j].clientSeq
  <2> SUFFICES ASSUME NEW i \in DOMAIN log, NEW j \in DOMAIN up'[log[i].client]
               PROVE  log[i].clientSeq < up'[log[i].client][j].clientSeq
    OBVIOUS
  <2>1. CASE log[i].client # c
    BY <1>2, <1>5, <2>1 DEF TypedLater
  <2>2. CASE log[i].client = c
    <3>1. j + 1 \in DOMAIN up[c] /\ up'[c][j] = up[c][j + 1]
      BY ZenonT(60), <1>1, <1>2, <2>2, TailKeepsOrder
    <3>2. log[i].clientSeq < up[c][j + 1].clientSeq
      BY <2>2, <3>1 DEF TypedLater
    <3>3. QED
      BY <2>2, <3>1, <3>2
  <2>3. QED
    BY <2>1, <2>2
<1>7. QED
  BY <1>1, <1>3, <1>4, <1>6 DEF TypedLater, StoredInTypingOrder

\* The head of the queue gets the next seq: its number is above those the
\* table has of this client, and below those that still wait.
LEMMA PersistKeepsOrder ==
    ASSUME PipelineTypeOK, TypedLater, StoredInTypingOrder, NEW c \in Clients, Persist(c)
    PROVE  TypedLater' /\ StoredInTypingOrder'
<1> DEFINE row == [client |-> c, clientSeq |-> Head(up[c]).clientSeq, op |-> Head(up[c]).op]
           n == Len(log) + 1
<1>1. /\ up[c] # << >> /\ up' = [up EXCEPT ![c] = Tail(@)]
      /\ log' = Append(log, row) /\ clientSeq' = clientSeq
  BY DEF Persist, clientVars
<1>2. up'[c] = Tail(up[c]) /\ \A d \in Clients \ {c} : up'[d] = up[d]
  BY <1>1 DEF PipelineTypeOK
<1>3. /\ row.client = c /\ row.clientSeq = up[c][1].clientSeq /\ 1 \in DOMAIN up[c]
      /\ Head(up[c]) \in Message
  BY <1>1, TailKeepsOrder
<1>4. row \in Entry
  BY <1>3 DEF Entry, Message
<1> HIDE DEF row
<1>5. /\ DOMAIN log = 1..Len(log) /\ Len(log) \in Nat /\ DOMAIN log' = 1..n
      /\ \A i \in DOMAIN log : log'[i] = log[i]
      /\ log'[n] = row
  <2>1. log \in Seq(Entry)
    BY DEF PipelineTypeOK
  <2>2. QED
    BY <1>1, <1>4, <2>1
<1>6. \A i \in DOMAIN log' : i \in DOMAIN log \/ i = n
  BY <1>5
<1>7. \A i \in DOMAIN log : log[i].client \in Clients
  <2>1. \A i \in DOMAIN log : log[i] \in Entry
    BY DEF PipelineTypeOK
  <2>2. QED
    BY <2>1 DEF Entry
<1>8. \A d \in Clients : \A i, j \in DOMAIN up'[d] :
          i < j => up'[d][i].clientSeq < up'[d][j].clientSeq
  BY SMTT(60), <1>1, <1>2, TailKeepsOrder DEF TypedLater
<1>9. \A d \in Clients : \A i \in DOMAIN up'[d] : up'[d][i].clientSeq <= clientSeq[d]
  BY <1>1, <1>2, TailKeepsOrder DEF TypedLater
<1>10. \A i \in DOMAIN log' : log'[i].clientSeq <= clientSeq[log'[i].client]
  <2>1. row.clientSeq <= clientSeq[c]
    BY <1>3 DEF TypedLater
  <2>2. QED
    BY <1>3, <1>5, <1>6, <2>1 DEF TypedLater
<1>11. \A i \in DOMAIN log' : \A j \in DOMAIN up'[log'[i].client] :
          log'[i].clientSeq < up'[log'[i].client][j].clientSeq
  <2> SUFFICES ASSUME NEW i \in DOMAIN log', NEW j \in DOMAIN up'[log'[i].client]
               PROVE  log'[i].clientSeq < up'[log'[i].client][j].clientSeq
    OBVIOUS
  <2>1. CASE i \in DOMAIN log /\ log[i].client # c
    BY SMTT(60), <1>2, <1>5, <1>7, <2>1 DEF TypedLater
  <2>2. ASSUME log'[i].client = c
        PROVE  j + 1 \in DOMAIN up[c] /\ 1 < j + 1 /\ up'[c][j] = up[c][j + 1]
    <3>1. j \in DOMAIN Tail(up[c])
      BY <1>2, <2>2
    <3>2. up'[c][j] = Tail(up[c])[j]
      BY <1>2
    <3>3. QED
      BY <1>1, <3>1, <3>2, TailKeepsOrder
  <2>3. CASE i \in DOMAIN log /\ log[i].client = c
    <3>1. j + 1 \in DOMAIN up[c] /\ up'[c][j] = up[c][j + 1]
      BY <1>5, <2>2, <2>3
    <3>2. log[i].clientSeq < up[c][j + 1].clientSeq
      BY <2>3, <3>1 DEF TypedLater
    <3>3. QED
      BY <1>5, <2>3, <3>1, <3>2
  <2>4. CASE i = n
    <3>1. j + 1 \in DOMAIN up[c] /\ 1 < j + 1 /\ up'[c][j] = up[c][j + 1]
      BY <1>3, <1>5, <2>2, <2>4
    <3>2. up[c][1].clientSeq < up[c][j + 1].clientSeq
      BY <1>3, <3>1 DEF TypedLater
    <3>3. QED
      BY <1>3, <1>5, <2>4, <3>1, <3>2
  <2>5. QED
    BY <1>6, <2>1, <2>3, <2>4
<1>12. StoredInTypingOrder'
  <2> SUFFICES ASSUME NEW i \in DOMAIN log', NEW j \in DOMAIN log', i < j,
                      log'[i].client = log'[j].client
               PROVE  log'[i].clientSeq < log'[j].clientSeq
    BY DEF StoredInTypingOrder
  <2>1. i \in DOMAIN log
    BY <1>5, <1>6
  <2>2. CASE j \in DOMAIN log
    BY <1>5, <2>1, <2>2 DEF StoredInTypingOrder
  <2>3. CASE j = n
    <3>1. log[i].client = c
      BY <1>3, <1>5, <2>1, <2>3
    <3>2. log[i].clientSeq < up[c][1].clientSeq
      BY <1>3, <2>1, <3>1 DEF TypedLater
    <3>3. QED
      BY <1>3, <1>5, <2>1, <2>3, <3>2
  <2>4. QED
    BY <1>6, <2>2, <2>3
<1>13. QED
  BY <1>1, <1>8, <1>9, <1>10, <1>11, <1>12 DEF TypedLater

----------------------------------------------------------------------------
(* The invariant. *)

\* Everybody has joined the empty document.
LEMMA InitIInv == Init => IInv
<1> SUFFICES ASSUME Init PROVE IInv
  OBVIOUS
<1>1. PipelineTypeOK
  BY BoundsAssumption DEF Init, PipelineTypeOK, Idle
<1>2. HandsHoldSeqs
  BY DEF Init, HandsHoldSeqs, Idle
<1>3. TypedLater /\ StoredInTypingOrder
  BY DEF Init, TypedLater, StoredInTypingOrder
<1>4. QED
  BY <1>1, <1>2, <1>3 DEF IInv

\* Every step of the pipeline keeps the invariant.
LEMMA NextKeepsIInv == IInv /\ [Next]_vars => IInv'
<1> SUFFICES ASSUME IInv, [Next]_vars PROVE IInv'
  OBVIOUS
<1> USE DEF IInv
<1>1. ASSUME NEW c \in Clients, Type(c) PROVE IInv'
  <2>1. PipelineTypeOK' /\ HandsHoldSeqs'
    BY <1>1, TypeKeepsTypes
  <2>2. CASE LocalInsert(c)
    <3>1. PICK a \in {Root} \cup VisibleUids(doc(c)) :
              Submit(c, InsertOp([clock |-> clock[c] + 1, site |-> SiteOf[c]], a))
      BY <2>2 DEF LocalInsert
    <3>2. InsertOp([clock |-> clock[c] + 1, site |-> SiteOf[c]], a) \in Operation
      <4>1. clock[c] + 1 \in Nat
        BY DEF PipelineTypeOK
      <4>2. QED
        BY <4>1, NewUid, TypeParts DEF InsertOp, Operation, Uids
    <3>3. log' = log
      BY <2>2 DEF LocalInsert, serverVars
    <3>4. QED
      BY <2>1, <3>1, <3>2, <3>3, SubmitKeepsOrder
  <2>3. CASE LocalDelete(c)
    <3>1. PICK u \in VisibleUids(doc(c)) : Submit(c, DeleteOp(u))
      BY <2>3 DEF LocalDelete
    <3>2. DeleteOp(u) \in Operation
      BY TypeParts DEF DeleteOp, Operation, Uids
    <3>3. log' = log
      BY <2>3 DEF LocalDelete, serverVars
    <3>4. QED
      BY <2>1, <3>1, <3>2, <3>3, SubmitKeepsOrder
  <2>4. CASE LocalDeleteNothing(c)
    <3>1. log' = log /\ up' = up /\ clientSeq' = [clientSeq EXCEPT ![c] = @ + 1]
      BY <2>4 DEF LocalDeleteNothing, serverVars
    <3>2. \A d \in Clients : /\ clientSeq[d] \in Nat /\ clientSeq'[d] \in Nat
                             /\ clientSeq[d] <= clientSeq'[d]
      BY SMTT(60), <3>1 DEF PipelineTypeOK
    <3>3. \A d \in Clients : \A i \in DOMAIN up[d] : up[d][i].clientSeq \in Nat
      <4>1. \A d \in Clients : \A i \in DOMAIN up[d] : up[d][i] \in Message
        BY SMTT(60) DEF PipelineTypeOK
      <4>2. QED
        BY <4>1 DEF Message
    <3>4. \A i \in DOMAIN log : log[i].client \in Clients /\ log[i].clientSeq \in Nat
      <4>1. \A i \in DOMAIN log : log[i] \in Entry
        BY DEF PipelineTypeOK
      <4>2. QED
        BY <4>1 DEF Entry
    <3>5. \A d \in Clients : \A i \in DOMAIN up[d] : up[d][i].clientSeq <= clientSeq'[d]
      BY <3>2, <3>3 DEF TypedLater
    <3>6. \A i \in DOMAIN log : log[i].clientSeq <= clientSeq'[log[i].client]
      BY <3>2, <3>4 DEF TypedLater
    <3>7. TypedLater' /\ StoredInTypingOrder'
      BY <3>1, <3>5, <3>6 DEF TypedLater, StoredInTypingOrder
    <3>8. QED
      BY <2>1, <3>7
  <2>5. QED
    BY <1>1, <2>2, <2>3, <2>4 DEF Type
<1>2. ASSUME NEW c \in Clients, Handle(c) \/ Refuse(c) \/ FailToPublish(c) PROVE IInv'
  <2>1. PipelineTypeOK' /\ HandsHoldSeqs'
    BY <1>2, HandleKeepsTypes
  <2>2. CASE Persist(c)
    BY <2>1, <2>2, PersistKeepsOrder
  <2>3. CASE Refuse(c)
    BY <2>1, <2>3, RefuseKeepsOrder
  <2>4. CASE Publish(c) \/ Acknowledge(c) \/ FailToPublish(c)
    BY <2>1, <2>4, OrderStays DEF Publish, Acknowledge, FailToPublish, clientVars
  <2>5. QED
    BY <1>2, <2>2, <2>3, <2>4 DEF Handle
<1>3. ASSUME NEW c \in Clients, Receive(c) PROVE IInv'
  <2>1. PipelineTypeOK' /\ HandsHoldSeqs'
    BY <1>3, ReceiveKeepsTypes
  <2>2. QED
    BY <1>3, <2>1, OrderStays DEF Receive, ReceiveAck, ReceiveBroadcast, serverVars
<1>4. ASSUME NEW w \in Workers, FanOut(w) PROVE IInv'
  <2>1. PipelineTypeOK' /\ HandsHoldSeqs'
    BY <1>4, FanOutKeepsTypes
  <2>2. QED
    BY <1>4, <2>1, OrderStays DEF FanOut, clientVars
<1>5. CASE Rest \/ UNCHANGED vars
  <2>1. UNCHANGED <<clientVars, serverVars, up, down>>
    BY <1>5 DEF Rest, vars
  <2>2. PipelineTypeOK' /\ HandsHoldSeqs'
    BY <2>1 DEF PipelineTypeOK, HandsHoldSeqs, clientVars, serverVars
  <2>3. QED
    BY <2>1, <2>2, OrderStays DEF clientVars, serverVars
<1>6. QED
  BY <1>1, <1>2, <1>3, <1>4, <1>5 DEF Next

----------------------------------------------------------------------------

\* Types and order hold for any number of clients, on any workers, whatever is
\* refused or fails.
THEOREM PipelineInvariance == Spec => []IInv
<1>1. Init => IInv
  BY InitIInv
<1>2. IInv /\ [Next]_vars => IInv'
  BY NextKeepsIInv
<1>3. QED
  BY <1>1, <1>2, PTL DEF Spec

\* TypeOK: every variable of the pipeline holds what its code can put there, for
\* any number of clients, keystrokes and faults.
THEOREM TypeCorrect == Spec => []TypeOK
<1>1. IInv => TypeOK
  <2> SUFFICES ASSUME PipelineTypeOK PROVE TypeOK
    BY DEF IInv
  <2>1. QED
    BY DEF PipelineTypeOK, TypeOK, Uids, ServerMessages
<1>2. QED
  BY <1>1, PipelineInvariance, PTL

\* The table has the operations of a session (processMessageQueue,
\* appendOperation) in the order they were typed, each once.
THEOREM TypingOrderIsStored == Spec => []StoredInTypingOrder
<1>1. IInv => StoredInTypingOrder
  BY DEF IInv
<1>2. QED
  BY <1>1, PipelineInvariance, PTL

----------------------------------------------------------------------------
(* The books: what queue, session, table and answers say of one keystroke. *)

\* What a session has not handled yet is still in its author's offline queue.
SentIsQueued == \A c \in Clients : \A m \in ToSet(up[c]) : m \in ToSet(queue[c])

\* A client's number names one operation, in its queue and in the table.
NumbersNameOps ==
    /\ \A c \in Clients : \A m \in ToSet(queue[c]) : m.clientSeq <= clientSeq[c]
    /\ \A c \in Clients : \A m, k \in ToSet(queue[c]) : m.clientSeq = k.clientSeq => m = k
    /\ \A i \in DOMAIN log : \A m \in ToSet(queue[log[i].client]) :
          m.clientSeq = log[i].clientSeq => m.op = log[i].op

\* An answer on its way names the number and the row of one operation of the
\* client it goes to.
AcksAreTrue ==
    /\ \A c \in Clients : hand[c].stage # "idle" => log[hand[c].seq].client = c
    /\ \A c \in Clients : \A m \in ToSet(down[c]) :
          m.type = "OP_ACK" => /\ log[m.serverSeq].client = c
                               /\ log[m.serverSeq].clientSeq = m.clientSeq

\* No clock is ahead of the keystrokes, and no character ahead of the clock of
\* a client that shows it.
ClocksBounded ==
    /\ \A c \in Clients : clock[c] <= Keystrokes
    /\ \A c \in Clients : \A u \in ToSet(list[c]) : u.clock <= clock[c]
    /\ \A op \in Issued : op.type = "INSERT" => op.uid.clock <= Keystrokes

Books == SentIsQueued /\ NumbersNameOps /\ AcksAreTrue /\ ClocksBounded

\* Issued, message by message.
LEMMA IssuedIs ==
    /\ \A op : op \in Issued <=> \/ \E i \in DOMAIN log : op = log[i].op
                                 \/ \E c \in Clients : \E m \in ToSet(queue[c]) : op = m.op
    /\ \A op : op \in Issued' <=> \/ \E i \in DOMAIN log' : op = log'[i].op
                                  \/ \E c \in Clients : \E m \in ToSet(queue'[c]) : op = m.op
<1>1. ASSUME NEW q, NEW op
      PROVE  op \in UNION {{q[c][i].op : i \in DOMAIN q[c]} : c \in Clients}
                <=> \E c \in Clients : \E m \in ToSet(q[c]) : op = m.op
  <2>1. op \in UNION {{q[c][i].op : i \in DOMAIN q[c]} : c \in Clients}
           <=> \E c \in Clients : \E i \in DOMAIN q[c] : op = q[c][i].op
    OBVIOUS
  <2>2. \A c \in Clients : (\E i \in DOMAIN q[c] : op = q[c][i].op)
                              <=> \E m \in ToSet(q[c]) : op = m.op
    BY DEF ToSet
  <2>3. QED
    BY <2>1, <2>2
<1>2. \A op : op \in UNION {{queue[c][i].op : i \in DOMAIN queue[c]} : c \in Clients}
                <=> \E c \in Clients : \E m \in ToSet(queue[c]) : op = m.op
  BY <1>1
<1>3. \A op : op \in UNION {{queue'[c][i].op : i \in DOMAIN queue'[c]} : c \in Clients}
                <=> \E c \in Clients : \E m \in ToSet(queue'[c]) : op = m.op
  BY <1>1
<1>4. QED
  BY <1>2, <1>3 DEF Issued

\* The parts of the types that the books speak of.
LEMMA BookTypes ==
    ASSUME PipelineTypeOK
    PROVE  /\ \A c \in Clients : /\ queue[c] \in Seq(Message) /\ up[c] \in Seq(Message)
                                 /\ clientSeq[c] \in Nat /\ clock[c] \in Nat
                                 /\ list[c] \in Seq(Uids)
                                 /\ down[c] \in Seq(ServerMessages(DOMAIN log))
           /\ \A c \in Clients : \A m \in ToSet(queue[c]) : m \in Message
           /\ \A c \in Clients : \A m \in ToSet(up[c]) : m \in Message
           /\ \A c \in Clients : \A m \in ToSet(down[c]) : m \in ServerMessages(DOMAIN log)
           /\ \A c \in Clients : \A u \in ToSet(list[c]) : u \in Uids
           /\ \A i \in DOMAIN log : log[i] \in Entry
           /\ log \in Seq(Entry) /\ DOMAIN log = 1..Len(log) /\ Len(log) \in Nat
<1>1. \A c \in Clients : /\ queue[c] \in Seq(Message) /\ up[c] \in Seq(Message)
                         /\ clientSeq[c] \in Nat /\ clock[c] \in Nat
                         /\ list[c] \in Seq(Uids)
                         /\ down[c] \in Seq(ServerMessages(DOMAIN log))
  BY DEF PipelineTypeOK
<1>2. log \in Seq(Entry)
  BY DEF PipelineTypeOK
<1>3. \A S : \A s \in Seq(S) : \A e \in ToSet(s) : e \in S
  BY DEF ToSet
<1>4. QED
  BY <1>1, <1>2, <1>3

\* A keystroke counts one.
LEMMA KeystrokeCounts ==
    ASSUME PipelineTypeOK
    PROVE  /\ Keystrokes \in Nat
           /\ \A c \in Clients :
                 clientSeq' = [clientSeq EXCEPT ![c] = @ + 1] => Keystrokes' = Keystrokes + 1
           /\ clientSeq' = clientSeq => Keystrokes' = Keystrokes
<1>1. clientSeq \in [Clients -> Nat] /\ IsFiniteSet(Clients)
  BY ClientsAssumption DEF PipelineTypeOK
<1>2. Keystrokes \in Nat
  BY <1>1, SumIsNat DEF Keystrokes
<1>3. ASSUME NEW c \in Clients, clientSeq' = [clientSeq EXCEPT ![c] = @ + 1]
      PROVE  Keystrokes' = Keystrokes + 1
  <2>1. FoldFunction(+, 0, [clientSeq EXCEPT ![c] = @ + 1]) = FoldFunction(+, 0, clientSeq) + 1
    BY <1>1, SumIncrement
  <2>2. Keystrokes' = FoldFunction(+, 0, clientSeq') /\ Keystrokes = FoldFunction(+, 0, clientSeq)
    BY Zenon DEF Keystrokes, FoldFunction, FoldFunctionOnSet, MapThenFoldSet
  <2>3. QED
    BY <1>3, <2>1, <2>2
<1>4. ASSUME clientSeq' = clientSeq PROVE Keystrokes' = Keystrokes
  BY <1>4, Zenon DEF Keystrokes, FoldFunction, FoldFunctionOnSet, MapThenFoldSet
<1>5. QED
  BY <1>2, <1>3, <1>4

----------------------------------------------------------------------------
(* Typing keeps the books. *)

\* A keystroke's message carries a new number, into queue and session at once.
LEMMA SubmitEffect ==
    ASSUME PipelineTypeOK, NEW c \in Clients, NEW op \in Operation, Submit(c, op)
    PROVE  LET msg == [clientSeq |-> clientSeq[c] + 1, op |-> op]
           IN /\ msg \in Message /\ msg.clientSeq = clientSeq[c] + 1 /\ msg.op = op
              /\ clientSeq' = [clientSeq EXCEPT ![c] = @ + 1]
              /\ clientSeq'[c] = clientSeq[c] + 1
              /\ \A d \in Clients : d # c => clientSeq'[d] = clientSeq[d]
              /\ up'[c] = Append(up[c], msg) /\ queue'[c] = Append(queue[c], msg)
              /\ ToSet(queue'[c]) = ToSet(queue[c]) \cup {msg}
              /\ ToSet(up'[c]) = ToSet(up[c]) \cup {msg}
              /\ \A d \in Clients : d # c => queue'[d] = queue[d] /\ up'[d] = up[d]
<1> DEFINE msg == [clientSeq |-> clientSeq[c] + 1, op |-> op]
<1>1. msg \in Message /\ msg.clientSeq = clientSeq[c] + 1 /\ msg.op = op
  BY DEF PipelineTypeOK, Message
<1>2. /\ clientSeq' = [clientSeq EXCEPT ![c] = @ + 1]
      /\ queue' = [queue EXCEPT ![c] = Append(queue[c], msg)]
      /\ up' = [up EXCEPT ![c] = Append(up[c], msg)]
  BY DEF Submit, Enqueue
<1> HIDE DEF msg
<1>3. /\ clientSeq \in [Clients -> Nat] /\ queue \in [Clients -> Seq(Message)]
      /\ up \in [Clients -> Seq(Message)]
  BY DEF PipelineTypeOK
<1>4. queue'[c] = Append(queue[c], msg) /\ up'[c] = Append(up[c], msg)
  BY <1>2, <1>3
<1>5. /\ clientSeq'[c] = clientSeq[c] + 1
      /\ \A d \in Clients : d # c => clientSeq'[d] = clientSeq[d]
      /\ \A d \in Clients : d # c => queue'[d] = queue[d] /\ up'[d] = up[d]
  BY <1>2, <1>3
<1>6. /\ ToSet(queue'[c]) = ToSet(queue[c]) \cup {msg}
      /\ ToSet(up'[c]) = ToSet(up[c]) \cup {msg}
  BY <1>1, <1>3, <1>4, AppendElements
<1>7. QED
  BY <1>1, <1>2, <1>4, <1>5, <1>6 DEF msg

\* Nothing but the author's queue is needed to see that it was issued.
LEMMA SubmitIssues ==
    ASSUME PipelineTypeOK, NEW c \in Clients, NEW op \in Operation, Submit(c, op), log' = log
    PROVE  Issued' = Issued \cup {op}
<1> DEFINE msg == [clientSeq |-> clientSeq[c] + 1, op |-> op]
<1>1. /\ msg.op = op /\ ToSet(queue'[c]) = ToSet(queue[c]) \cup {msg}
      /\ \A d \in Clients : d # c => queue'[d] = queue[d]
  BY SubmitEffect
<1> HIDE DEF msg
<1>2. \A o : o \in Issued' <=> \/ \E i \in DOMAIN log' : o = log'[i].op
                               \/ \E d \in Clients : \E m \in ToSet(queue'[d]) : o = m.op
  BY IssuedIs
<1>3. \A o : o \in Issued' <=> o \in Issued \cup {op}
  BY <1>1, <1>2, IssuedIs
<1>4. QED
  BY <1>3

\* Queueing and sending one more operation keeps the books.
LEMMA SubmitKeepsBooks ==
    ASSUME PipelineTypeOK, TypedLater, Books, NEW c \in Clients, NEW op \in Operation,
           Submit(c, op), UNCHANGED <<hand, log, down>>,
           op.type = "INSERT" => op.uid.clock <= Keystrokes + 1
    PROVE  /\ SentIsQueued' /\ NumbersNameOps' /\ AcksAreTrue'
           /\ Keystrokes' = Keystrokes + 1 /\ Keystrokes \in Nat
           /\ \A o \in Issued' : o.type = "INSERT" => o.uid.clock <= Keystrokes'
<1> DEFINE msg == [clientSeq |-> clientSeq[c] + 1, op |-> op]
<1>1. /\ msg \in Message /\ msg.clientSeq = clientSeq[c] + 1 /\ msg.op = op
      /\ clientSeq'[c] = clientSeq[c] + 1
      /\ \A d \in Clients : d # c => clientSeq'[d] = clientSeq[d]
      /\ ToSet(queue'[c]) = ToSet(queue[c]) \cup {msg}
      /\ ToSet(up'[c]) = ToSet(up[c]) \cup {msg}
      /\ \A d \in Clients : d # c => queue'[d] = queue[d] /\ up'[d] = up[d]
  BY SubmitEffect
<1>2. Keystrokes' = Keystrokes + 1 /\ Keystrokes \in Nat
  BY SubmitEffect, KeystrokeCounts
<1> HIDE DEF msg
<1>3. /\ \A d \in Clients : clientSeq[d] \in Nat
      /\ \A d \in Clients : \A m \in ToSet(queue[d]) : m \in Message /\ m.clientSeq \in Nat
      /\ \A i \in DOMAIN log : log[i].client \in Clients /\ log[i].clientSeq \in Nat
  BY BookTypes DEF Message, Entry
<1>4. SentIsQueued'
  BY <1>1 DEF Books, SentIsQueued
<1>5. NumbersNameOps'
  <2>1. \A d \in Clients : \A m \in ToSet(queue'[d]) : m.clientSeq <= clientSeq'[d]
    BY <1>1, <1>3 DEF Books, NumbersNameOps
  <2>2. \A d \in Clients : \A m, k \in ToSet(queue'[d]) : m.clientSeq = k.clientSeq => m = k
    <3>1. \A m \in ToSet(queue[c]) : m.clientSeq # msg.clientSeq
      BY <1>1, <1>3 DEF Books, NumbersNameOps
    <3>2. QED
      BY <1>1, <3>1 DEF Books, NumbersNameOps
  <2>3. \A i \in DOMAIN log : \A m \in ToSet(queue'[log[i].client]) :
            m.clientSeq = log[i].clientSeq => m.op = log[i].op
    <3>1. \A i \in DOMAIN log : log[i].client = c => log[i].clientSeq # msg.clientSeq
      BY <1>1, <1>3 DEF TypedLater
    <3>2. QED
      BY <1>1, <1>3, <3>1 DEF Books, NumbersNameOps
  <2>4. QED
    BY <2>1, <2>2, <2>3 DEF NumbersNameOps
<1>6. AcksAreTrue'
  BY DEF Books, AcksAreTrue
<1>7. ASSUME NEW o \in Issued', o.type = "INSERT" PROVE o.uid.clock <= Keystrokes'
  <2>1. o \in Issued \/ o = op
    BY SubmitIssues
  <2>2. CASE o \in Issued
    <3>1. o.uid.clock <= Keystrokes
      BY <1>7, <2>2 DEF Books, ClocksBounded
    <3>2. o \in Operation
      BY <1>3, <2>2, IssuedIs, BookTypes DEF Message, Entry
    <3>3. o.uid.clock \in Nat
      BY <1>7, <3>2 DEF Operation, UID
    <3>4. QED
      BY <1>2, <3>1, <3>3
  <2>3. CASE o = op
    BY <1>2, <1>7, <2>3
  <2>4. QED
    BY <2>1, <2>2, <2>3
<1>8. QED
  BY <1>2, <1>4, <1>5, <1>6, <1>7

\* The editor's document and the document seen after one of its own steps.
LEMMA LocalInsertIs ==
    ASSUME PipelineTypeOK, Books, NEW c \in Clients, LocalInsert(c)
    PROVE  \E a \in {Root} \cup VisibleUids(doc(c)) :
              LET u == [clock |-> clock[c] + 1, site |-> SiteOf[c]]
              IN /\ u \in Uids /\ u.clock = clock[c] + 1 /\ a \in Uids \cup {Root}
                 /\ InsertOp(u, a) \in Operation /\ Submit(c, InsertOp(u, a))
                 /\ ~Holds(list[c], u) /\ Known(list[c], a)
                 /\ list' = [list EXCEPT ![c] = Place(list[c], a, u)]
                 /\ ToSet(list'[c]) = ToSet(list[c]) \cup {u}
                 /\ clock' = [clock EXCEPT ![c] = clock[c] + 1]
<1>1. PICK a \in {Root} \cup VisibleUids(doc(c)) :
          LET u == [clock |-> clock[c] + 1, site |-> SiteOf[c]]
          IN /\ list' = [list EXCEPT ![c] = ApplyInsert(doc(c), InsertOp(u, a)).list]
             /\ clock' = [clock EXCEPT ![c] = @ + 1]
             /\ Submit(c, InsertOp(u, a))
  BY DEF LocalInsert
<1> DEFINE u == [clock |-> clock[c] + 1, site |-> SiteOf[c]]
           op == InsertOp(u, a)
<1>2. clock[c] \in Nat /\ list[c] \in Seq(Uids) /\ list \in [Clients -> Seq(Uids)]
  BY BookTypes DEF PipelineTypeOK
<1>3. u \in Uids /\ u.clock = clock[c] + 1 /\ a \in Uids \cup {Root}
  BY <1>2, NewUid, TypeParts
<1>4. op \in Operation /\ op.type = "INSERT" /\ op.uid = u /\ op.after = a
  BY <1>3 DEF InsertOp, Operation, Uids
<1>5. ~Holds(list[c], u)
  <2>1. \A v \in ToSet(list[c]) : v.clock <= clock[c] /\ v.clock \in Nat
    BY BookTypes DEF Books, ClocksBounded, Uids, UID
  <2>2. QED
    BY <1>2, <1>3, <2>1 DEF Holds
<1>6. Known(list[c], a)
  BY TypeParts DEF Known, Holds, VisibleUids
<1> HIDE DEF u, op
<1>7. ApplyInsert(doc(c), op).list = Place(list[c], a, u)
  <2>1. ApplyInsert(doc(c), op) = [doc(c) EXCEPT !.list = Place(doc(c).list, a, u)]
    BY <1>4, <1>5, <1>6, TypeParts DEF ApplyInsert
  <2>2. QED
    BY <2>1, TypeParts DEF doc
<1>8. Place(list[c], a, u) \in Seq(Uids) /\ ToSet(Place(list[c], a, u)) = ToSet(list[c]) \cup {u}
  BY <1>2, <1>3, <1>6, PlaceSplices, PlaceAddsOne
<1>9. list' = [list EXCEPT ![c] = Place(list[c], a, u)] /\ list'[c] = Place(list[c], a, u)
  BY <1>1, <1>2, <1>7 DEF op, u
<1>10. QED
  BY <1>1, <1>3, <1>4, <1>5, <1>6, <1>8, <1>9 DEF u, op

\* So does a keystroke: its document steps are the client's own (submitInsert,
\* submitDelete).
LEMMA TypeKeepsBooks ==
    ASSUME PipelineTypeOK, TypedLater, Books, NEW c \in Clients, Type(c)
    PROVE  Books'
<1>0. /\ clock \in [Clients -> Nat] /\ list \in [Clients -> Seq(Uids)]
      /\ Keystrokes \in Nat
  BY KeystrokeCounts DEF PipelineTypeOK
<1>1. CASE LocalInsert(c)
  <2> DEFINE u == [clock |-> clock[c] + 1, site |-> SiteOf[c]]
  <2>1. PICK a \in {Root} \cup VisibleUids(doc(c)) :
             /\ u \in Uids /\ u.clock = clock[c] + 1
             /\ InsertOp(u, a) \in Operation /\ Submit(c, InsertOp(u, a))
             /\ list' = [list EXCEPT ![c] = Place(list[c], a, u)]
             /\ ToSet(list'[c]) = ToSet(list[c]) \cup {u}
             /\ clock' = [clock EXCEPT ![c] = clock[c] + 1]
    BY <1>1, LocalInsertIs
  <2> HIDE DEF u
  <2>2. UNCHANGED <<hand, log, down>>
    BY <1>1 DEF LocalInsert, serverVars
  <2>3. clock[c] <= Keystrokes /\ InsertOp(u, a).uid.clock = clock[c] + 1
    BY <2>1 DEF Books, ClocksBounded, InsertOp
  <2>4. InsertOp(u, a).uid.clock <= Keystrokes + 1
    BY <1>0, <2>3
  <2>5. /\ SentIsQueued' /\ NumbersNameOps' /\ AcksAreTrue'
        /\ Keystrokes' = Keystrokes + 1
        /\ \A o \in Issued' : o.type = "INSERT" => o.uid.clock <= Keystrokes'
    BY <2>1, <2>2, <2>4, SubmitKeepsBooks
  <2>6. /\ \A d \in Clients : d # c => clock'[d] = clock[d] /\ list'[d] = list[d]
        /\ clock'[c] = clock[c] + 1
    BY <1>0, <2>1
  <2>7. \A d \in Clients : clock'[d] <= Keystrokes'
    BY SMTT(60), <1>0, <2>5, <2>6 DEF Books, ClocksBounded
  <2>8. \A d \in Clients : \A v \in ToSet(list'[d]) : v.clock <= clock'[d]
    <3>1. \A v \in ToSet(list[c]) : v.clock \in Nat /\ v.clock <= clock[c]
      BY BookTypes DEF Books, ClocksBounded, Uids, UID
    <3>2. \A v \in ToSet(list'[c]) : v.clock <= clock'[c]
      BY <1>0, <2>1, <2>6, <3>1
    <3>3. QED
      BY <2>6, <3>2 DEF Books, ClocksBounded
  <2>9. QED
    BY <2>5, <2>7, <2>8 DEF Books, ClocksBounded
<1>2. CASE LocalDelete(c)
  <2>1. PICK u \in VisibleUids(doc(c)) : Submit(c, DeleteOp(u))
    BY <1>2 DEF LocalDelete
  <2>2. DeleteOp(u) \in Operation /\ DeleteOp(u).type # "INSERT"
    BY TypeParts DEF DeleteOp, Operation, Uids
  <2>3. UNCHANGED <<hand, log, down, list, clock>>
    BY <1>2 DEF LocalDelete, serverVars
  <2>4. /\ SentIsQueued' /\ NumbersNameOps' /\ AcksAreTrue'
        /\ Keystrokes' = Keystrokes + 1
        /\ \A o \in Issued' : o.type = "INSERT" => o.uid.clock <= Keystrokes'
    BY <2>1, <2>2, <2>3, SubmitKeepsBooks
  <2>5. \A d \in Clients : clock'[d] <= Keystrokes'
    BY <1>0, <2>3, <2>4 DEF Books, ClocksBounded
  <2>6. QED
    BY <2>3, <2>4, <2>5 DEF Books, ClocksBounded
<1>3. CASE LocalDeleteNothing(c)
  <2>1. /\ clientSeq' = [clientSeq EXCEPT ![c] = @ + 1]
        /\ UNCHANGED <<list, tomb, clock, queue, lastSeq, up, down, hand, log>>
    BY <1>3 DEF LocalDeleteNothing, serverVars
  <2>2. Keystrokes' = Keystrokes + 1
    BY <2>1, KeystrokeCounts
  <2>3. \A d \in Clients : clientSeq[d] \in Nat /\ clientSeq[d] <= clientSeq'[d]
    <3>1. clientSeq \in [Clients -> Nat]
      BY DEF PipelineTypeOK
    <3>2. QED
      BY <2>1, <3>1
  <2>4. \A d \in Clients : \A m \in ToSet(queue[d]) : m.clientSeq \in Nat /\ clientSeq'[d] \in Nat
    <3>1. \A d \in Clients : clientSeq'[d] \in Nat
      BY <2>1 DEF PipelineTypeOK
    <3>2. QED
      BY <3>1, BookTypes DEF Message
  <2>5. NumbersNameOps'
    <3>1. \A d \in Clients : \A m \in ToSet(queue[d]) : m.clientSeq <= clientSeq'[d]
      BY <2>3, <2>4 DEF Books, NumbersNameOps
    <3>2. QED
      BY <2>1, <3>1 DEF Books, NumbersNameOps
  <2>6. \A o \in Issued' : o.type = "INSERT" => o.uid.clock <= Keystrokes'
    <3>1. Issued' = Issued
      BY <2>1 DEF Issued
    <3>2. \A o \in Issued : o \in Operation
      BY IssuedIs, BookTypes DEF Message, Entry
    <3>3. \A o \in Issued : o.type = "INSERT" => o.uid.clock \in Nat
      BY <3>2 DEF Operation, UID
    <3>4. QED
      BY <1>0, <2>2, <3>1, <3>3 DEF Books, ClocksBounded
  <2>7. \A d \in Clients : clock[d] <= Keystrokes'
    BY <1>0, <2>2 DEF Books, ClocksBounded
  <2>8. SentIsQueued' /\ AcksAreTrue'
    BY <2>1 DEF Books, SentIsQueued, AcksAreTrue
  <2>9. QED
    BY <2>1, <2>5, <2>6, <2>7, <2>8 DEF Books, ClocksBounded
<1>4. QED
  BY <1>1, <1>2, <1>3 DEF Type

----------------------------------------------------------------------------
(* The pipeline keeps the books. *)

\* The head of the session's queue becomes the table's last row.
LEMMA PersistIs ==
    ASSUME PipelineTypeOK, NEW c \in Clients, Persist(c)
    PROVE  LET msg == Head(up[c])
               row == [client |-> c, clientSeq |-> msg.clientSeq, op |-> msg.op]
           IN /\ msg \in Message /\ msg \in ToSet(up[c]) /\ row \in Entry
              /\ row.client = c /\ row.clientSeq = msg.clientSeq /\ row.op = msg.op
              /\ log' = Append(log, row) /\ DOMAIN log' = 1..(Len(log) + 1)
              /\ log'[Len(log) + 1] = row /\ \A i \in DOMAIN log : log'[i] = log[i]
              /\ up'[c] = Tail(up[c]) /\ ToSet(up[c]) = {msg} \cup ToSet(up'[c])
              /\ \A d \in Clients : d # c => up'[d] = up[d]
<1> DEFINE msg == Head(up[c])
           row == [client |-> c, clientSeq |-> msg.clientSeq, op |-> msg.op]
<1>1. up \in [Clients -> Seq(Message)] /\ up[c] # << >> /\ up' = [up EXCEPT ![c] = Tail(up[c])]
  BY DEF PipelineTypeOK, Persist
<1>2. msg \in Message /\ msg \in ToSet(up[c]) /\ ToSet(up[c]) = {msg} \cup ToSet(Tail(up[c]))
  BY <1>1, HeadAndTail
<1>3. row \in Entry /\ row.client = c /\ row.clientSeq = msg.clientSeq /\ row.op = msg.op
  BY <1>2 DEF Message, Entry
<1>4. log' = Append(log, row) /\ log \in Seq(Entry)
  BY DEF Persist, PipelineTypeOK
<1> HIDE DEF msg, row
<1>5. /\ DOMAIN log' = 1..(Len(log) + 1) /\ log'[Len(log) + 1] = row
      /\ \A i \in DOMAIN log : log'[i] = log[i]
  BY <1>3, <1>4
<1>6. up'[c] = Tail(up[c]) /\ \A d \in Clients : d # c => up'[d] = up[d]
  BY <1>1
<1>7. QED
  BY <1>2, <1>3, <1>4, <1>5, <1>6 DEF msg, row

\* A stored operation is the head of its author's session: the row and the
\* queue's message name the same operation.
LEMMA PersistKeepsBooks ==
    ASSUME PipelineTypeOK, HandsHoldSeqs, Books, NEW c \in Clients, Persist(c)
    PROVE  Books' /\ Issued' = Issued
<1> DEFINE msg == Head(up[c])
           row == [client |-> c, clientSeq |-> msg.clientSeq, op |-> msg.op]
           n == Len(log) + 1
<1>1. /\ msg \in Message /\ msg \in ToSet(up[c])
      /\ row.client = c /\ row.clientSeq = msg.clientSeq /\ row.op = msg.op
      /\ DOMAIN log' = 1..n /\ log'[n] = row /\ \A i \in DOMAIN log : log'[i] = log[i]
      /\ ToSet(up[c]) = {msg} \cup ToSet(up'[c])
      /\ \A d \in Clients : d # c => up'[d] = up[d]
  BY PersistIs
<1> HIDE DEF msg, row
<1>2. /\ UNCHANGED <<list, clock, clientSeq, queue, down>>
      /\ hand' = [hand EXCEPT ![c] = [stage |-> "publish", seq |-> n]]
  BY DEF Persist, clientVars
<1>3. DOMAIN log = 1..Len(log) /\ Len(log) \in Nat /\ \A i \in DOMAIN log' : i \in DOMAIN log \/ i = n
  BY <1>1, BookTypes
<1>4. msg \in ToSet(queue[c])
  BY <1>1 DEF Books, SentIsQueued
<1>5. Issued' = Issued
  <2>1. \A o : o \in Issued' <=> o \in Issued
    BY <1>1, <1>2, <1>3, <1>4, IssuedIs
  <2>2. QED
    BY <2>1
<1>6. SentIsQueued'
  BY <1>1, <1>2 DEF Books, SentIsQueued
<1>7. NumbersNameOps'
  <2>1. \A i \in DOMAIN log' : \A m \in ToSet(queue[log'[i].client]) :
            m.clientSeq = log'[i].clientSeq => m.op = log'[i].op
    <3> SUFFICES ASSUME NEW i \in DOMAIN log', NEW m \in ToSet(queue[log'[i].client]),
                        m.clientSeq = log'[i].clientSeq
                 PROVE  m.op = log'[i].op
      OBVIOUS
    <3>1. CASE i \in DOMAIN log
      BY <1>1, <3>1 DEF Books, NumbersNameOps
    <3>2. CASE i = n
      BY <1>1, <1>4, <3>2 DEF Books, NumbersNameOps
    <3>3. QED
      BY <1>3, <3>1, <3>2
  <2>2. QED
    BY <1>2, <2>1 DEF Books, NumbersNameOps
<1>8. AcksAreTrue'
  <2>1. \A d \in Clients : hand'[d].stage # "idle" => log'[hand'[d].seq].client = d
    <3> SUFFICES ASSUME NEW d \in Clients, hand'[d].stage # "idle"
                 PROVE  log'[hand'[d].seq].client = d
      OBVIOUS
    <3>1. hand \in [Clients -> [stage : {"idle", "publish", "acknowledge"}, seq : 0..Len(log)]]
      BY DEF PipelineTypeOK
    <3>2. CASE d = c
      BY <1>1, <1>2, <3>1, <3>2
    <3>3. CASE d # c
      <4>1. hand'[d] = hand[d]
        BY <1>2, <3>1, <3>3
      <4>2. hand[d].seq \in DOMAIN log
        BY <4>1 DEF HandsHoldSeqs
      <4>3. QED
        BY <1>1, <4>1, <4>2 DEF Books, AcksAreTrue
    <3>4. QED
      BY <3>2, <3>3
  <2>2. \A d \in Clients : \A m \in ToSet(down[d]) :
          m.type = "OP_ACK" => /\ log'[m.serverSeq].client = d
                               /\ log'[m.serverSeq].clientSeq = m.clientSeq
    <3>1. \A d \in Clients : \A m \in ToSet(down[d]) : m.serverSeq \in DOMAIN log
      BY BookTypes DEF ServerMessages
    <3>2. QED
      BY <1>1, <3>1 DEF Books, AcksAreTrue
  <2>3. QED
    BY <1>2, <2>1, <2>2 DEF AcksAreTrue
<1>9. ClocksBounded'
  <2>1. Keystrokes' = Keystrokes
    BY <1>2, KeystrokeCounts
  <2>2. QED
    BY <1>2, <1>5, <2>1 DEF Books, ClocksBounded
<1>10. QED
  BY <1>5, <1>6, <1>7, <1>8, <1>9 DEF Books

\* Of what they do not touch the books keep what they say.
LEMMA BooksStay ==
    ASSUME PipelineTypeOK, Books, UNCHANGED <<list, clock, clientSeq, queue, log>>,
           SentIsQueued', AcksAreTrue'
    PROVE  Books' /\ Issued' = Issued
<1>1. Issued' = Issued
  BY DEF Issued
<1>2. Keystrokes' = Keystrokes
  BY KeystrokeCounts
<1>3. QED
  BY <1>1, <1>2 DEF Books, NumbersNameOps, ClocksBounded

\* Answering or failing to answer ends the handler; publishing keeps its seq.
LEMMA HandlerKeepsBooks ==
    ASSUME PipelineTypeOK, HandsHoldSeqs, Books, NEW c \in Clients,
           Refuse(c) \/ Publish(c) \/ Acknowledge(c) \/ FailToPublish(c)
    PROVE  Books' /\ Issued' = Issued
<1>0. hand \in [Clients -> [stage : {"idle", "publish", "acknowledge"}, seq : 0..Len(log)]]
  BY DEF PipelineTypeOK
<1>1. CASE Refuse(c)
  <2>1. /\ UNCHANGED <<list, clock, clientSeq, queue, log, hand, down>>
        /\ up' = [up EXCEPT ![c] = Tail(up[c])] /\ up[c] # << >> /\ up \in [Clients -> Seq(Message)]
    BY <1>1 DEF Refuse, clientVars, PipelineTypeOK
  <2>2. \A d \in Clients : ToSet(up'[d]) \subseteq ToSet(up[d])
    <3>1. ToSet(Tail(up[c])) \subseteq ToSet(up[c])
      BY <2>1, HeadAndTail
    <3>2. QED
      BY <2>1, <3>1
  <2>3. SentIsQueued' /\ AcksAreTrue'
    BY <2>1, <2>2 DEF Books, SentIsQueued, AcksAreTrue
  <2>4. QED
    BY <2>1, <2>3, BooksStay
<1>2. CASE Publish(c)
  <2>1. /\ UNCHANGED <<list, clock, clientSeq, queue, log, up, down>>
        /\ hand[c].stage # "idle" /\ hand' = [hand EXCEPT ![c].stage = "acknowledge"]
    BY <1>2 DEF Publish, clientVars
  <2>2. \A d \in Clients : hand'[d].seq = hand[d].seq /\ (hand'[d].stage # "idle" => hand[d].stage # "idle")
    BY <1>0, <2>1
  <2>3. SentIsQueued' /\ AcksAreTrue'
    BY <2>1, <2>2 DEF Books, SentIsQueued, AcksAreTrue
  <2>4. QED
    BY <2>1, <2>3, BooksStay
<1>3. CASE FailToPublish(c)
  <2>1. /\ UNCHANGED <<list, clock, clientSeq, queue, log, up, down>>
        /\ hand' = [hand EXCEPT ![c] = Idle]
    BY <1>3 DEF FailToPublish, clientVars
  <2>2. \A d \in Clients : hand'[d].stage # "idle" => hand'[d] = hand[d]
    BY <1>0, <2>1 DEF Idle
  <2>3. SentIsQueued' /\ AcksAreTrue'
    BY <2>1, <2>2 DEF Books, SentIsQueued, AcksAreTrue
  <2>4. QED
    BY <2>1, <2>3, BooksStay
<1>4. CASE Acknowledge(c)
  <2> DEFINE seq == hand[c].seq
             ack == OpAck(log[seq].clientSeq, seq)
  <2>1. /\ UNCHANGED <<list, clock, clientSeq, queue, log, up>>
        /\ hand' = [hand EXCEPT ![c] = Idle] /\ hand[c].stage # "idle"
        /\ down' = [down EXCEPT ![c] = Append(down[c], ack)]
    BY <1>4 DEF Acknowledge, clientVars
  <2>2. \A d \in Clients : hand'[d].stage # "idle" => hand'[d] = hand[d]
    BY <1>0, <2>1 DEF Idle
  <2>3. seq \in DOMAIN log /\ log[seq].client = c
    BY <2>1 DEF HandsHoldSeqs, Books, AcksAreTrue
  <2>4. ack \in ServerMessages(DOMAIN log) /\ ack.serverSeq = seq /\ ack.clientSeq = log[seq].clientSeq
    BY <2>3, BookTypes DEF OpAck, ServerMessages, Entry
  <2> HIDE DEF ack
  <2>5. \A d \in Clients : \A m \in ToSet(down'[d]) : m \in ToSet(down[d]) \/ (m = ack /\ d = c)
    <3>1. down \in [Clients -> Seq(ServerMessages(DOMAIN log))]
      BY DEF PipelineTypeOK
    <3>2. ToSet(Append(down[c], ack)) = ToSet(down[c]) \cup {ack}
      BY <2>4, <3>1, AppendElements
    <3>3. QED
      BY <2>1, <3>1, <3>2
  <2>6. AcksAreTrue'
    <3>1. \A d \in Clients : hand'[d].stage # "idle" => log[hand'[d].seq].client = d
      BY <2>2 DEF Books, AcksAreTrue
    <3>2. \A d \in Clients : \A m \in ToSet(down'[d]) :
            m.type = "OP_ACK" => /\ log[m.serverSeq].client = d
                                 /\ log[m.serverSeq].clientSeq = m.clientSeq
      BY <2>3, <2>4, <2>5 DEF Books, AcksAreTrue
    <3>3. QED
      BY <2>1, <3>1, <3>2 DEF AcksAreTrue
  <2>7. SentIsQueued'
    BY <2>1 DEF Books, SentIsQueued
  <2>8. QED
    BY <2>1, <2>6, <2>7, BooksStay
<1>5. QED
  BY <1>1, <1>2, <1>3, <1>4

\* Fan-out sends the same broadcast some number of times.
LEMMA FanOutIs ==
    ASSUME PipelineTypeOK, NEW w \in Workers, FanOut(w)
    PROVE  /\ fanned[w] + 1 \in 1..Len(channel) /\ channel[fanned[w] + 1] \in DOMAIN log
           /\ \E n \in Nat : \E copies \in Seq(ServerMessages(DOMAIN log)) :
                 /\ n = Copies(w) /\ copies = [i \in 1..n |-> Broadcast(channel[fanned[w] + 1])]
                 /\ down' = [c \in Clients |-> IF home[c] = w THEN down[c] \o copies ELSE down[c]]
<1> DEFINE seq == channel[fanned[w] + 1]
           copies == [i \in 1..Copies(w) |-> Broadcast(seq)]
<1>1. fanned[w] + 1 \in 1..Len(channel) /\ Len(channel) \in Nat
  BY DEF FanOut, PipelineTypeOK
<1>2. seq \in DOMAIN log /\ Broadcast(seq) \in ServerMessages(DOMAIN log)
  BY <1>1 DEF PipelineTypeOK, Broadcast, ServerMessages
<1>3. Copies(w) \in Nat
  <2>1. {c \in Clients : home[c] = w} \in SUBSET Clients
    OBVIOUS
  <2>2. QED
    BY <2>1, FS_Subset, FS_CardinalityType, ClientsAssumption DEF Copies
<1>4. copies \in Seq(ServerMessages(DOMAIN log))
  BY <1>2, <1>3
<1>5. down' = [c \in Clients |-> IF home[c] = w THEN down[c] \o copies ELSE down[c]]
  BY DEF FanOut
<1> HIDE DEF copies
<1>6. \E n \in Nat : n = Copies(w) /\ copies = [i \in 1..n |-> Broadcast(seq)]
  BY <1>3 DEF copies
<1>7. QED
  BY <1>1, <1>2, <1>4, <1>5, <1>6

\* Fan-out only adds broadcasts of rows the table has.
LEMMA FanOutKeepsBooks ==
    ASSUME PipelineTypeOK, Books, NEW w \in Workers, FanOut(w)
    PROVE  Books' /\ Issued' = Issued
<1>1. UNCHANGED <<list, clock, clientSeq, queue, log, up, hand>>
  BY DEF FanOut, clientVars
<1>2. PICK n \in Nat, copies \in Seq(ServerMessages(DOMAIN log)) :
          /\ copies = [i \in 1..n |-> Broadcast(channel[fanned[w] + 1])]
          /\ down' = [c \in Clients |-> IF home[c] = w THEN down[c] \o copies ELSE down[c]]
  BY FanOutIs
<1>3. \A m \in ToSet(copies) : m.type = "BROADCAST"
  BY <1>2 DEF ToSet, Broadcast
<1>4. \A d \in Clients : \A m \in ToSet(down'[d]) : m \in ToSet(down[d]) \/ m.type = "BROADCAST"
  <2>1. \A d \in Clients : ToSet(down[d] \o copies) = ToSet(down[d]) \cup ToSet(copies)
    BY BookTypes, ConcatElements
  <2>2. QED
    BY <1>2, <1>3, <2>1
<1>5. SentIsQueued' /\ AcksAreTrue'
  BY <1>1, <1>4 DEF Books, SentIsQueued, AcksAreTrue
<1>6. QED
  BY <1>1, <1>5, BooksStay

\* An answer takes an operation out of the queue that the table has.
LEMMA ReceiveAckKeepsBooks ==
    ASSUME PipelineTypeOK, TypedLater, Books, NEW c \in Clients, ReceiveAck(c)
    PROVE  Books' /\ Issued' = Issued
<1> DEFINE msg == Head(down[c])
           n == msg.clientSeq
           seq == msg.serverSeq
<1>1. /\ down[c] # << >> /\ msg.type = "OP_ACK" /\ down' = [down EXCEPT ![c] = Tail(down[c])]
      /\ queue' = [queue EXCEPT ![c] = Without(queue[c], n)]
      /\ UNCHANGED <<list, clock, clientSeq, log, hand, up>>
  BY DEF ReceiveAck, serverVars
<1>2. /\ down \in [Clients -> Seq(ServerMessages(DOMAIN log))]
      /\ queue \in [Clients -> Seq(Message)]
  BY DEF PipelineTypeOK
<1>3. /\ msg \in ServerMessages(DOMAIN log) /\ msg \in ToSet(down[c])
      /\ ToSet(down[c]) = {msg} \cup ToSet(Tail(down[c]))
  BY <1>1, <1>2, HeadAndTail
<1>4. seq \in DOMAIN log /\ log[seq].client = c /\ log[seq].clientSeq = n
  BY <1>1, <1>3 DEF ServerMessages, Books, AcksAreTrue
<1> HIDE DEF msg
<1>5. /\ ToSet(queue'[c]) = {m \in ToSet(queue[c]) : m.clientSeq # n}
      /\ \A d \in Clients : d # c => queue'[d] = queue[d]
      /\ \A d \in Clients : ToSet(queue'[d]) \subseteq ToSet(queue[d])
  <2>1. queue'[c] = Without(queue[c], n) /\ \A d \in Clients : d # c => queue'[d] = queue[d]
    BY <1>1, <1>2
  <2>2. ToSet(queue'[c]) = {m \in ToSet(queue[c]) : m.clientSeq # n}
    BY <1>2, <2>1, WithoutKeepsOthers
  <2>3. QED
    BY <2>1, <2>2
<1>6. Issued' = Issued
  <2>1. ASSUME NEW m \in ToSet(queue[c]), m.clientSeq = n PROVE m.op = log[seq].op
    BY <1>4, <2>1 DEF Books, NumbersNameOps
  <2>2. \A o : o \in Issued' => o \in Issued
    BY <1>1, <1>5, IssuedIs
  <2>3. ASSUME NEW o \in Issued PROVE o \in Issued'
    <3>1. CASE \E i \in DOMAIN log : o = log[i].op
      BY <1>1, <3>1, IssuedIs
    <3>2. CASE \E d \in Clients : \E m \in ToSet(queue[d]) : o = m.op
      <4>0. PICK d \in Clients : \E m \in ToSet(queue[d]) : o = m.op
        BY <3>2
      <4>1. PICK m \in ToSet(queue[d]) : o = m.op
        BY <4>0
      <4>2. CASE m \in ToSet(queue'[d])
        BY <4>1, <4>2, IssuedIs
      <4>3. CASE m \notin ToSet(queue'[d])
        <5>1. o = log[seq].op
          BY <1>5, <2>1, <4>1, <4>3
        <5>2. QED
          BY <1>1, <1>4, <5>1, IssuedIs
      <4>4. QED
        BY <4>2, <4>3
    <3>3. QED
      BY <3>1, <3>2, IssuedIs
  <2>4. QED
    BY <2>2, <2>3
<1>7. SentIsQueued'
  <2> SUFFICES ASSUME NEW d \in Clients, NEW m \in ToSet(up[d]) PROVE m \in ToSet(queue'[d])
    BY <1>1 DEF SentIsQueued
  <2>1. m \in ToSet(queue[d])
    BY DEF Books, SentIsQueued
  <2>2. CASE d = c
    <3>1. PICK j \in DOMAIN up[c] : m = up[c][j]
      BY <2>2 DEF ToSet
    <3>2. log[seq].clientSeq < up[c][j].clientSeq
      BY <1>4, <3>1 DEF TypedLater
    <3>3. m \in Message /\ log[seq] \in Entry
      BY <1>4, BookTypes
    <3>4. m.clientSeq # n
      BY <1>4, <3>1, <3>2, <3>3 DEF Message, Entry
    <3>5. QED
      BY <1>5, <2>1, <2>2, <3>4
  <2>3. QED
    BY <1>5, <2>1, <2>2
<1>8. NumbersNameOps'
  BY SMTT(60), <1>1, <1>5, BookTypes DEF Books, NumbersNameOps, Entry
<1>9. AcksAreTrue'
  <2>1. \A d \in Clients : ToSet(down'[d]) \subseteq ToSet(down[d])
    BY <1>1, <1>2, <1>3 DEF msg
  <2>2. QED
    BY <1>1, <2>1 DEF Books, AcksAreTrue
<1>10. ClocksBounded'
  <2>1. Keystrokes' = Keystrokes
    BY <1>1, KeystrokeCounts
  <2>2. QED
    BY <1>1, <1>6, <2>1 DEF Books, ClocksBounded
<1>11. QED
  BY <1>6, <1>7, <1>8, <1>9, <1>10 DEF Books

\* A broadcast of a row: what the client's replica and clock become.
LEMMA ReceiveBroadcastIs ==
    ASSUME PipelineTypeOK, NEW c \in Clients, ReceiveBroadcast(c)
    PROVE  LET msg == Head(down[c])
               op == log[msg.serverSeq].op
           IN /\ msg \in ToSet(down[c]) /\ msg.serverSeq \in DOMAIN log /\ op \in Operation /\ op \in Issued
              /\ ToSet(down[c]) = {msg} \cup ToSet(down'[c])
              /\ \A d \in Clients : d # c => down'[d] = down[d]
              /\ list' = [list EXCEPT ![c] = Apply(doc(c), op).list]
              /\ tomb' = [tomb EXCEPT ![c] = Apply(doc(c), op).tomb]
              /\ clock' = [clock EXCEPT ![c] = ClockAfter(c, op)]
              /\ list'[c] = Apply(doc(c), op).list /\ tomb'[c] = Apply(doc(c), op).tomb
              /\ clock'[c] = ClockAfter(c, op)
              /\ \A d \in Clients : d # c => list'[d] = list[d] /\ tomb'[d] = tomb[d] /\ clock'[d] = clock[d]
<1> DEFINE msg == Head(down[c])
           op == log[msg.serverSeq].op
<1>1. /\ down[c] # << >> /\ msg.type = "BROADCAST" /\ down' = [down EXCEPT ![c] = Tail(down[c])]
      /\ list' = [list EXCEPT ![c] = Apply(doc(c), op).list]
      /\ tomb' = [tomb EXCEPT ![c] = Apply(doc(c), op).tomb]
      /\ clock' = [clock EXCEPT ![c] = ClockAfter(c, op)]
  BY DEF ReceiveBroadcast
<1>2. /\ down \in [Clients -> Seq(ServerMessages(DOMAIN log))] /\ clock \in [Clients -> Nat]
      /\ list \in [Clients -> Seq(Uids)] /\ tomb \in [Clients -> SUBSET Uids]
  BY DEF PipelineTypeOK
<1>3. /\ msg \in ServerMessages(DOMAIN log) /\ msg \in ToSet(down[c])
      /\ ToSet(down[c]) = {msg} \cup ToSet(Tail(down[c]))
  BY <1>1, <1>2, HeadAndTail
<1>4. msg.serverSeq \in DOMAIN log /\ op \in Operation /\ op \in Issued
  <2>1. msg.serverSeq \in DOMAIN log
    BY <1>3 DEF ServerMessages
  <2>2. QED
    BY <2>1, BookTypes, IssuedIs DEF Entry
<1> HIDE DEF msg, op
<1>5. down'[c] = Tail(down[c]) /\ \A d \in Clients : d # c => down'[d] = down[d]
  BY <1>1, <1>2
<1>6. /\ list'[c] = Apply(doc(c), op).list /\ tomb'[c] = Apply(doc(c), op).tomb
      /\ clock'[c] = ClockAfter(c, op)
      /\ \A d \in Clients : d # c => list'[d] = list[d] /\ tomb'[d] = tomb[d] /\ clock'[d] = clock[d]
  BY <1>1, <1>2
<1>7. QED
  BY <1>1, <1>3, <1>4, <1>5, <1>6 DEF msg, op

\* What an operation does to a client's document.
LEMMA ClientApplies ==
    ASSUME PipelineTypeOK, NEW c \in Clients, NEW op \in Operation
    PROVE  /\ op.type = "INSERT" =>
                 /\ ToSet(Apply(doc(c), op).list) = IF Applicable(doc(c), op) THEN ToSet(list[c]) \cup {op.uid}
                                                    ELSE ToSet(list[c])
                 /\ Apply(doc(c), op).tomb = tomb[c]
           /\ op.type # "INSERT" =>
                 /\ Apply(doc(c), op).list = list[c]
                 /\ Apply(doc(c), op).tomb = IF Applicable(doc(c), op) THEN tomb[c] \cup {op.uid} ELSE tomb[c]
           /\ ~Applicable(doc(c), op) => Apply(doc(c), op) = doc(c)
<1> DEFINE d == doc(c)
<1>1. d = [list |-> d.list, tomb |-> d.tomb] /\ d.list \in Seq(Uids) /\ d.list = list[c] /\ d.tomb = tomb[c]
  BY TypeParts
<1>2. op.type = "INSERT" => op.uid \in Uids /\ op.after \in Uids \cup {Root}
  BY DEF Operation, Uids
<1> HIDE DEF d
<1>3. /\ op.type = "INSERT" =>
            /\ ToSet(Apply(d, op).list) = IF Applicable(d, op) THEN ToSet(d.list) \cup {op.uid}
                                          ELSE ToSet(d.list)
            /\ Apply(d, op).tomb = d.tomb
      /\ op.type # "INSERT" =>
            /\ Apply(d, op).list = d.list
            /\ Apply(d, op).tomb = IF Applicable(d, op) THEN d.tomb \cup {op.uid} ELSE d.tomb
      /\ ~Applicable(d, op) => Apply(d, op) = d
  BY ZenonT(60), <1>1, <1>2, ApplyElements
<1>4. QED
  BY <1>1, <1>3 DEF d

\* A broadcast moves lastSeq to a row the table has, and no number.
LEMMA ReceiveBroadcastKeepsBooks ==
    ASSUME PipelineTypeOK, Books, NEW c \in Clients, ReceiveBroadcast(c)
    PROVE  Books' /\ Issued' = Issued
<1> DEFINE op == log[Head(down[c]).serverSeq].op
<1>1. /\ op \in Operation /\ op \in Issued
      /\ \A d \in Clients : ToSet(down'[d]) \subseteq ToSet(down[d])
      /\ list'[c] = Apply(doc(c), op).list
      /\ clock'[c] = ClockAfter(c, op)
      /\ \A d \in Clients : d # c => list'[d] = list[d] /\ clock'[d] = clock[d]
  BY ReceiveBroadcastIs
<1> HIDE DEF op
<1>2. UNCHANGED <<clientSeq, queue, log, hand, up>>
  BY DEF ReceiveBroadcast, serverVars
<1>3. Issued' = Issued /\ Keystrokes' = Keystrokes /\ Keystrokes \in Nat
  BY <1>2, KeystrokeCounts DEF Issued
<1>4. SentIsQueued' /\ NumbersNameOps' /\ AcksAreTrue'
  <2>1. SentIsQueued' /\ NumbersNameOps'
    BY <1>2 DEF Books, SentIsQueued, NumbersNameOps
  <2>2. AcksAreTrue'
    BY <1>1, <1>2 DEF Books, AcksAreTrue
  <2>3. QED
    BY <2>1, <2>2
<1>5. /\ clock[c] \in Nat /\ clock[c] <= Keystrokes
      /\ \A u \in ToSet(list[c]) : u.clock \in Nat /\ u.clock <= clock[c]
  BY BookTypes DEF Books, ClocksBounded, Uids, UID
<1>6. clock'[c] <= Keystrokes /\ \A u \in ToSet(list'[c]) : u.clock <= clock'[c]
  <2>1. CASE op.type = "INSERT"
    <3>1. op.uid \in Uids /\ op.after \in Uids \cup {Root} /\ op.uid.clock \in Nat
      BY <1>1, <2>1 DEF Operation, Uids, UID
    <3>2. op.uid.clock <= Keystrokes
      BY <1>1, <2>1 DEF Books, ClocksBounded
    <3>3. CASE ~Holds(list[c], op.uid) /\ Known(list[c], op.after)
      <4>1. clock'[c] = LaterOf(clock[c], op.uid.clock)
        BY <1>1, <2>1, <3>3 DEF ClockAfter
      <4>2. ToSet(list'[c]) = ToSet(list[c]) \cup {op.uid}
        <5>1. Applicable(doc(c), op)
          BY <2>1, <3>3, TypeParts DEF Applicable
        <5>2. QED
          BY <1>1, <2>1, <5>1, ClientApplies
      <4>3. QED
        BY <1>3, <1>5, <3>1, <3>2, <4>1, <4>2 DEF LaterOf
    <3>4. CASE ~(~Holds(list[c], op.uid) /\ Known(list[c], op.after))
      <4>1. clock'[c] = clock[c] /\ list'[c] = list[c]
        BY <1>1, <2>1, <3>4, TypeParts DEF ClockAfter, Apply, ApplyInsert
      <4>2. QED
        BY <1>5, <4>1
    <3>5. QED
      BY <3>3, <3>4
  <2>2. CASE op.type # "INSERT"
    <3>1. clock'[c] = clock[c] /\ list'[c] = list[c]
      BY <1>1, <2>2, ClientApplies DEF ClockAfter
    <3>2. QED
      BY <1>5, <3>1
  <2>3. QED
    BY <2>1, <2>2
<1>7. ClocksBounded'
  BY <1>1, <1>3, <1>6 DEF Books, ClocksBounded
<1>8. QED
  BY <1>3, <1>4, <1>7 DEF Books

\* Every step of the pipeline keeps the books.
LEMMA NextKeepsBooks == IInv /\ Books /\ [Next]_vars => Books'
<1> SUFFICES ASSUME IInv, Books, [Next]_vars PROVE Books'
  OBVIOUS
<1> USE DEF IInv
<1>1. ASSUME NEW c \in Clients, Type(c) PROVE Books'
  BY <1>1, TypeKeepsBooks
<1>2. ASSUME NEW c \in Clients, Handle(c) \/ Refuse(c) \/ FailToPublish(c) PROVE Books'
  BY <1>2, PersistKeepsBooks, HandlerKeepsBooks DEF Handle
<1>3. ASSUME NEW c \in Clients, Receive(c) PROVE Books'
  BY <1>3, ReceiveAckKeepsBooks, ReceiveBroadcastKeepsBooks DEF Receive
<1>4. ASSUME NEW w \in Workers, FanOut(w) PROVE Books'
  BY <1>4, FanOutKeepsBooks
<1>5. CASE Rest \/ UNCHANGED vars
  <2>1. UNCHANGED <<list, clock, clientSeq, queue, log, hand, up, down>>
    BY <1>5 DEF Rest, vars, clientVars, serverVars
  <2>2. SentIsQueued' /\ AcksAreTrue'
    BY <2>1 DEF Books, SentIsQueued, AcksAreTrue
  <2>3. QED
    BY <2>1, <2>2, BooksStay
<1>6. QED
  BY <1>1, <1>2, <1>3, <1>4, <1>5 DEF Next

\* A browser that has just joined has typed nothing.
LEMMA InitBooks == Init => Books
<1> SUFFICES ASSUME Init PROVE Books
  OBVIOUS
<1>1. PipelineTypeOK
  BY InitIInv DEF IInv
<1>2. \A c \in Clients : /\ up[c] = << >> /\ queue[c] = << >> /\ down[c] = << >> /\ list[c] = << >>
                         /\ clock[c] = 0 /\ hand[c].stage = "idle" /\ clientSeq[c] = 0
  BY DEF Init, Idle
<1>3. ToSet(<< >>) = {} /\ log = << >>
  BY DEF ToSet, Init
<1>4. \A o : o \notin Issued
  BY <1>2, <1>3, IssuedIs
<1>5. Keystrokes \in Nat
  BY <1>1, KeystrokeCounts
<1>6. SentIsQueued /\ NumbersNameOps /\ AcksAreTrue
  BY <1>2, <1>3 DEF SentIsQueued, NumbersNameOps, AcksAreTrue
<1>7. ClocksBounded
  BY <1>2, <1>3, <1>4, <1>5 DEF ClocksBounded
<1>8. QED
  BY <1>6, <1>7 DEF Books

\* Number by number, queue, session, table and acknowledgements agree.
THEOREM BooksInvariance == Spec => []Books
<1>1. Init => Books
  BY InitBooks
<1>2. IInv /\ Books /\ [Next]_vars => Books'
  BY NextKeepsBooks
<1>3. QED
  BY <1>1, <1>2, PipelineInvariance, PTL DEF Spec

----------------------------------------------------------------------------
(* The server's document. *)

Docs == Doc(Uids)

\* The two fields of a document, and a client's document.
LEMMA DocParts ==
    ASSUME NEW d \in Docs
    PROVE  d = [list |-> d.list, tomb |-> d.tomb] /\ d.list \in Seq(Uids) /\ d.tomb \in SUBSET Uids
BY DEF Docs, Doc

\* applyOperation keeps documents over the sites' UIDs.
LEMMA OperationsStay == ApplyStaysIn(Docs, Operation)
<1> SUFFICES ASSUME NEW d \in Docs, NEW op \in Operation PROVE Apply(d, op) \in Docs
  BY DEF ApplyStaysIn
<1>1. d = [list |-> d.list, tomb |-> d.tomb] /\ d.list \in Seq(Uids) /\ d.tomb \in SUBSET Uids
  BY DocParts
<1>2. Apply(d, op).list \in Seq(Uids) /\ Apply(d, op).tomb \in SUBSET Uids
  BY <1>1, ApplyTypes
<1>3. Apply(d, op) = [list |-> Apply(d, op).list, tomb |-> Apply(d, op).tomb]
  BY <1>1, ApplyRecord
<1>4. QED
  BY <1>2, <1>3 DEF Docs, Doc

\* Loading a table with one more row applies that row's operation last.
LEMMA ReplayAppends ==
    ASSUME NEW entries \in Seq(Entry)
    PROVE  /\ ReplayOf(<< >>) = EmptyDoc
           /\ ReplayOf(entries) \in Docs
           /\ \A e \in Entry : ReplayOf(Append(entries, e)) = Apply(ReplayOf(entries), e.op)
<1> DEFINE OpsOf(s) == [i \in DOMAIN s |-> s[i].op]
<1>1. \A s : ReplayOf(s) = Replayed(EmptyDoc, OpsOf(s))
  BY Zenon DEF ReplayOf, Replayed
<1>2. EmptyDoc \in Docs
  BY DEF EmptyDoc, Docs, Doc
<1>3. \A e \in Entry : e.op \in Operation
  BY DEF Entry
<1>4. OpsOf(entries) \in Seq(Operation) /\ OpsOf(<< >>) = << >>
  BY <1>3
<1>5. ASSUME NEW e \in Entry
      PROVE  OpsOf(Append(entries, e)) = Append(OpsOf(entries), e.op)
  <2>1. /\ Append(entries, e) \in Seq(Entry) /\ Len(entries) \in Nat
        /\ DOMAIN Append(entries, e) = 1..(Len(entries) + 1)
        /\ Append(entries, e)[Len(entries) + 1] = e
        /\ \A i \in 1..Len(entries) : Append(entries, e)[i] = entries[i]
    OBVIOUS
  <2>2. DOMAIN OpsOf(entries) = 1..Len(entries) /\ Len(OpsOf(entries)) = Len(entries)
    BY <1>4
  <2>3. QED
    BY <1>3, <1>4, <2>1, <2>2
<1> HIDE DEF OpsOf
<1>6. Replayed(EmptyDoc, << >>) = EmptyDoc
  BY <1>2, FoldApplyEmpty, OperationsStay
<1>7. Replayed(EmptyDoc, OpsOf(entries)) \in Docs
  BY <1>2, <1>4, FoldApplyStays, OperationsStay
<1>8. ASSUME NEW e \in Entry
      PROVE  ReplayOf(Append(entries, e)) = Apply(ReplayOf(entries), e.op)
  <2>1. e.op \in Operation
    BY <1>3
  <2>2. Replayed(EmptyDoc, Append(OpsOf(entries), e.op)) = Apply(Replayed(EmptyDoc, OpsOf(entries)), e.op)
    BY <1>2, <1>4, <2>1, FoldApplyAppend, OperationsStay
  <2>3. QED
    BY <1>1, <1>5, <2>2
<1>9. QED
  BY <1>1, <1>4, <1>6, <1>7, <1>8

\* The table's replay is a document; it changes when a row is added.
LEMMA StoredIs ==
    ASSUME PipelineTypeOK
    PROVE  /\ Stored \in Docs
           /\ log' = log => Stored' = Stored
           /\ \A e \in Entry : log' = Append(log, e) => Stored' = Apply(Stored, e.op)
<1>1. log \in Seq(Entry)
  BY DEF PipelineTypeOK
<1>2. Stored = ReplayOf(log)
  BY DEF Stored
<1>3. Stored' = ReplayOf(log')
  BY Zenon DEF Stored, ReplayOf, FoldLeft, MapThenFoldSet
<1>4. QED
  BY <1>1, <1>2, <1>3, ReplayAppends

-----------------------------------------------------------------------------
(* The table and the documents, as a replicated document.                  *)

\* The replicated document's algorithm is the one the clients run.
LEMMA SameAlgorithm ==
    /\ \A l, a, u : Document!Place(l, a, u) = Place(l, a, u)
    /\ \A d, op : Document!Apply(d, op) = Apply(d, op)
    /\ \A d, op : Document!Applicable(d, op) = Applicable(d, op)
    /\ \A d : Document!VisibleUids(d) = VisibleUids(d)
    /\ \A l, u : Document!Holds(l, u) = Holds(l, u)
    /\ Document!Root = Root
    /\ \A u, a : Document!InsertOp(u, a) = InsertOp(u, a)
    /\ \A u : Document!DeleteOp(u) = DeleteOp(u)
<1>1. \A l, u : Document!Holds(l, u) = Holds(l, u)
  BY Zenon DEF Document!Holds, Holds, Document!ToSet, ToSet
<1>2. Document!Root = Root
  BY Zenon DEF Document!Root, Root
<1>3. \A l, u : Document!Known(l, u) = Known(l, u)
  BY Zenon, <1>1, <1>2 DEF Document!Known, Known
<1>4. \A l, a, u : Document!Place(l, a, u) = Place(l, a, u)
  BY SMTT(60), <1>2 DEF Document!Place, Place, Document!InsertAt, InsertAt, Document!Position, Position,
     Document!ScanRight, ScanRight, Document!Less, Less, Document!Root, Root
<1>5. \A d : Document!VisibleUids(d) = VisibleUids(d)
  BY Zenon DEF Document!VisibleUids, VisibleUids, Document!ToSet, ToSet
<1>6. \A u, a : Document!InsertOp(u, a) = InsertOp(u, a)
  BY Zenon DEF Document!InsertOp, InsertOp
<1>7. \A u : Document!DeleteOp(u) = DeleteOp(u)
  BY Zenon DEF Document!DeleteOp, DeleteOp
<1>8. \A d, op : Document!ApplyInsert(d, op) = ApplyInsert(d, op)
  BY <1>1, <1>3, <1>4 DEF Document!ApplyInsert, ApplyInsert
<1>9. \A d, op : Document!ApplyDelete(d, op) = ApplyDelete(d, op)
  BY <1>1 DEF Document!ApplyDelete, ApplyDelete
<1>10. \A d, op : Document!Apply(d, op) = Apply(d, op)
  BY Zenon, <1>8, <1>9 DEF Document!Apply, Apply
<1>11. \A d, op : Document!Applicable(d, op) = Applicable(d, op)
  BY Zenon, <1>1, <1>3 DEF Document!Applicable, Applicable
<1>12. QED
  BY <1>1, <1>2, <1>4, <1>5, <1>6, <1>7, <1>10, <1>11

----------------------------------------------------------------------------
(* The refinement, step by step. *)

\* Every client is in a browser of its own (useCollaborativeDoc.ts keeps the
\* client id in localStorage) and goes by that browser's id.
NamedBySite == \A c \in Clients : SiteOf[c] = c

DocumentCopies == Clients \cup {Server}

CopyLists == [r \in DocumentCopies |-> IF r = Server THEN Stored.list ELSE list[r]]

CopyTombs == [r \in DocumentCopies |-> IF r = Server THEN Stored.tomb ELSE tomb[r]]

\* The copies of the document: the clients' and the table's.
LEMMA CopiesAre ==
    ASSUME PipelineTypeOK
    PROVE  /\ Server \notin Clients
           /\ Stored = [list |-> Stored.list, tomb |-> Stored.tomb]
           /\ \A c \in Clients : Document!doc(c) = doc(c) /\ CopyLists[c] = list[c] /\ CopyTombs[c] = tomb[c]
           /\ Document!doc(Server) = Stored /\ CopyLists[Server] = Stored.list /\ CopyTombs[Server] = Stored.tomb
<1>1. Server \notin Clients
  BY ClientsAssumption DEF Server
<1>2. Stored = [list |-> Stored.list, tomb |-> Stored.tomb]
  BY StoredIs, DocParts
<1>3. QED
  BY <1>1, <1>2 DEF Document!doc, doc, CopyLists, CopyTombs, DocumentCopies

\* A gap leaves the table's copy as it was.
LEMMA GapLeavesDocument ==
    ASSUME NEW d \in Docs, NEW op \in Operation, ~Applicable(d, op)
    PROVE  Apply(d, op) = d
BY DEF Applicable, Apply, ApplyInsert, ApplyDelete

\* A keystroke that inserts.
LEMMA LocalInsertImplements ==
    ASSUME NamedBySite, PipelineTypeOK, Books, NEW c \in Clients, LocalInsert(c)
    PROVE  Document!LocalInsert(c)
<1>1. PICK a \in {Root} \cup VisibleUids(doc(c)) :
          LET u == [clock |-> clock[c] + 1, site |-> SiteOf[c]]
          IN /\ InsertOp(u, a) \in Operation /\ Submit(c, InsertOp(u, a))
             /\ list' = [list EXCEPT ![c] = Place(list[c], a, u)]
             /\ clock' = [clock EXCEPT ![c] = clock[c] + 1]
  BY LocalInsertIs
<1> DEFINE u == [clock |-> clock[c] + 1, site |-> c]
<1>2. /\ InsertOp(u, a) \in Operation /\ Submit(c, InsertOp(u, a))
      /\ list' = [list EXCEPT ![c] = Place(list[c], a, u)]
      /\ clock' = [clock EXCEPT ![c] = clock[c] + 1]
  BY <1>1 DEF NamedBySite
<1> HIDE DEF u
<1>3. log' = log /\ tomb' = tomb /\ clock[c] < MaxEdits
  <2>1. clock[c] <= Keystrokes /\ Keystrokes < MaxEdits /\ Keystrokes \in Nat /\ clock[c] \in Nat
    BY KeystrokeCounts, BookTypes DEF Books, ClocksBounded, LocalInsert
  <2>2. QED
    BY <2>1, BoundsAssumption DEF LocalInsert, serverVars
<1>4. Issued' = Issued \cup {InsertOp(u, a)}
  BY <1>2, <1>3, SubmitIssues
<1>5. Stored' = Stored
  BY <1>3, StoredIs
<1>6. CopyLists' = [CopyLists EXCEPT ![c] = Place(@, a, u)] /\ CopyTombs' = CopyTombs
  <2>1. list \in [Clients -> Seq(Uids)] /\ c # Server
    BY CopiesAre DEF PipelineTypeOK
  <2>2. \A r \in DocumentCopies : CopyLists'[r] = IF r = c THEN Place(CopyLists[r], a, u) ELSE CopyLists[r]
    BY <1>2, <1>5, <2>1 DEF CopyLists, DocumentCopies
  <2>3. QED
    BY <1>3, <1>5, <2>2 DEF CopyLists, CopyTombs
<1>7. a \in {Document!Root} \cup Document!VisibleUids(Document!doc(c))
  BY CopiesAre, SameAlgorithm
<1>8. QED
  BY <1>2, <1>3, <1>4, <1>6, <1>7, SameAlgorithm DEF Document!LocalInsert, CopyLists, CopyTombs, DocumentCopies, u

\* A keystroke that deletes.
LEMMA LocalDeleteImplements ==
    ASSUME PipelineTypeOK, NEW c \in Clients, LocalDelete(c)
    PROVE  Document!LocalDelete(c)
<1>1. PICK u \in VisibleUids(doc(c)) :
          tomb' = [tomb EXCEPT ![c] = @ \cup {u}] /\ Submit(c, DeleteOp(u))
  BY DEF LocalDelete
<1>2. DeleteOp(u) \in Operation
  <2>1. u \in Uids
    BY TypeParts
  <2>2. QED
    BY <2>1 DEF DeleteOp, Operation, Uids
<1>3. log' = log /\ list' = list /\ clock' = clock
  BY DEF LocalDelete, serverVars
<1>4. Issued' = Issued \cup {DeleteOp(u)}
  BY <1>1, <1>2, <1>3, SubmitIssues
<1>5. Stored' = Stored
  BY <1>3, StoredIs
<1>6. CopyTombs' = [CopyTombs EXCEPT ![c] = @ \cup {u}] /\ CopyLists' = CopyLists
  <2>1. tomb \in [Clients -> SUBSET Uids] /\ c # Server
    BY CopiesAre DEF PipelineTypeOK
  <2>2. \A r \in DocumentCopies : CopyTombs'[r] = IF r = c THEN CopyTombs[r] \cup {u} ELSE CopyTombs[r]
    BY <1>1, <1>5, <2>1 DEF CopyTombs, DocumentCopies
  <2>3. QED
    BY <1>3, <1>5, <2>2 DEF CopyLists, CopyTombs
<1>7. u \in Document!VisibleUids(Document!doc(c))
  BY CopiesAre, SameAlgorithm
<1>8. QED
  BY <1>3, <1>4, <1>6, <1>7, SameAlgorithm DEF Document!LocalDelete, CopyLists, CopyTombs, DocumentCopies

\* Storing an operation delivers it to the table's copy, unless it leaves a gap.
LEMMA PersistImplements ==
    ASSUME IInv, Books, NEW c \in Clients, Persist(c)
    PROVE  [Document!Next]_Document!vars
<1>1. PipelineTypeOK /\ HandsHoldSeqs
  BY DEF IInv
<1>2. PICK op \in Operation : op \in Issued /\ Issued' = Issued /\ Stored' = Apply(Stored, op)
  <2> DEFINE msg == Head(up[c])
             e == [client |-> c, clientSeq |-> msg.clientSeq, op |-> msg.op]
  <2>1. e \in Entry /\ log' = Append(log, e) /\ e.op = msg.op /\ msg \in ToSet(up[c])
    BY <1>1, PersistIs
  <2> HIDE DEF e, msg
  <2>2. Issued' = Issued /\ e.op \in Issued /\ e.op \in Operation
    BY <1>1, <2>1, PersistKeepsBooks, IssuedIs DEF Books, SentIsQueued, Entry
  <2>3. Stored' = Apply(Stored, e.op)
    BY <1>1, <2>1, StoredIs
  <2>4. QED
    BY <2>2, <2>3
<1>3. Stored \in Docs /\ UNCHANGED <<list, tomb, clock>>
  BY <1>1, StoredIs DEF Persist, clientVars
<1>4. CASE Applicable(Stored, op)
  <2>1. /\ CopyLists' = [CopyLists EXCEPT ![Server] = Apply(Stored, op).list]
        /\ CopyTombs' = [CopyTombs EXCEPT ![Server] = Apply(Stored, op).tomb]
    BY <1>2, <1>3 DEF CopyLists, CopyTombs, DocumentCopies
  <2>2. Document!AdvanceClock(Server, op) = clock
    BY <1>1, CopiesAre DEF Document!AdvanceClock
  <2>3. Document!Deliver(Server, op)
    BY <1>1, <1>2, <1>3, <1>4, <2>1, <2>2, CopiesAre, SameAlgorithm
       DEF Document!Deliver, CopyLists, CopyTombs, DocumentCopies
  <2>4. QED
    BY <1>2, <2>3 DEF Document!Next
<1>5. CASE ~Applicable(Stored, op)
  <2>1. Stored' = Stored
    BY <1>2, <1>3, <1>5, GapLeavesDocument
  <2>2. QED
    BY <1>2, <1>3, <2>1 DEF Document!vars
<1>6. QED
  BY <1>4, <1>5

\* A broadcast delivers its operation to the client, unless it leaves a gap.
LEMMA ReceiveBroadcastImplements ==
    ASSUME PipelineTypeOK, Books, NEW c \in Clients, ReceiveBroadcast(c)
    PROVE  [Document!Next]_Document!vars
<1>1. PICK op \in Operation :
         /\ op \in Issued
         /\ list' = [list EXCEPT ![c] = Apply(doc(c), op).list]
         /\ tomb' = [tomb EXCEPT ![c] = Apply(doc(c), op).tomb]
         /\ clock' = [clock EXCEPT ![c] = ClockAfter(c, op)]
  BY ReceiveBroadcastIs
<1>2. Issued' = Issued
  BY ReceiveBroadcastKeepsBooks
<1>3. Stored' = Stored
  <2>1. log' = log
    BY DEF ReceiveBroadcast, serverVars
  <2>2. QED
    BY <2>1, StoredIs
<1>4. c # Server /\ list \in [Clients -> Seq(Uids)] /\ tomb \in [Clients -> SUBSET Uids] /\ clock \in [Clients -> Nat]
  BY CopiesAre DEF PipelineTypeOK
<1>5. CASE Applicable(doc(c), op)
  <2> DEFINE after == Apply(doc(c), op)
  <2>1. CopyLists' = [CopyLists EXCEPT ![c] = after.list] /\ CopyTombs' = [CopyTombs EXCEPT ![c] = after.tomb]
    <3>1. list' = [list EXCEPT ![c] = after.list] /\ tomb' = [tomb EXCEPT ![c] = after.tomb]
      BY <1>1
    <3> HIDE DEF after
    <3>2. \A r \in DocumentCopies : /\ CopyLists'[r] = IF r = c THEN after.list ELSE CopyLists[r]
                             /\ CopyTombs'[r] = IF r = c THEN after.tomb ELSE CopyTombs[r]
      BY <1>3, <1>4, <3>1 DEF CopyLists, CopyTombs, DocumentCopies
    <3>3. QED
      BY <3>2 DEF CopyLists, CopyTombs
  <2>2. clock' = Document!AdvanceClock(c, op)
    <3>1. op.type = "INSERT" => op.uid \in Uids /\ op.uid.clock \in Nat
      BY DEF Operation, Uids, UID
    <3>2. CopyLists[c] = list[c]
      BY CopiesAre
    <3>3. ClockAfter(c, op) = IF op.type = "INSERT" /\ ~Holds(list[c], op.uid) /\ op.uid.clock > clock[c]
                              THEN op.uid.clock ELSE clock[c]
      BY <1>4, <1>5, <3>1 DEF ClockAfter, LaterOf, Applicable, doc
    <3>4. Document!AdvanceClock(c, op) =
              IF op.type = "INSERT" /\ ~Holds(list[c], op.uid) /\ op.uid.clock > clock[c]
              THEN [clock EXCEPT ![c] = op.uid.clock] ELSE clock
      BY <3>2, SameAlgorithm DEF Document!AdvanceClock, CopyLists, DocumentCopies
    <3>5. [clock EXCEPT ![c] = clock[c]] = clock
      BY <1>4
    <3>6. QED
      BY <1>1, <3>3, <3>4, <3>5
  <2>3. Document!Deliver(c, op)
    BY <1>2, <1>5, <2>1, <2>2, CopiesAre, SameAlgorithm
       DEF Document!Deliver, CopyLists, CopyTombs, DocumentCopies
  <2>4. QED
    BY <1>1, <2>3 DEF Document!Next
<1>6. CASE ~Applicable(doc(c), op)
  <2>1. Apply(doc(c), op) = doc(c)
    BY <1>6, ClientApplies
  <2>2. ClockAfter(c, op) = clock[c]
    BY <1>6 DEF ClockAfter, Applicable, doc
  <2>3. list' = list /\ tomb' = tomb /\ clock' = clock
    BY <1>1, <1>4, <2>1, <2>2 DEF doc
  <2>4. QED
    BY <1>2, <1>3, <2>3 DEF Document!vars
<1>7. QED
  BY <1>5, <1>6

\* The empty document everybody has joined, before anybody types.
LEMMA InitImplements ==
    ASSUME Init
    PROVE  NamedBySite => Document!Init
<1>1. \A c \in Clients : queue[c] = << >> /\ list[c] = << >> /\ tomb[c] = {}
  BY DEF Init
<1>2. \A o : o \notin Issued
  <2>1. ToSet(<< >>) = {} /\ log = << >>
    BY DEF ToSet, Init
  <2>2. QED
    BY <1>1, <2>1, IssuedIs
<1>3. Stored = EmptyDoc
  <2>1. log = << >> /\ << >> \in Seq(Entry)
    BY DEF Init
  <2>2. QED
    BY <2>1, ReplayAppends DEF Stored
<1>4. Stored.list = << >> /\ Stored.tomb = {}
  BY <1>3 DEF EmptyDoc
<1>5. Issued = {}
  BY <1>2
<1>6. QED
  BY <1>1, <1>4, <1>5 DEF Document!Init, Init

\* Every other step leaves the copies of the document alone.
LEMMA OthersStutter ==
    ASSUME PipelineTypeOK, Issued' = Issued, UNCHANGED <<list, tomb, clock, log>>
    PROVE  UNCHANGED Document!vars
<1>1. Stored' = Stored
  BY StoredIs
<1>2. QED
  BY <1>1 DEF Document!vars

\* Every step of the pipeline is a step of the replicated document or none.
LEMMA NextImplements ==
    ASSUME NamedBySite, IInv, Books, [Next]_vars
    PROVE  [Document!Next]_Document!vars
<1>0. PipelineTypeOK /\ HandsHoldSeqs /\ TypedLater
  BY DEF IInv
<1>1. ASSUME NEW c \in Clients, LocalInsert(c) PROVE Document!Next
  BY <1>0, <1>1, LocalInsertImplements DEF Document!Next
<1>2. ASSUME NEW c \in Clients, LocalDelete(c) PROVE Document!Next
  BY <1>0, <1>2, LocalDeleteImplements DEF Document!Next
<1>3. ASSUME NEW c \in Clients, LocalDeleteNothing(c) PROVE UNCHANGED Document!vars
  <2>1. UNCHANGED <<list, tomb, clock, queue, log>>
    BY <1>3 DEF LocalDeleteNothing, serverVars
  <2>2. Issued' = Issued
    BY <2>1 DEF Issued
  <2>3. QED
    BY <1>0, <2>1, <2>2, OthersStutter
<1>4. ASSUME NEW c \in Clients, Refuse(c) \/ Publish(c) \/ Acknowledge(c) \/ FailToPublish(c)
      PROVE  UNCHANGED Document!vars
  <2>1. UNCHANGED <<list, tomb, clock, log>>
    BY <1>4 DEF Refuse, Publish, Acknowledge, FailToPublish, clientVars
  <2>2. Issued' = Issued
    BY <1>0, <1>4, HandlerKeepsBooks
  <2>3. QED
    BY <1>0, <2>1, <2>2, OthersStutter
<1>5. ASSUME NEW w \in Workers, FanOut(w) PROVE UNCHANGED Document!vars
  <2>1. UNCHANGED <<list, tomb, clock, log>>
    BY <1>5 DEF FanOut, clientVars
  <2>2. Issued' = Issued
    BY <1>0, <1>5, FanOutKeepsBooks
  <2>3. QED
    BY <1>0, <2>1, <2>2, OthersStutter
<1>6. ASSUME NEW c \in Clients, ReceiveAck(c) PROVE UNCHANGED Document!vars
  <2>1. UNCHANGED <<list, tomb, clock, log>>
    BY <1>6 DEF ReceiveAck, serverVars
  <2>2. Issued' = Issued
    BY <1>0, <1>6, ReceiveAckKeepsBooks
  <2>3. QED
    BY <1>0, <2>1, <2>2, OthersStutter
<1>7. CASE Rest \/ UNCHANGED vars
  <2>1. UNCHANGED <<list, tomb, clock, queue, log>>
    BY <1>7 DEF Rest, vars, clientVars, serverVars
  <2>2. Issued' = Issued
    BY <2>1 DEF Issued
  <2>3. QED
    BY <1>0, <2>1, <2>2, OthersStutter
<1>8. ASSUME NEW c \in Clients, Persist(c) PROVE [Document!Next]_Document!vars
  BY <1>8, PersistImplements
<1>9. ASSUME NEW c \in Clients, ReceiveBroadcast(c) PROVE [Document!Next]_Document!vars
  BY <1>0, <1>9, ReceiveBroadcastImplements
<1>10. QED
  BY Zenon, <1>1, <1>2, <1>3, <1>4, <1>5, <1>6, <1>7, <1>8, <1>9 DEF Next, Type, Handle, Receive

\* The pipeline is replicas that apply operations somebody issued.
THEOREM PipelineImplementsDocument ==
    ASSUME NamedBySite
    PROVE  Spec => ImplementsDocument
<1>1. Init => Document!Init
  BY InitImplements
<1>2. IInv /\ Books /\ [Next]_vars => [Document!Next]_Document!vars
  BY NextImplements
<1>3. QED
  BY <1>1, <1>2, PipelineInvariance, BooksInvariance, PTL DEF Spec, ImplementsDocument, Document!Spec

Replicated == INSTANCE ReplicatedDocument_proofs WITH
    Replicas <- Clients \cup {Server},
    Sites <- Clients,
    MaxClock <- MaxEdits,
    list <- [r \in Clients \cup {Server} |-> IF r = Server THEN Stored.list ELSE list[r]],
    tomb <- [r \in Clients \cup {Server} |-> IF r = Server THEN Stored.tomb ELSE tomb[r]],
    ops <- Issued

\* ReplicatedDocument_proofs is about the same algorithm.
LEMMA SameAlgorithmProved ==
    /\ \A l, a, u : Replicated!Place(l, a, u) = Place(l, a, u)
    /\ \A d, op : Replicated!Apply(d, op) = Apply(d, op)
    /\ \A d, op : Replicated!Applicable(d, op) = Applicable(d, op)
    /\ \A d : Replicated!VisibleUids(d) = VisibleUids(d)
    /\ \A l, u : Replicated!Holds(l, u) = Holds(l, u)
    /\ Replicated!Root = Root
    /\ \A u, a : Replicated!InsertOp(u, a) = InsertOp(u, a)
    /\ \A u : Replicated!DeleteOp(u) = DeleteOp(u)
<1>1. \A l, u : Replicated!Holds(l, u) = Holds(l, u)
  BY Zenon DEF Replicated!Holds, Holds, Replicated!ToSet, ToSet
<1>2. Replicated!Root = Root
  BY Zenon DEF Replicated!Root, Root
<1>3. \A l, u : Replicated!Known(l, u) = Known(l, u)
  BY Zenon, <1>1, <1>2 DEF Replicated!Known, Known
<1>4. \A l, a, u : Replicated!Place(l, a, u) = Place(l, a, u)
  BY SMTT(60), <1>2 DEF Replicated!Place, Place, Replicated!InsertAt, InsertAt, Replicated!Position, Position,
     Replicated!ScanRight, ScanRight, Replicated!Less, Less, Replicated!Root, Root
<1>5. \A d : Replicated!VisibleUids(d) = VisibleUids(d)
  BY Zenon DEF Replicated!VisibleUids, VisibleUids, Replicated!ToSet, ToSet
<1>6. \A u, a : Replicated!InsertOp(u, a) = InsertOp(u, a)
  BY Zenon DEF Replicated!InsertOp, InsertOp
<1>7. \A u : Replicated!DeleteOp(u) = DeleteOp(u)
  BY Zenon DEF Replicated!DeleteOp, DeleteOp
<1>8. \A d, op : Replicated!ApplyInsert(d, op) = ApplyInsert(d, op)
  BY <1>1, <1>3, <1>4 DEF Replicated!ApplyInsert, ApplyInsert
<1>9. \A d, op : Replicated!ApplyDelete(d, op) = ApplyDelete(d, op)
  BY <1>1 DEF Replicated!ApplyDelete, ApplyDelete
<1>10. \A d, op : Replicated!Apply(d, op) = Apply(d, op)
  BY Zenon, <1>8, <1>9 DEF Replicated!Apply, Apply
<1>11. \A d, op : Replicated!Applicable(d, op) = Applicable(d, op)
  BY Zenon, <1>1, <1>3 DEF Replicated!Applicable, Applicable
<1>12. QED
  BY <1>1, <1>2, <1>4, <1>5, <1>6, <1>7, <1>10, <1>11

\* The three actions of the two instances are the same actions: an insertion,
LEMMA LocalInsertIsReplicated == ASSUME NEW s \in Clients, Document!LocalInsert(s) PROVE Replicated!LocalInsert(s)
<1>1. Replicated!doc(s) = Document!doc(s)
  BY DEF Replicated!doc, Document!doc
<1>2. QED
  BY SameAlgorithm, SameAlgorithmProved, <1>1 DEF Document!LocalInsert, Replicated!LocalInsert

\* a deletion,
LEMMA LocalDeleteIsReplicated == ASSUME NEW s \in Clients, Document!LocalDelete(s) PROVE Replicated!LocalDelete(s)
<1>1. Replicated!doc(s) = Document!doc(s)
  BY DEF Replicated!doc, Document!doc
<1>2. QED
  BY SameAlgorithm, SameAlgorithmProved, <1>1 DEF Document!LocalDelete, Replicated!LocalDelete

\* an operation that arrives,
LEMMA DeliverIsReplicated == ASSUME NEW r \in Clients \cup {Server}, NEW op \in Issued, Document!Deliver(r, op) PROVE Replicated!Deliver(r, op)
<1>1. Replicated!doc(r) = Document!doc(r)
  BY DEF Replicated!doc, Document!doc
<1>2. Replicated!AdvanceClock(r, op) = Document!AdvanceClock(r, op)
  BY SameAlgorithm, SameAlgorithmProved DEF Replicated!AdvanceClock, Document!AdvanceClock
<1>3. QED
  BY SameAlgorithm, SameAlgorithmProved, <1>1, <1>2 DEF Document!Deliver, Replicated!Deliver

\* so every step,
LEMMA StepIsReplicated == [Document!Next]_Document!vars => [Replicated!Next]_Replicated!vars
  BY LocalInsertIsReplicated, LocalDeleteIsReplicated, DeliverIsReplicated DEF Document!Next, Replicated!Next, Document!vars, Replicated!vars

\* and the empty documents.
LEMMA InitIsReplicated == Document!Init => Replicated!Init
  BY DEF Document!Init, Replicated!Init

-----------------------------------------------------------------------------
(* Causality, while no handler fails.                                      *)

Inserted(ops) == {op.uid : op \in {o \in ops : o.type = "INSERT"}}

Deleted(ops) == {op.uid : op \in {o \in ops : o.type # "INSERT"}}

\* An operation can be applied where the characters S are.
Ready(op, S) == IF op.type = "INSERT" THEN op.after \in S \cup {Root} ELSE op.uid \in S

Shows(d, op) == IF op.type = "INSERT" THEN Holds(d.list, op.uid) ELSE op.uid \in d.tomb

Before(s, j) == {s[k] : k \in 1..(j - 1)}

OpsOf(messages) == {m.op : m \in messages}

OpsAt(rows, seqs) == {rows[i].op : i \in seqs}

\* The seqs among a client's server messages, and the one its session's handler
\* has still to publish.
SeqsOf(messages) == {m.serverSeq : m \in {k \in messages : k.type = "BROADCAST"}}

HandSeqs(h) == IF h.stage = "publish" THEN {h.seq} ELSE {}

\* What a client types or waits to see stored rests on what is on the channel,
\* in its handler's hand or typed by itself before.
UpIsReady ==
    \A c \in Clients : \A j \in DOMAIN up[c] :
        Ready(up[c][j].op,
              Inserted(OpsAt(log, ToSet(channel) \cup HandSeqs(hand[c])) \cup OpsOf(Before(up[c], j))))

HandIsReady ==
    \A c \in Clients : \A i \in HandSeqs(hand[c]) :
        Ready(log[i].op, Inserted(OpsAt(log, ToSet(channel))))

ChannelIsReady ==
    \A p \in DOMAIN channel : Ready(log[channel[p]].op, Inserted(OpsAt(log, Before(channel, p))))

DownIsReady ==
    \A c \in Clients : \A j \in DOMAIN down[c] :
        down[c][j].type = "BROADCAST" =>
            Ready(log[down[c][j].serverSeq].op,
                  ToSet(list[c]) \cup Inserted(OpsAt(log, SeqsOf(Before(down[c], j)))))

SentIsPublished == \A c \in Clients : SeqsOf(ToSet(down[c])) \subseteq ToSet(channel)

ShownIsIssued ==
    \A c \in Clients :
        LET ops == OpsAt(log, ToSet(channel) \cup HandSeqs(hand[c])) \cup OpsOf(ToSet(up[c]))
        IN ToSet(list[c]) \subseteq Inserted(ops) /\ tomb[c] \subseteq Deleted(ops)

FannedIsShown ==
    \A c \in Clients : \A p \in 1..fanned[home[c]] :
        Shows(doc(c), log[channel[p]].op) \/ channel[p] \in SeqsOf(ToSet(down[c]))

StoredShowsLog ==
    /\ ToSet(Stored.list) = Inserted(OpsAt(log, DOMAIN log))
    /\ Stored.tomb = Deleted(OpsAt(log, DOMAIN log))

LoggedIsPublished ==
    \A i \in DOMAIN log : i \in ToSet(channel) \/ i \in HandSeqs(hand[log[i].client])

QueuedIsUnderWay ==
    \A c \in Clients : \A m \in ToSet(queue[c]) :
        \/ m \in ToSet(up[c])
        \/ hand[c].stage # "idle" /\ log[hand[c].seq].clientSeq = m.clientSeq
        \/ \E a \in ToSet(down[c]) : a.type = "OP_ACK" /\ a.clientSeq = m.clientSeq

Causes ==
    /\ UpIsReady /\ HandIsReady /\ ChannelIsReady /\ DownIsReady /\ SentIsPublished
    /\ ShownIsIssued /\ FannedIsShown /\ StoredShowsLog /\ LoggedIsPublished /\ QueuedIsUnderWay

Causal == faults = 0 => Causes

----------------------------------------------------------------------------
(* Sets of operations and positions.                                       *)

\* What is ready stays ready where there are more characters.
LEMMA ReadyMore ==
    ASSUME NEW op, NEW S, NEW T, S \subseteq T, Ready(op, S)
    PROVE  Ready(op, T)
BY DEF Ready

\* More operations insert and delete more.
LEMMA InsertedMore ==
    ASSUME NEW A, NEW B
    PROVE  /\ A \subseteq B => Inserted(A) \subseteq Inserted(B) /\ Deleted(A) \subseteq Deleted(B)
           /\ Inserted(A \cup B) = Inserted(A) \cup Inserted(B)
           /\ Deleted(A \cup B) = Deleted(A) \cup Deleted(B)
BY DEF Inserted, Deleted

\* What one operation inserts or deletes.
LEMMA InsertedByOne ==
    ASSUME NEW op
    PROVE  /\ Inserted({op}) = IF op.type = "INSERT" THEN {op.uid} ELSE {}
           /\ Deleted({op}) = IF op.type = "INSERT" THEN {} ELSE {op.uid}
BY DEF Inserted, Deleted

\* What comes before a position is the same after appending one element; before
\* the new one comes all of the sequence.
LEMMA BeforeAppend ==
    ASSUME NEW S, NEW s \in Seq(S), NEW x \in S
    PROVE  LET t == Append(s, x)
           IN /\ t \in Seq(S) /\ DOMAIN t = 1..(Len(s) + 1) /\ DOMAIN s = 1..Len(s) /\ Len(s) \in Nat
              /\ t[Len(s) + 1] = x /\ Before(t, Len(s) + 1) = ToSet(s)
              /\ \A j \in DOMAIN s : t[j] = s[j] /\ Before(t, j) = Before(s, j)
              /\ ToSet(t) = ToSet(s) \cup {x}
<1> DEFINE t == Append(s, x)
<1>1. /\ t \in Seq(S) /\ DOMAIN t = 1..(Len(s) + 1) /\ DOMAIN s = 1..Len(s) /\ Len(s) \in Nat
      /\ t[Len(s) + 1] = x /\ \A j \in DOMAIN s : t[j] = s[j]
  OBVIOUS
<1> HIDE DEF t
<1>2. Before(t, Len(s) + 1) = ToSet(s)
  BY <1>1 DEF Before, ToSet
<1>3. \A j \in DOMAIN s : Before(t, j) = Before(s, j)
  BY <1>1 DEF Before
<1>4. ToSet(t) = ToSet(s) \cup {x}
  BY <1>1 DEF ToSet
<1>5. QED
  BY <1>1, <1>2, <1>3, <1>4 DEF t

\* Without the head, what comes before a position is as before but for the head.
LEMMA BeforeTail ==
    ASSUME NEW S, NEW s \in Seq(S), s # << >>
    PROVE  /\ DOMAIN s = 1..Len(s) /\ Len(s) \in Nat /\ 1 \in DOMAIN s /\ s[1] = Head(s) /\ Before(s, 1) = {}
           /\ \A j \in DOMAIN Tail(s) :
                 /\ j + 1 \in DOMAIN s /\ Tail(s)[j] = s[j + 1]
                 /\ Before(s, j + 1) = {Head(s)} \cup Before(Tail(s), j)
<1> DEFINE t == Tail(s)
<1>1. /\ t \in Seq(S) /\ Len(s) \in Nat \ {0} /\ Len(t) = Len(s) - 1 /\ DOMAIN s = 1..Len(s)
      /\ DOMAIN t = 1..(Len(s) - 1) /\ Head(s) = s[1] /\ \A k \in DOMAIN t : t[k] = s[k + 1]
  OBVIOUS
<1> HIDE DEF t
<1>2. Before(s, 1) = {}
  BY DEF Before
<1>3. ASSUME NEW j \in DOMAIN t PROVE Before(s, j + 1) = {Head(s)} \cup Before(t, j)
  <2>1. \A k \in 1..j : k = 1 \/ k - 1 \in 1..(j - 1)
    BY <1>1, <1>3
  <2>2. \A k \in 1..(j - 1) : k + 1 \in 1..j /\ t[k] = s[k + 1]
    BY SMTT(60), <1>1, <1>3
  <2>3. (j + 1) - 1 = j /\ 1 \in 1..j
    BY <1>1, <1>3
  <2>4. ASSUME NEW x \in Before(s, j + 1) PROVE x \in {Head(s)} \cup Before(t, j)
    <3>1. PICK k \in 1..j : x = s[k]
      BY <2>3 DEF Before
    <3>2. CASE k = 1
      BY <1>1, <3>1, <3>2
    <3>3. CASE k # 1
      <4>1. k - 1 \in 1..(j - 1) /\ t[k - 1] = s[(k - 1) + 1] /\ (k - 1) + 1 = k
        BY <2>1, <2>2, <3>3
      <4>2. QED
        BY <3>1, <4>1 DEF Before
    <3>4. QED
      BY <3>2, <3>3
  <2>5. {Head(s)} \cup Before(t, j) \subseteq Before(s, j + 1)
    BY <1>1, <2>2, <2>3 DEF Before
  <2>6. QED
    BY <2>4, <2>5
<1>4. \A j \in DOMAIN t : j + 1 \in DOMAIN s
  BY <1>1
<1>5. QED
  BY <1>1, <1>2, <1>3, <1>4 DEF t

\* Before a position of a concatenation.
LEMMA BeforeConcat ==
    ASSUME NEW S, NEW s \in Seq(S), NEW t \in Seq(S), NEW j \in DOMAIN (s \o t)
    PROVE  \/ j \in DOMAIN s /\ (s \o t)[j] = s[j] /\ Before(s \o t, j) = Before(s, j)
           \/ (s \o t)[j] \in ToSet(t) /\ ToSet(s) \subseteq Before(s \o t, j)
<1> DEFINE u == s \o t
<1>1. /\ Len(s) \in Nat /\ Len(t) \in Nat /\ DOMAIN s = 1..Len(s) /\ DOMAIN t = 1..Len(t)
      /\ DOMAIN u = 1..(Len(s) + Len(t))
      /\ \A k \in 1..(Len(s) + Len(t)) : u[k] = IF k <= Len(s) THEN s[k] ELSE t[k - Len(s)]
  OBVIOUS
<1>2. j \in 1..(Len(s) + Len(t))
  BY <1>1
<1> HIDE DEF u
<1>3. CASE j <= Len(s)
  <2>1. \A k \in 1..(j - 1) : u[k] = s[k]
    BY <1>1, <1>2, <1>3
  <2>2. Before(u, j) = Before(s, j) /\ u[j] = s[j] /\ j \in DOMAIN s
    BY <1>1, <1>2, <1>3, <2>1 DEF Before
  <2>3. QED
    BY <2>2 DEF u
<1>4. CASE j > Len(s)
  <2>1. j - Len(s) \in DOMAIN t /\ u[j] = t[j - Len(s)]
    BY <1>1, <1>2, <1>4
  <2>2. u[j] \in ToSet(t)
    BY <2>1 DEF ToSet
  <2>3. \A k \in DOMAIN s : u[k] = s[k] /\ k \in 1..(j - 1)
    BY <1>1, <1>2, <1>4
  <2>4. ToSet(s) \subseteq Before(u, j)
    BY <2>3 DEF ToSet, Before
  <2>5. QED
    BY <2>2, <2>4 DEF u
<1>5. QED
  BY <1>1, <1>2, <1>3, <1>4

\* Rows of the table do not change when one is added.
LEMMA RowsStay ==
    ASSUME NEW rows, NEW more, NEW seqs, \A i \in seqs : more[i] = rows[i]
    PROVE  OpsAt(more, seqs) = OpsAt(rows, seqs)
BY DEF OpsAt

\* The operations of rows, position by position.
LEMMA OpsAtParts ==
    ASSUME NEW rows, NEW A, NEW B
    PROVE  /\ OpsAt(rows, A \cup B) = OpsAt(rows, A) \cup OpsAt(rows, B)
           /\ A \subseteq B => OpsAt(rows, A) \subseteq OpsAt(rows, B)
           /\ \A i : OpsAt(rows, {i}) = {rows[i].op}
BY DEF OpsAt

\* The operations of messages, message by message.
LEMMA OpsOfParts ==
    ASSUME NEW A, NEW B
    PROVE  /\ OpsOf(A \cup B) = OpsOf(A) \cup OpsOf(B)
           /\ A \subseteq B => OpsOf(A) \subseteq OpsOf(B)
           /\ \A m : OpsOf({m}) = {m.op}
BY DEF OpsOf

\* The seqs of broadcasts, message by message.
LEMMA SeqsOfParts ==
    ASSUME NEW A, NEW B
    PROVE  /\ SeqsOf(A \cup B) = SeqsOf(A) \cup SeqsOf(B)
           /\ A \subseteq B => SeqsOf(A) \subseteq SeqsOf(B)
           /\ \A m : SeqsOf({m}) = IF m.type = "BROADCAST" THEN {m.serverSeq} ELSE {}
BY DEF SeqsOf

\* An operation that is ready has its effect.
LEMMA ReadyApplies ==
    ASSUME NEW d \in Docs, NEW op \in Operation, Ready(op, ToSet(d.list))
    PROVE  /\ ToSet(Apply(d, op).list) = ToSet(d.list) \cup Inserted({op})
           /\ Apply(d, op).tomb = d.tomb \cup Deleted({op})
           /\ Applicable(d, op)
<1>1. d = [list |-> d.list, tomb |-> d.tomb] /\ d.list \in Seq(Uids) /\ d.tomb \in SUBSET Uids
  BY DocParts
<1>2. CASE op.type = "INSERT"
  <2>1. op.uid \in Uids /\ op.after \in Uids \cup {Root} /\ Known(d.list, op.after)
    BY <1>2 DEF Operation, Uids, Ready, Known, Holds
  <2>2. Inserted({op}) = {op.uid} /\ Deleted({op}) = {}
    BY <1>2, InsertedByOne
  <2>3. CASE Holds(d.list, op.uid)
    BY <1>2, <2>2, <2>3 DEF Apply, ApplyInsert, Applicable, Holds
  <2>4. CASE ~Holds(d.list, op.uid)
    <3>1. Apply(d, op).list = Place(d.list, op.after, op.uid) /\ Apply(d, op).tomb = d.tomb
      BY <1>1, <1>2, <2>1, <2>4 DEF Apply, ApplyInsert
    <3>2. ToSet(Place(d.list, op.after, op.uid)) = ToSet(d.list) \cup {op.uid}
      BY <1>1, <2>1, <2>4, PlaceAddsOne
    <3>3. QED
      BY <1>2, <2>1, <2>2, <3>1, <3>2 DEF Applicable
  <2>5. QED
    BY <2>3, <2>4
<1>3. CASE op.type # "INSERT"
  <2>1. Holds(d.list, op.uid) /\ Inserted({op}) = {} /\ Deleted({op}) = {op.uid}
    BY <1>3, InsertedByOne DEF Ready, Holds
  <2>2. QED
    BY <1>1, <1>3, <2>1 DEF Apply, ApplyDelete, Applicable
<1>4. QED
  BY <1>2, <1>3

\* A keystroke rests on what the typist sees, and the typist sees it.
LEMMA TypingKeepsCauses ==
    ASSUME PipelineTypeOK, Causes, NEW c \in Clients, NEW op \in Operation, Submit(c, op),
           UNCHANGED <<home, hand, log, channel, fanned, down>>,
           Ready(op, ToSet(list[c])),
           \A d \in Clients : d # c => list'[d] = list[d] /\ tomb'[d] = tomb[d],
           ToSet(list'[c]) = ToSet(list[c]) \cup Inserted({op}), tomb'[c] = tomb[c] \cup Deleted({op})
    PROVE  Causes'
<1> DEFINE msg == [clientSeq |-> clientSeq[c] + 1, op |-> op]
           seqs(d) == ToSet(channel) \cup HandSeqs(hand[d])
<1>1. /\ msg \in Message /\ msg.op = op /\ up'[c] = Append(up[c], msg) /\ ToSet(up'[c]) = ToSet(up[c]) \cup {msg}
      /\ ToSet(queue'[c]) = ToSet(queue[c]) \cup {msg}
      /\ \A d \in Clients : d # c => queue'[d] = queue[d] /\ up'[d] = up[d]
  BY SubmitEffect
<1> HIDE DEF msg
<1>2. up[c] \in Seq(Message)
  BY BookTypes
<1>3. OpsOf(ToSet(up'[c])) = OpsOf(ToSet(up[c])) \cup {op}
  BY ZenonT(60), <1>1, OpsOfParts
<1>4. ASSUME NEW d \in Clients
      PROVE  LET ops == OpsAt(log, seqs(d)) \cup OpsOf(ToSet(up[d]))
                 ops2 == OpsAt(log, seqs(d)) \cup OpsOf(ToSet(up'[d]))
             IN ToSet(list'[d]) \subseteq Inserted(ops2) /\ tomb'[d] \subseteq Deleted(ops2)
  <2> DEFINE ops == OpsAt(log, seqs(d)) \cup OpsOf(ToSet(up[d]))
             ops2 == OpsAt(log, seqs(d)) \cup OpsOf(ToSet(up'[d]))
  <2>1. ToSet(list[d]) \subseteq Inserted(ops) /\ tomb[d] \subseteq Deleted(ops)
    BY DEF Causes, ShownIsIssued
  <2>2. CASE d # c
    BY <1>1, <2>1, <2>2
  <2>3. CASE d = c
    <3>1. ops2 = ops \cup {op}
      BY <1>3, <2>3
    <3> HIDE DEF ops, ops2
    <3>2. Inserted(ops2) = Inserted(ops) \cup Inserted({op}) /\ Deleted(ops2) = Deleted(ops) \cup Deleted({op})
      BY <3>1, InsertedMore
    <3>3. QED
      BY <2>1, <2>3, <3>2 DEF ops2
  <2>4. QED
    BY <2>2, <2>3
<1>5. ShownIsIssued'
  BY <1>4 DEF ShownIsIssued
<1>6. UpIsReady'
  <2> SUFFICES ASSUME NEW d \in Clients, NEW j \in DOMAIN up'[d]
               PROVE  Ready(up'[d][j].op, Inserted(OpsAt(log, seqs(d)) \cup OpsOf(Before(up'[d], j))))
    BY DEF UpIsReady
  <2>1. \A i \in DOMAIN up[d] : Ready(up[d][i].op, Inserted(OpsAt(log, seqs(d)) \cup OpsOf(Before(up[d], i))))
    BY DEF Causes, UpIsReady
  <2>2. CASE d # c
    BY <1>1, <2>1, <2>2
  <2>3. CASE d = c /\ j \in DOMAIN up[c]
    <3>1. up'[c][j] = up[c][j] /\ Before(up'[c], j) = Before(up[c], j)
      BY <1>1, <1>2, <2>3, BeforeAppend
    <3>2. QED
      BY <2>1, <2>3, <3>1
  <2>4. CASE d = c /\ j \notin DOMAIN up[c]
    <3>1. up'[c][j] = msg /\ Before(up'[c], j) = ToSet(up[c])
      BY <1>1, <1>2, <2>4, BeforeAppend
    <3>2. ToSet(list[c]) \subseteq Inserted(OpsAt(log, seqs(c)) \cup OpsOf(ToSet(up[c])))
      BY DEF Causes, ShownIsIssued
    <3>3. QED
      BY <1>1, <2>4, <3>1, <3>2, ReadyMore
  <2>5. QED
    BY <2>2, <2>3, <2>4
<1>7. \A d \in Clients : ToSet(list[d]) \subseteq ToSet(list'[d]) /\ tomb[d] \subseteq tomb'[d]
  OBVIOUS
<1>8. DownIsReady'
  <2> SUFFICES ASSUME NEW d \in Clients, NEW j \in DOMAIN down[d], down[d][j].type = "BROADCAST"
               PROVE  Ready(log[down[d][j].serverSeq].op,
                            ToSet(list'[d]) \cup Inserted(OpsAt(log, SeqsOf(Before(down[d], j)))))
    BY DEF DownIsReady
  <2>1. Ready(log[down[d][j].serverSeq].op,
              ToSet(list[d]) \cup Inserted(OpsAt(log, SeqsOf(Before(down[d], j)))))
    BY DEF Causes, DownIsReady
  <2>2. QED
    BY <1>7, <2>1, ReadyMore
<1>9. FannedIsShown'
  <2> SUFFICES ASSUME NEW d \in Clients, NEW p \in 1..fanned[home[d]]
               PROVE  Shows(doc(d)', log[channel[p]].op) \/ channel[p] \in SeqsOf(ToSet(down[d]))
    BY DEF FannedIsShown
  <2>1. Shows(doc(d), log[channel[p]].op) \/ channel[p] \in SeqsOf(ToSet(down[d]))
    BY DEF Causes, FannedIsShown
  <2>2. QED
    BY <1>7, <2>1 DEF Shows, doc, Holds
<1>10. StoredShowsLog'
  <2>1. Stored' = Stored
    BY StoredIs
  <2>2. QED
    BY <2>1 DEF Causes, StoredShowsLog
<1>11. QueuedIsUnderWay'
  <2> SUFFICES ASSUME NEW d \in Clients, NEW m \in ToSet(queue'[d])
               PROVE  \/ m \in ToSet(up'[d])
                      \/ hand[d].stage # "idle" /\ log[hand[d].seq].clientSeq = m.clientSeq
                      \/ \E a \in ToSet(down[d]) : a.type = "OP_ACK" /\ a.clientSeq = m.clientSeq
    BY DEF QueuedIsUnderWay
  <2>1. CASE m \in ToSet(queue[d])
    <3>1. ToSet(up[d]) \subseteq ToSet(up'[d])
      BY <1>1
    <3>2. QED
      BY <2>1, <3>1 DEF Causes, QueuedIsUnderWay
  <2>2. CASE m \notin ToSet(queue[d])
    <3>1. d = c
      BY <1>1, <2>2
    <3>2. QED
      BY <1>1, <2>2, <3>1
  <2>3. QED
    BY <2>1, <2>2
<1>12. HandIsReady' /\ ChannelIsReady' /\ SentIsPublished' /\ LoggedIsPublished'
  BY DEF Causes, HandIsReady, ChannelIsReady, SentIsPublished, LoggedIsPublished
<1>13. QED
  BY <1>5, <1>6, <1>8, <1>9, <1>10, <1>11, <1>12 DEF Causes

\* insertLocal anchors at a character that is shown, or at the start.
LEMMA LocalInsertKeepsCauses ==
    ASSUME PipelineTypeOK, Books, Causes, NEW c \in Clients, LocalInsert(c)
    PROVE  Causes'
<1> DEFINE u == [clock |-> clock[c] + 1, site |-> SiteOf[c]]
<1>1. PICK a \in {Root} \cup VisibleUids(doc(c)) :
          /\ InsertOp(u, a) \in Operation /\ Submit(c, InsertOp(u, a))
          /\ list' = [list EXCEPT ![c] = Place(list[c], a, u)]
          /\ ToSet(list'[c]) = ToSet(list[c]) \cup {u}
  BY LocalInsertIs
<1> HIDE DEF u
<1> DEFINE op == InsertOp(u, a)
<1>2. op.type = "INSERT" /\ op.uid = u /\ op.after = a
  BY DEF InsertOp
<1>3. op \in Operation /\ Submit(c, op)
  BY <1>1
<1>4. a = Root \/ a \in ToSet(list[c])
  BY DEF VisibleUids, doc
<1> HIDE DEF op
<1>5. Ready(op, ToSet(list[c])) /\ Inserted({op}) = {u} /\ Deleted({op}) = {}
  BY <1>2, <1>4, InsertedByOne DEF Ready
<1>6. UNCHANGED <<tomb, home, hand, log, channel, fanned, down>>
  BY DEF LocalInsert, serverVars
<1>7. \A d \in Clients : d # c => list'[d] = list[d]
  BY <1>1 DEF PipelineTypeOK
<1>8. QED
  BY <1>1, <1>3, <1>5, <1>6, <1>7, TypingKeepsCauses

\* deleteLocal takes a character that is shown.
LEMMA LocalDeleteKeepsCauses ==
    ASSUME PipelineTypeOK, Causes, NEW c \in Clients, LocalDelete(c)
    PROVE  Causes'
<1>1. PICK u \in VisibleUids(doc(c)) :
          tomb' = [tomb EXCEPT ![c] = @ \cup {u}] /\ Submit(c, DeleteOp(u))
  BY DEF LocalDelete
<1> DEFINE op == DeleteOp(u)
<1>2. op.type = "DELETE" /\ op.uid = u /\ Submit(c, op)
  BY <1>1 DEF DeleteOp
<1>3. u \in ToSet(list[c]) /\ u \in Uids
  BY TypeParts DEF VisibleUids, doc
<1>4. op \in Operation
  BY <1>3 DEF DeleteOp, Operation, Uids
<1> HIDE DEF op
<1>5. Ready(op, ToSet(list[c])) /\ Inserted({op}) = {} /\ Deleted({op}) = {u}
  BY <1>2, <1>3, InsertedByOne DEF Ready
<1>6. UNCHANGED <<list, home, hand, log, channel, fanned, down>>
  BY DEF LocalDelete, serverVars
<1>7. tomb'[c] = tomb[c] \cup {u} /\ \A d \in Clients : d # c => tomb'[d] = tomb[d]
  BY <1>1 DEF PipelineTypeOK
<1>8. QED
  BY <1>2, <1>4, <1>5, <1>6, <1>7, TypingKeepsCauses

\* A handler stores the oldest operation of its session.
LEMMA PersistKeepsCauses ==
    ASSUME PipelineTypeOK, HandsHoldSeqs, Causes, NEW c \in Clients, Persist(c)
    PROVE  Causes'
<1> DEFINE msg == Head(up[c])
           row == [client |-> c, clientSeq |-> msg.clientSeq, op |-> msg.op]
           n == Len(log) + 1
           seqs(d) == ToSet(channel) \cup HandSeqs(hand[d])
<1>1. /\ msg \in Message /\ msg \in ToSet(up[c]) /\ row \in Entry
      /\ row.client = c /\ row.clientSeq = msg.clientSeq /\ row.op = msg.op
      /\ log' = Append(log, row) /\ DOMAIN log' = 1..n
      /\ log'[n] = row /\ \A i \in DOMAIN log : log'[i] = log[i]
      /\ up'[c] = Tail(up[c]) /\ ToSet(up[c]) = {msg} \cup ToSet(up'[c])
      /\ \A d \in Clients : d # c => up'[d] = up[d]
  BY PersistIs
<1>2. /\ up[c] \in Seq(Message) /\ up[c] # << >>
      /\ DOMAIN log = 1..Len(log) /\ Len(log) \in Nat /\ n \in Nat /\ n \notin DOMAIN log
      /\ DOMAIN log' = DOMAIN log \cup {n}
  BY <1>1, BookTypes DEF Persist
<1>3. /\ UNCHANGED <<home, list, tomb, queue, channel, fanned, down>>
      /\ hand[c].stage = "idle" /\ hand'[c] = [stage |-> "publish", seq |-> n]
      /\ \A d \in Clients : d # c => hand'[d] = hand[d]
  BY DEF Persist, clientVars, PipelineTypeOK
<1>4. ToSet(channel) \subseteq DOMAIN log /\ \A d \in Clients : HandSeqs(hand[d]) \subseteq DOMAIN log
  <2>1. \A p \in DOMAIN channel : channel[p] \in DOMAIN log
    BY DEF PipelineTypeOK
  <2>2. \A d \in Clients : hand[d].stage # "idle" => hand[d].seq \in DOMAIN log
    BY DEF HandsHoldSeqs
  <2>3. QED
    BY <2>1, <2>2 DEF ToSet, HandSeqs
<1>5. HandSeqs(hand[c]) = {} /\ HandSeqs(hand'[c]) = {n}
  BY <1>3 DEF HandSeqs
<1> HIDE DEF msg, row, n
<1>6. \A Q \in SUBSET DOMAIN log : OpsAt(log', Q) = OpsAt(log, Q)
  BY <1>1, RowsStay
<1>7. OpsAt(log', {n}) = {msg.op}
  <2>1. OpsAt(log', {n}) = {log'[n].op}
    BY OpsAtParts
  <2>2. QED
    BY <1>1, <2>1
<1>8. \A d \in Clients : seqs(d) \in SUBSET DOMAIN log /\ OpsAt(log', seqs(d)) = OpsAt(log, seqs(d))
  BY <1>4, <1>6
<1>9. OpsAt(log', ToSet(channel) \cup HandSeqs(hand'[c])) = OpsAt(log, seqs(c)) \cup {msg.op}
  <2>1. ToSet(channel) \cup HandSeqs(hand'[c]) = seqs(c) \cup {n}
    BY <1>5
  <2>2. QED
    BY <1>7, <1>8, <2>1, OpsAtParts
<1>10. Ready(msg.op, Inserted(OpsAt(log, ToSet(channel))))
  <2>1. 1 \in DOMAIN up[c] /\ up[c][1] = msg /\ Before(up[c], 1) = {}
    BY <1>2, BeforeTail DEF msg
  <2>2. OpsOf({}) = {} /\ seqs(c) = ToSet(channel)
    BY <1>5 DEF OpsOf
  <2>3. QED
    BY <2>1, <2>2 DEF Causes, UpIsReady
<1>11. UpIsReady'
  <2> SUFFICES ASSUME NEW d \in Clients, NEW j \in DOMAIN up'[d]
               PROVE  Ready(up'[d][j].op, Inserted(OpsAt(log', ToSet(channel) \cup HandSeqs(hand'[d]))
                                                      \cup OpsOf(Before(up'[d], j))))
    BY <1>3 DEF UpIsReady
  <2>1. \A i \in DOMAIN up[d] : Ready(up[d][i].op, Inserted(OpsAt(log, seqs(d)) \cup OpsOf(Before(up[d], i))))
    BY DEF Causes, UpIsReady
  <2>2. CASE d # c
    BY <1>1, <1>3, <1>8, <2>1, <2>2
  <2>3. CASE d = c
    <3>0. j \in DOMAIN Tail(up[c]) /\ up'[c] = Tail(up[c])
      BY <1>1, <2>3
    <3>1. j + 1 \in DOMAIN up[c] /\ up'[c][j] = up[c][j + 1]
          /\ Before(up[c], j + 1) = {msg} \cup Before(up'[c], j)
      BY <1>2, <3>0, BeforeTail DEF msg
    <3>2. OpsOf(Before(up[c], j + 1)) = {msg.op} \cup OpsOf(Before(up'[c], j))
      BY <3>1 DEF OpsOf
    <3>3. QED
      BY <1>9, <2>1, <2>3, <3>1, <3>2
  <2>4. QED
    BY <2>2, <2>3
<1>12. HandIsReady'
  <2> SUFFICES ASSUME NEW d \in Clients, NEW i \in HandSeqs(hand'[d])
               PROVE  Ready(log'[i].op, Inserted(OpsAt(log', ToSet(channel))))
    BY <1>3 DEF HandIsReady
  <2>1. OpsAt(log', ToSet(channel)) = OpsAt(log, ToSet(channel))
    BY <1>4, <1>6
  <2>2. CASE d # c
    <3>1. i \in HandSeqs(hand[d]) /\ i \in DOMAIN log /\ log'[i] = log[i]
      BY <1>1, <1>3, <1>4, <2>2
    <3>2. QED
      BY <2>1, <3>1 DEF Causes, HandIsReady
  <2>3. CASE d = c
    BY <1>1, <1>5, <1>10, <2>1, <2>3
  <2>4. QED
    BY <2>2, <2>3
<1>13. ChannelIsReady'
  <2> SUFFICES ASSUME NEW p \in DOMAIN channel
               PROVE  Ready(log'[channel[p]].op, Inserted(OpsAt(log', Before(channel, p))))
    BY <1>3 DEF ChannelIsReady
  <2>1. channel[p] \in DOMAIN log /\ Before(channel, p) \subseteq DOMAIN log
    <3>1. channel \in Seq(DOMAIN log)
      BY DEF PipelineTypeOK
    <3>2. DOMAIN channel = 1..Len(channel) /\ Len(channel) \in Nat /\ \A k \in DOMAIN channel : channel[k] \in DOMAIN log
      BY <3>1
    <3>3. QED
      BY <3>2 DEF Before
  <2>2. log'[channel[p]] = log[channel[p]] /\ OpsAt(log', Before(channel, p)) = OpsAt(log, Before(channel, p))
    BY <1>1, <1>6, <2>1
  <2>3. QED
    BY <2>2 DEF Causes, ChannelIsReady
<1>14. SentIsPublished'
  BY <1>3 DEF Causes, SentIsPublished
<1>15. \A d \in Clients : \A j \in DOMAIN down[d] :
          /\ SeqsOf(Before(down[d], j)) \subseteq DOMAIN log
          /\ down[d][j].type = "BROADCAST" => down[d][j].serverSeq \in DOMAIN log
  <2> SUFFICES ASSUME NEW d \in Clients, NEW j \in DOMAIN down[d]
               PROVE  /\ SeqsOf(Before(down[d], j)) \subseteq DOMAIN log
                      /\ down[d][j].type = "BROADCAST" => down[d][j].serverSeq \in DOMAIN log
    OBVIOUS
  <2>1. DOMAIN down[d] = 1..Len(down[d]) /\ Len(down[d]) \in Nat
    BY BookTypes
  <2>2. Before(down[d], j) \subseteq ToSet(down[d]) /\ down[d][j] \in ToSet(down[d])
    BY <2>1 DEF Before, ToSet
  <2>3. SeqsOf(ToSet(down[d])) \subseteq DOMAIN log
    BY <1>4 DEF Causes, SentIsPublished
  <2>4. QED
    BY <2>2, <2>3 DEF SeqsOf
<1>16. DownIsReady'
  <2> SUFFICES ASSUME NEW d \in Clients, NEW j \in DOMAIN down[d], down[d][j].type = "BROADCAST"
               PROVE  Ready(log'[down[d][j].serverSeq].op,
                            ToSet(list[d]) \cup Inserted(OpsAt(log', SeqsOf(Before(down[d], j)))))
    BY <1>3 DEF DownIsReady
  <2>1. log'[down[d][j].serverSeq] = log[down[d][j].serverSeq]
        /\ OpsAt(log', SeqsOf(Before(down[d], j))) = OpsAt(log, SeqsOf(Before(down[d], j)))
    BY <1>1, <1>6, <1>15
  <2>2. QED
    BY <2>1 DEF Causes, DownIsReady
<1>17. ShownIsIssued'
  <2> SUFFICES ASSUME NEW d \in Clients
               PROVE  LET ops == OpsAt(log', ToSet(channel) \cup HandSeqs(hand'[d])) \cup OpsOf(ToSet(up'[d]))
                      IN ToSet(list[d]) \subseteq Inserted(ops) /\ tomb[d] \subseteq Deleted(ops)
    BY <1>3 DEF ShownIsIssued
  <2>1. OpsAt(log', ToSet(channel) \cup HandSeqs(hand'[d])) \cup OpsOf(ToSet(up'[d]))
          = OpsAt(log, seqs(d)) \cup OpsOf(ToSet(up[d]))
    <3>1. CASE d # c
      BY <1>1, <1>3, <1>8, <3>1
    <3>2. CASE d = c
      <4>1. OpsOf(ToSet(up[c])) = {msg.op} \cup OpsOf(ToSet(up'[c]))
        BY <1>1 DEF OpsOf
      <4>2. QED
        BY <1>9, <3>2, <4>1
    <3>3. QED
      BY <3>1, <3>2
  <2>2. QED
    BY <2>1 DEF Causes, ShownIsIssued
<1>18. FannedIsShown'
  <2> SUFFICES ASSUME NEW d \in Clients, NEW p \in 1..fanned[home[d]]
               PROVE  Shows(doc(d)', log'[channel[p]].op) \/ channel[p] \in SeqsOf(ToSet(down[d]))
    BY <1>3 DEF FannedIsShown
  <2>1. channel[p] \in DOMAIN log
    <3>1. channel \in Seq(DOMAIN log) /\ fanned[home[d]] \in 0..Len(channel) /\ Len(channel) \in Nat
      BY SMTT(60), HomesAssumption DEF PipelineTypeOK
    <3>2. p \in DOMAIN channel
      BY <3>1
    <3>3. QED
      BY <3>1, <3>2
  <2>2. doc(d)' = doc(d) /\ log'[channel[p]] = log[channel[p]]
    BY <1>1, <1>3, <2>1 DEF doc
  <2>3. QED
    BY <2>2 DEF Causes, FannedIsShown
<1>19. StoredShowsLog'
  <2> DEFINE op == msg.op
             ops == OpsAt(log, DOMAIN log)
  <2>1. op \in Operation /\ Stored' = Apply(Stored, op) /\ Stored \in Docs
    BY <1>1, StoredIs DEF Message
  <2>2. OpsAt(log', DOMAIN log') = ops \cup {op}
    BY <1>2, <1>6, <1>7, OpsAtParts
  <2>3. Ready(op, Inserted(ops))
    <3>1. Inserted(OpsAt(log, ToSet(channel))) \subseteq Inserted(ops)
      BY <1>4, OpsAtParts, InsertedMore
    <3>2. QED
      BY <1>10, <3>1, ReadyMore
  <2>4. ToSet(Stored.list) = Inserted(ops) /\ Stored.tomb = Deleted(ops)
    BY DEF Causes, StoredShowsLog
  <2> HIDE DEF op, ops
  <2>5. ToSet(Apply(Stored, op).list) = Inserted(ops) \cup Inserted({op})
        /\ Apply(Stored, op).tomb = Deleted(ops) \cup Deleted({op})
    BY <2>1, <2>3, <2>4, ReadyApplies
  <2>6. QED
    BY <2>1, <2>2, <2>5, InsertedMore DEF StoredShowsLog
<1>20. LoggedIsPublished'
  <2> SUFFICES ASSUME NEW i \in DOMAIN log' PROVE i \in ToSet(channel) \/ i \in HandSeqs(hand'[log'[i].client])
    BY <1>3 DEF LoggedIsPublished
  <2>1. CASE i = n
    BY <1>1, <1>5, <2>1
  <2>2. CASE i \in DOMAIN log
    <3>1. log'[i] = log[i] /\ log[i].client \in Clients
      BY <1>1, <2>2, BookTypes DEF Entry
    <3>2. i \in ToSet(channel) \/ i \in HandSeqs(hand[log[i].client])
      BY <2>2 DEF Causes, LoggedIsPublished
    <3>3. QED
      BY <1>3, <1>5, <3>1, <3>2
  <2>3. QED
    BY <1>2, <2>1, <2>2
<1>21. QueuedIsUnderWay'
  <2> SUFFICES ASSUME NEW d \in Clients, NEW m \in ToSet(queue[d])
               PROVE  \/ m \in ToSet(up'[d])
                      \/ hand'[d].stage # "idle" /\ log'[hand'[d].seq].clientSeq = m.clientSeq
                      \/ \E a \in ToSet(down[d]) : a.type = "OP_ACK" /\ a.clientSeq = m.clientSeq
    BY <1>3 DEF QueuedIsUnderWay
  <2>1. \/ m \in ToSet(up[d])
        \/ hand[d].stage # "idle" /\ log[hand[d].seq].clientSeq = m.clientSeq
        \/ \E a \in ToSet(down[d]) : a.type = "OP_ACK" /\ a.clientSeq = m.clientSeq
    BY DEF Causes, QueuedIsUnderWay
  <2>2. CASE d # c
    <3>1. hand[d].stage # "idle" => log'[hand[d].seq] = log[hand[d].seq]
      BY <1>1 DEF HandsHoldSeqs
    <3>2. QED
      BY <1>1, <1>3, <2>1, <2>2, <3>1
  <2>3. CASE d = c
    <3>1. hand'[c].stage # "idle" /\ hand'[c].seq = n
      BY <1>3
    <3>2. log'[hand'[c].seq].clientSeq = msg.clientSeq
      BY <1>1, <3>1
    <3>3. QED
      BY <1>1, <1>3, <2>1, <2>3, <3>1, <3>2
  <2>4. QED
    BY <2>2, <2>3
<1>22. QED
  BY <1>11, <1>12, <1>13, <1>14, <1>16, <1>17, <1>18, <1>19, <1>20, <1>21 DEF Causes

\* The channel and the handlers hold seqs of the table.
LEMMA SeqParts ==
    ASSUME PipelineTypeOK, HandsHoldSeqs
    PROVE  /\ channel \in Seq(DOMAIN log) /\ DOMAIN channel = 1..Len(channel) /\ Len(channel) \in Nat
           /\ \A p \in DOMAIN channel : channel[p] \in DOMAIN log
           /\ \A c \in Clients : home[c] \in Workers /\ fanned[home[c]] \in 0..Len(channel)
           /\ \A c \in Clients : hand[c].stage # "idle" => hand[c].seq \in DOMAIN log
           /\ \A c \in Clients : hand[c] = [stage |-> hand[c].stage, seq |-> hand[c].seq]
           /\ \A c \in Clients : \A p \in 1..fanned[home[c]] : p \in DOMAIN channel
<1>1. channel \in Seq(DOMAIN log) /\ DOMAIN channel = 1..Len(channel) /\ Len(channel) \in Nat
  BY DEF PipelineTypeOK
<1>2. \A c \in Clients : home[c] \in Workers
  BY HomesAssumption DEF PipelineTypeOK
<1>3. \A c \in Clients : fanned[home[c]] \in 0..Len(channel)
  BY <1>2 DEF PipelineTypeOK
<1>4. \A c \in Clients : hand[c] = [stage |-> hand[c].stage, seq |-> hand[c].seq]
  BY DEF PipelineTypeOK
<1>5. \A c \in Clients : \A p \in 1..fanned[home[c]] : p \in DOMAIN channel
  BY <1>1, <1>3
<1>6. QED
  BY <1>1, <1>2, <1>3, <1>4, <1>5 DEF HandsHoldSeqs

\* A handler publishes the operation it has stored.
LEMMA PublishKeepsCauses ==
    ASSUME PipelineTypeOK, HandsHoldSeqs, Causes, NEW c \in Clients, Publish(c)
    PROVE  Causes'
<1> DEFINE q == hand[c].seq
           seqs(d) == ToSet(channel) \cup HandSeqs(hand[d])
           seqs2(d) == ToSet(channel') \cup HandSeqs(hand'[d])
<1>1. /\ UNCHANGED <<home, list, tomb, queue, log, fanned, up, down>>
      /\ hand[c].stage = "publish" /\ channel' = Append(channel, q)
      /\ hand'[c].stage = "acknowledge" /\ hand'[c].seq = q
      /\ \A d \in Clients : d # c => hand'[d] = hand[d]
  BY DEF Publish, clientVars, PipelineTypeOK
<1>2. q \in DOMAIN log /\ HandSeqs(hand[c]) = {q} /\ HandSeqs(hand'[c]) = {}
  BY <1>1, SeqParts DEF HandSeqs
<1>3. channel \in Seq(DOMAIN log) /\ DOMAIN channel = 1..Len(channel) /\ Len(channel) \in Nat
  BY SeqParts
<1> HIDE DEF q
<1>4. /\ DOMAIN channel' = 1..(Len(channel) + 1) /\ ToSet(channel') = ToSet(channel) \cup {q}
      /\ channel'[Len(channel) + 1] = q /\ Before(channel', Len(channel) + 1) = ToSet(channel)
      /\ \A p \in DOMAIN channel : channel'[p] = channel[p] /\ Before(channel', p) = Before(channel, p)
  BY <1>1, <1>2, <1>3, BeforeAppend
<1>5. \A d \in Clients : seqs(d) \subseteq seqs2(d)
  BY <1>1, <1>2, <1>4
<1> HIDE DEF seqs, seqs2
<1>6. \A d \in Clients : OpsAt(log, seqs(d)) \subseteq OpsAt(log, seqs2(d))
  BY <1>5, OpsAtParts
<1>7. UpIsReady'
  <2> SUFFICES ASSUME NEW d \in Clients, NEW j \in DOMAIN up[d]
               PROVE  Ready(up[d][j].op, Inserted(OpsAt(log, seqs2(d)) \cup OpsOf(Before(up[d], j))))
    BY <1>1 DEF UpIsReady, seqs2
  <2> DEFINE A == OpsAt(log, seqs(d)) \cup OpsOf(Before(up[d], j))
             B == OpsAt(log, seqs2(d)) \cup OpsOf(Before(up[d], j))
  <2>1. Ready(up[d][j].op, Inserted(A))
    BY DEF Causes, UpIsReady, seqs
  <2>2. A \subseteq B
    BY <1>6
  <2> HIDE DEF A, B
  <2>3. Inserted(A) \subseteq Inserted(B)
    BY <2>2, InsertedMore
  <2>4. Ready(up[d][j].op, Inserted(B))
    BY <2>1, <2>3, ReadyMore
  <2>5. QED
    BY <2>4 DEF B
<1>8. OpsAt(log, ToSet(channel)) \subseteq OpsAt(log, ToSet(channel'))
  BY <1>4, OpsAtParts
<1>9. HandIsReady'
  <2> SUFFICES ASSUME NEW d \in Clients, NEW i \in HandSeqs(hand'[d])
               PROVE  Ready(log[i].op, Inserted(OpsAt(log, ToSet(channel'))))
    BY <1>1 DEF HandIsReady
  <2>1. i \in HandSeqs(hand[d])
    BY <1>1, <1>2
  <2>2. Ready(log[i].op, Inserted(OpsAt(log, ToSet(channel))))
    BY <2>1 DEF Causes, HandIsReady
  <2>3. QED
    BY <1>8, <2>2, ReadyMore, InsertedMore
<1>10. ChannelIsReady'
  <2> SUFFICES ASSUME NEW p \in DOMAIN channel'
               PROVE  Ready(log[channel'[p]].op, Inserted(OpsAt(log, Before(channel', p))))
    BY <1>1 DEF ChannelIsReady
  <2>1. CASE p \in DOMAIN channel
    BY <1>4, <2>1 DEF Causes, ChannelIsReady
  <2>2. CASE p = Len(channel) + 1
    BY <1>2, <1>4, <2>2 DEF Causes, HandIsReady
  <2>3. QED
    BY <1>3, <1>4, <2>1, <2>2
<1>11. DownIsReady'
  BY <1>1 DEF Causes, DownIsReady
<1>12. SentIsPublished'
  BY <1>1, <1>4 DEF Causes, SentIsPublished
<1>13. ShownIsIssued'
  <2> SUFFICES ASSUME NEW d \in Clients
               PROVE  LET ops == OpsAt(log, seqs2(d)) \cup OpsOf(ToSet(up[d]))
                      IN ToSet(list[d]) \subseteq Inserted(ops) /\ tomb[d] \subseteq Deleted(ops)
    BY <1>1 DEF ShownIsIssued, seqs2
  <2> DEFINE ops == OpsAt(log, seqs(d)) \cup OpsOf(ToSet(up[d]))
             ops2 == OpsAt(log, seqs2(d)) \cup OpsOf(ToSet(up[d]))
  <2>1. ToSet(list[d]) \subseteq Inserted(ops) /\ tomb[d] \subseteq Deleted(ops)
    BY DEF Causes, ShownIsIssued, seqs
  <2>2. ops \subseteq ops2
    BY <1>6
  <2> HIDE DEF ops, ops2
  <2>3. Inserted(ops) \subseteq Inserted(ops2) /\ Deleted(ops) \subseteq Deleted(ops2)
    BY <2>2, InsertedMore
  <2>4. QED
    BY <2>1, <2>3 DEF ops2
<1>14. FannedIsShown'
  <2> SUFFICES ASSUME NEW d \in Clients, NEW p \in 1..fanned[home[d]]
               PROVE  Shows(doc(d)', log[channel'[p]].op) \/ channel'[p] \in SeqsOf(ToSet(down[d]))
    BY <1>1 DEF FannedIsShown
  <2>1. p \in DOMAIN channel /\ channel'[p] = channel[p]
    BY <1>4, SeqParts
  <2>2. doc(d)' = doc(d)
    BY <1>1 DEF doc
  <2>3. QED
    BY <2>1, <2>2 DEF Causes, FannedIsShown
<1>15. StoredShowsLog'
  <2>1. Stored' = Stored
    BY <1>1, StoredIs
  <2>2. QED
    BY <1>1, <2>1 DEF Causes, StoredShowsLog
<1>16. LoggedIsPublished'
  <2> SUFFICES ASSUME NEW i \in DOMAIN log PROVE i \in ToSet(channel') \/ i \in HandSeqs(hand'[log[i].client])
    BY <1>1 DEF LoggedIsPublished
  <2>1. i \in ToSet(channel) \/ i \in HandSeqs(hand[log[i].client])
    BY DEF Causes, LoggedIsPublished
  <2>2. log[i].client \in Clients
    BY BookTypes DEF Entry
  <2>3. QED
    BY <1>1, <1>2, <1>4, <2>1, <2>2
<1>17. QueuedIsUnderWay'
  <2> SUFFICES ASSUME NEW d \in Clients, NEW m \in ToSet(queue[d])
               PROVE  \/ m \in ToSet(up[d])
                      \/ hand'[d].stage # "idle" /\ log[hand'[d].seq].clientSeq = m.clientSeq
                      \/ \E a \in ToSet(down[d]) : a.type = "OP_ACK" /\ a.clientSeq = m.clientSeq
    BY <1>1 DEF QueuedIsUnderWay
  <2>1. \/ m \in ToSet(up[d])
        \/ hand[d].stage # "idle" /\ log[hand[d].seq].clientSeq = m.clientSeq
        \/ \E a \in ToSet(down[d]) : a.type = "OP_ACK" /\ a.clientSeq = m.clientSeq
    BY DEF Causes, QueuedIsUnderWay
  <2>2. QED
    BY <1>1, <2>1 DEF q
<1>18. QED
  BY <1>7, <1>9, <1>10, <1>11, <1>12, <1>13, <1>14, <1>15, <1>16, <1>17 DEF Causes

\* A handler answers its client.
LEMMA AcknowledgeKeepsCauses ==
    ASSUME PipelineTypeOK, HandsHoldSeqs, Causes, NEW c \in Clients, Acknowledge(c)
    PROVE  Causes'
<1> DEFINE ack == OpAck(log[hand[c].seq].clientSeq, hand[c].seq)
<1>1. /\ UNCHANGED <<home, list, tomb, queue, log, channel, fanned, up>>
      /\ hand[c].stage = "acknowledge" /\ hand'[c] = Idle /\ down'[c] = Append(down[c], ack)
      /\ \A d \in Clients : d # c => hand'[d] = hand[d] /\ down'[d] = down[d]
  BY DEF Acknowledge, clientVars, PipelineTypeOK
<1>2. ack.type = "OP_ACK" /\ ack.clientSeq = log[hand[c].seq].clientSeq /\ ack \in ServerMessages(DOMAIN log)
  <2>1. hand[c].seq \in DOMAIN log
    BY <1>1, SeqParts
  <2>2. log[hand[c].seq].clientSeq \in Nat
    BY <2>1, BookTypes DEF Entry
  <2>3. QED
    BY <2>1, <2>2 DEF OpAck, ServerMessages
<1> HIDE DEF ack
<1>3. /\ DOMAIN down'[c] = 1..(Len(down[c]) + 1) /\ DOMAIN down[c] = 1..Len(down[c]) /\ Len(down[c]) \in Nat
      /\ down'[c][Len(down[c]) + 1] = ack
      /\ \A j \in DOMAIN down[c] : down'[c][j] = down[c][j] /\ Before(down'[c], j) = Before(down[c], j)
      /\ ToSet(down'[c]) = ToSet(down[c]) \cup {ack}
  <2>1. down[c] \in Seq(ServerMessages(DOMAIN log))
    BY BookTypes
  <2>2. QED
    BY <1>1, <1>2, <2>1, BeforeAppend
<1>4. \A d \in Clients : HandSeqs(hand'[d]) = HandSeqs(hand[d])
  <2>1. hand'[c].stage = "idle"
    BY <1>1 DEF Idle
  <2>2. HandSeqs(hand'[c]) = {} /\ HandSeqs(hand[c]) = {}
    BY <1>1, <2>1 DEF HandSeqs
  <2>3. QED
    BY <1>1, <2>2
<1>5. \A d \in Clients : SeqsOf(ToSet(down'[d])) = SeqsOf(ToSet(down[d]))
  <2>1. SeqsOf(ToSet(down'[c])) = SeqsOf(ToSet(down[c]))
    BY <1>2, <1>3 DEF SeqsOf
  <2>2. QED
    BY <1>1, <2>1
<1>6. UpIsReady' /\ HandIsReady' /\ ChannelIsReady' /\ ShownIsIssued'
  BY <1>1, <1>4 DEF Causes, UpIsReady, HandIsReady, ChannelIsReady, ShownIsIssued
<1>7. DownIsReady'
  <2> SUFFICES ASSUME NEW d \in Clients, NEW j \in DOMAIN down'[d], down'[d][j].type = "BROADCAST"
               PROVE  Ready(log[down'[d][j].serverSeq].op,
                            ToSet(list[d]) \cup Inserted(OpsAt(log, SeqsOf(Before(down'[d], j)))))
    BY <1>1 DEF DownIsReady
  <2>1. j \in DOMAIN down[d] /\ down'[d][j] = down[d][j] /\ Before(down'[d], j) = Before(down[d], j)
    <3>1. CASE d # c
      BY <1>1, <3>1
    <3>2. CASE d = c
      <4>1. j # Len(down[c]) + 1
        BY <1>2, <1>3, <3>2
      <4>2. j \in DOMAIN down[c]
        BY <1>3, <3>2, <4>1
      <4>3. QED
        BY <1>3, <3>2, <4>2
    <3>3. QED
      BY <3>1, <3>2
  <2>2. QED
    BY <2>1 DEF Causes, DownIsReady
<1>8. SentIsPublished'
  BY <1>1, <1>5 DEF Causes, SentIsPublished
<1>9. FannedIsShown'
  <2>1. \A d \in Clients : doc(d)' = doc(d)
    BY <1>1 DEF doc
  <2>2. QED
    BY <1>1, <1>5, <2>1 DEF Causes, FannedIsShown
<1>10. StoredShowsLog'
  <2>1. Stored' = Stored
    BY <1>1, StoredIs
  <2>2. QED
    BY <1>1, <2>1 DEF Causes, StoredShowsLog
<1>11. LoggedIsPublished'
  <2>1. \A i \in DOMAIN log : log[i].client \in Clients
    BY BookTypes DEF Entry
  <2>2. QED
    BY <1>1, <1>4, <2>1 DEF Causes, LoggedIsPublished
<1>12. QueuedIsUnderWay'
  <2> SUFFICES ASSUME NEW d \in Clients, NEW m \in ToSet(queue[d])
               PROVE  \/ m \in ToSet(up[d])
                      \/ hand'[d].stage # "idle" /\ log[hand'[d].seq].clientSeq = m.clientSeq
                      \/ \E a \in ToSet(down'[d]) : a.type = "OP_ACK" /\ a.clientSeq = m.clientSeq
    BY <1>1 DEF QueuedIsUnderWay
  <2>1. \/ m \in ToSet(up[d])
        \/ hand[d].stage # "idle" /\ log[hand[d].seq].clientSeq = m.clientSeq
        \/ \E a \in ToSet(down[d]) : a.type = "OP_ACK" /\ a.clientSeq = m.clientSeq
    BY DEF Causes, QueuedIsUnderWay
  <2>2. CASE d # c
    BY <1>1, <2>1, <2>2
  <2>3. CASE d = c
    <3>1. ToSet(down[c]) \subseteq ToSet(down'[c]) /\ ack \in ToSet(down'[c])
      BY <1>3
    <3>2. QED
      BY <1>2, <2>1, <2>3, <3>1
  <2>4. QED
    BY <2>2, <2>3
<1>13. QED
  BY <1>6, <1>7, <1>8, <1>9, <1>10, <1>11, <1>12 DEF Causes

\* What has been fanned out to a client it shows or is about to receive.
LEMMA PrefixIsShown ==
    ASSUME PipelineTypeOK, HandsHoldSeqs, Causes, NEW c \in Clients
    PROVE  Inserted(OpsAt(log, Before(channel, fanned[home[c]] + 1)))
              \subseteq ToSet(list[c]) \cup Inserted(OpsAt(log, SeqsOf(ToSet(down[c]))))
<1>1. fanned[home[c]] \in Nat /\ (fanned[home[c]] + 1) - 1 = fanned[home[c]]
  BY SeqParts
<1>2. ASSUME NEW u \in Inserted(OpsAt(log, Before(channel, fanned[home[c]] + 1)))
      PROVE  u \in ToSet(list[c]) \cup Inserted(OpsAt(log, SeqsOf(ToSet(down[c]))))
  <2>1. PICK p \in 1..fanned[home[c]] : log[channel[p]].op.type = "INSERT" /\ u = log[channel[p]].op.uid
    BY <1>1 DEF Inserted, OpsAt, Before
  <2>2. Shows(doc(c), log[channel[p]].op) \/ channel[p] \in SeqsOf(ToSet(down[c]))
    BY DEF Causes, FannedIsShown
  <2>3. CASE Shows(doc(c), log[channel[p]].op)
    BY <2>1, <2>3 DEF Shows, Holds, doc
  <2>4. CASE channel[p] \in SeqsOf(ToSet(down[c]))
    BY <2>1, <2>4 DEF Inserted, OpsAt
  <2>5. QED
    BY <2>2, <2>3, <2>4
<1>3. QED
  BY <1>2

\* The channel's next message goes to every session of a worker.
LEMMA FanOutKeepsCauses ==
    ASSUME PipelineTypeOK, HandsHoldSeqs, Causes, NEW w \in Workers, FanOut(w)
    PROVE  Causes'
<1> DEFINE q == channel[fanned[w] + 1]
           b == Broadcast(q)
<1>1. /\ UNCHANGED <<home, list, tomb, queue, log, channel, hand, up>>
      /\ fanned' = [fanned EXCEPT ![w] = @ + 1]
  BY DEF FanOut, clientVars
<1>2. PICK n \in Nat, copies \in Seq(ServerMessages(DOMAIN log)) :
          /\ n = Copies(w) /\ copies = [i \in 1..n |-> b]
          /\ down' = [c \in Clients |-> IF home[c] = w THEN down[c] \o copies ELSE down[c]]
  BY FanOutIs
<1>3. fanned[w] + 1 \in DOMAIN channel /\ fanned[w] \in Nat /\ q \in DOMAIN log
  BY SMTT(60), FanOutIs, SeqParts DEF PipelineTypeOK
<1>4. ASSUME NEW d \in Clients, home[d] = w PROVE ToSet(copies) = {b}
  <2>1. d \in {c \in Clients : home[c] = w} /\ {c \in Clients : home[c] = w} \in SUBSET Clients
    BY <1>4
  <2>2. n # 0
    BY <1>2, <2>1, FS_Subset, FS_EmptySet, ClientsAssumption DEF Copies
  <2>3. DOMAIN copies = 1..n /\ 1 \in 1..n /\ \A i \in 1..n : copies[i] = b
    BY <1>2, <2>2
  <2>4. QED
    BY <2>3 DEF ToSet
<1> HIDE DEF b, q
<1>5. /\ \A d \in Clients : home[d] = w => down'[d] = down[d] \o copies /\ fanned'[home[d]] = fanned[w] + 1
      /\ \A d \in Clients : home[d] # w => down'[d] = down[d] /\ fanned'[home[d]] = fanned[home[d]]
  BY <1>1, <1>2, SeqParts DEF PipelineTypeOK
<1>6. \A d \in Clients : down[d] \in Seq(ServerMessages(DOMAIN log))
  BY BookTypes
<1>7. b.type = "BROADCAST" /\ b.serverSeq = q /\ SeqsOf({b}) = {q}
  BY SeqsOfParts DEF b, Broadcast
<1>8. ASSUME NEW d \in Clients, home[d] = w
      PROVE  /\ ToSet(down'[d]) = ToSet(down[d]) \cup {b}
             /\ SeqsOf(ToSet(down'[d])) = SeqsOf(ToSet(down[d])) \cup {q}
  <2>0. down'[d] = down[d] \o copies /\ ToSet(copies) = {b}
    BY <1>4, <1>5, <1>8
  <2>1. ToSet(down'[d]) = ToSet(down[d]) \cup {b}
    BY <1>6, <2>0, ConcatElements
  <2>2. QED
    BY <1>7, <2>1, SeqsOfParts
<1>9. UpIsReady' /\ HandIsReady' /\ ChannelIsReady' /\ ShownIsIssued' /\ LoggedIsPublished'
  BY <1>1 DEF Causes, UpIsReady, HandIsReady, ChannelIsReady, ShownIsIssued, LoggedIsPublished
<1>10. DownIsReady'
  <2> SUFFICES ASSUME NEW d \in Clients, NEW j \in DOMAIN down'[d], down'[d][j].type = "BROADCAST"
               PROVE  Ready(log[down'[d][j].serverSeq].op,
                            ToSet(list[d]) \cup Inserted(OpsAt(log, SeqsOf(Before(down'[d], j)))))
    BY <1>1 DEF DownIsReady
  <2>1. CASE j \in DOMAIN down[d] /\ down'[d][j] = down[d][j] /\ Before(down'[d], j) = Before(down[d], j)
    BY <2>1 DEF Causes, DownIsReady
  <2>2. CASE home[d] = w /\ down'[d][j] = b /\ ToSet(down[d]) \subseteq Before(down'[d], j)
    <3> DEFINE A == Inserted(OpsAt(log, Before(channel, fanned[w] + 1)))
               B == ToSet(list[d]) \cup Inserted(OpsAt(log, SeqsOf(ToSet(down[d]))))
               C == ToSet(list[d]) \cup Inserted(OpsAt(log, SeqsOf(Before(down'[d], j))))
    <3>1. Ready(log[q].op, A)
      BY <1>3 DEF Causes, ChannelIsReady, q
    <3>2. A \subseteq B
      BY <2>2, PrefixIsShown
    <3>3. B \subseteq C
      <4>1. SeqsOf(ToSet(down[d])) \subseteq SeqsOf(Before(down'[d], j))
        BY <2>2, SeqsOfParts
      <4>2. OpsAt(log, SeqsOf(ToSet(down[d]))) \subseteq OpsAt(log, SeqsOf(Before(down'[d], j)))
        BY <4>1, OpsAtParts
      <4>3. QED
        BY <4>2 DEF Inserted
    <3> HIDE DEF A, B, C
    <3>4. Ready(log[q].op, C)
      BY <3>1, <3>2, <3>3, ReadyMore
    <3>5. QED
      BY <1>7, <2>2, <3>4 DEF C
  <2>3. QED
    <3>1. CASE home[d] # w
      BY <1>5, <2>1, <3>1
    <3>2. CASE home[d] = w
      <4>1. j \in DOMAIN (down[d] \o copies) /\ down'[d] = down[d] \o copies
        BY <1>5, <3>2
      <4>2. \/ j \in DOMAIN down[d] /\ down'[d][j] = down[d][j] /\ Before(down'[d], j) = Before(down[d], j)
            \/ down'[d][j] \in ToSet(copies) /\ ToSet(down[d]) \subseteq Before(down'[d], j)
        BY <1>6, <4>1, BeforeConcat
      <4>3. QED
        BY <1>4, <2>1, <2>2, <3>2, <4>2
    <3>3. QED
      BY <3>1, <3>2
<1>11. SentIsPublished'
  <2>1. q \in ToSet(channel)
    BY <1>3 DEF ToSet, q
  <2>2. \A d \in Clients : SeqsOf(ToSet(down[d])) \subseteq ToSet(channel)
    BY DEF Causes, SentIsPublished
  <2>3. QED
    BY <1>1, <1>5, <1>8, <2>1, <2>2 DEF SentIsPublished
<1>12. FannedIsShown'
  <2> SUFFICES ASSUME NEW d \in Clients, NEW p \in 1..fanned'[home[d]]
               PROVE  Shows(doc(d), log[channel[p]].op) \/ channel[p] \in SeqsOf(ToSet(down'[d]))
    BY <1>1 DEF FannedIsShown, doc
  <2>1. \A k \in 1..fanned[home[d]] :
            Shows(doc(d), log[channel[k]].op) \/ channel[k] \in SeqsOf(ToSet(down[d]))
    BY DEF Causes, FannedIsShown
  <2>2. CASE home[d] # w
    BY <1>5, <2>1, <2>2
  <2>3. CASE home[d] = w
    <3>1. p \in 1..fanned[home[d]] \/ p = fanned[w] + 1
      BY <1>3, <1>5, <2>3
    <3>2. QED
      BY <1>8, <2>1, <2>3, <3>1 DEF q
  <2>4. QED
    BY <2>2, <2>3
<1>13. StoredShowsLog'
  <2>1. Stored' = Stored
    BY <1>1, StoredIs
  <2>2. QED
    BY <1>1, <2>1 DEF Causes, StoredShowsLog
<1>14. QueuedIsUnderWay'
  <2>1. \A d \in Clients : ToSet(down[d]) \subseteq ToSet(down'[d])
    BY <1>5, <1>8
  <2> SUFFICES ASSUME NEW d \in Clients, NEW m \in ToSet(queue[d])
               PROVE  \/ m \in ToSet(up[d])
                      \/ hand[d].stage # "idle" /\ log[hand[d].seq].clientSeq = m.clientSeq
                      \/ \E a \in ToSet(down'[d]) : a.type = "OP_ACK" /\ a.clientSeq = m.clientSeq
    BY <1>1 DEF QueuedIsUnderWay
  <2>2. \/ m \in ToSet(up[d])
        \/ hand[d].stage # "idle" /\ log[hand[d].seq].clientSeq = m.clientSeq
        \/ \E a \in ToSet(down[d]) : a.type = "OP_ACK" /\ a.clientSeq = m.clientSeq
    BY DEF Causes, QueuedIsUnderWay
  <2>3. QED
    BY <2>1, <2>2
<1>15. QED
  BY <1>9, <1>10, <1>11, <1>12, <1>13, <1>14 DEF Causes

\* An answer takes its operation out of the queue, and nothing else.
LEMMA ReceiveAckKeepsCauses ==
    ASSUME PipelineTypeOK, HandsHoldSeqs, Causes, NEW c \in Clients, ReceiveAck(c)
    PROVE  Causes'
<1> DEFINE msg == Head(down[c])
<1>1. /\ UNCHANGED <<home, list, tomb, log, channel, fanned, hand, up>>
      /\ down[c] # << >> /\ msg.type = "OP_ACK" /\ down'[c] = Tail(down[c])
      /\ queue'[c] = Without(queue[c], msg.clientSeq)
      /\ \A d \in Clients : d # c => down'[d] = down[d] /\ queue'[d] = queue[d]
  BY DEF ReceiveAck, serverVars, PipelineTypeOK
<1>2. down[c] \in Seq(ServerMessages(DOMAIN log)) /\ queue[c] \in Seq(Message)
  BY BookTypes
<1>3. ToSet(queue'[c]) = {m \in ToSet(queue[c]) : m.clientSeq # msg.clientSeq}
  BY <1>1, <1>2, WithoutKeepsOthers
<1>4. ToSet(down[c]) = {msg} \cup ToSet(down'[c])
  BY <1>1, <1>2, HeadAndTail
<1>5. \A j \in DOMAIN down'[c] :
          /\ j + 1 \in DOMAIN down[c] /\ down'[c][j] = down[c][j + 1]
          /\ Before(down[c], j + 1) = {msg} \cup Before(down'[c], j)
  BY <1>1, <1>2, BeforeTail
<1> HIDE DEF msg
<1>6. \A A : SeqsOf({msg} \cup A) = SeqsOf(A)
  BY <1>1 DEF SeqsOf
<1>7. \A d \in Clients : SeqsOf(ToSet(down'[d])) = SeqsOf(ToSet(down[d]))
  BY <1>1, <1>4, <1>6
<1>8. UpIsReady' /\ HandIsReady' /\ ChannelIsReady' /\ ShownIsIssued' /\ LoggedIsPublished'
  BY <1>1 DEF Causes, UpIsReady, HandIsReady, ChannelIsReady, ShownIsIssued, LoggedIsPublished
<1>9. DownIsReady'
  <2> SUFFICES ASSUME NEW d \in Clients, NEW j \in DOMAIN down'[d], down'[d][j].type = "BROADCAST"
               PROVE  Ready(log[down'[d][j].serverSeq].op,
                            ToSet(list[d]) \cup Inserted(OpsAt(log, SeqsOf(Before(down'[d], j)))))
    BY <1>1 DEF DownIsReady
  <2>1. CASE d # c
    BY <1>1, <2>1 DEF Causes, DownIsReady
  <2>2. CASE d = c
    <3>1. SeqsOf(Before(down[c], j + 1)) = SeqsOf(Before(down'[c], j))
      BY <1>5, <1>6, <2>2
    <3>2. j + 1 \in DOMAIN down[c] /\ down'[c][j] = down[c][j + 1]
      BY <1>5, <2>2
    <3>3. QED
      BY <2>2, <3>1, <3>2 DEF Causes, DownIsReady
  <2>3. QED
    BY <2>1, <2>2
<1>10. SentIsPublished'
  BY <1>1, <1>7 DEF Causes, SentIsPublished
<1>11. FannedIsShown'
  <2>1. \A d \in Clients : doc(d)' = doc(d)
    BY <1>1 DEF doc
  <2>2. QED
    BY <1>1, <1>7, <2>1 DEF Causes, FannedIsShown
<1>12. StoredShowsLog'
  <2>1. Stored' = Stored
    BY <1>1, StoredIs
  <2>2. QED
    BY <1>1, <2>1 DEF Causes, StoredShowsLog
<1>13. QueuedIsUnderWay'
  <2> SUFFICES ASSUME NEW d \in Clients, NEW m \in ToSet(queue'[d])
               PROVE  \/ m \in ToSet(up[d])
                      \/ hand[d].stage # "idle" /\ log[hand[d].seq].clientSeq = m.clientSeq
                      \/ \E a \in ToSet(down'[d]) : a.type = "OP_ACK" /\ a.clientSeq = m.clientSeq
    BY <1>1 DEF QueuedIsUnderWay
  <2>1. m \in ToSet(queue[d]) /\ (d = c => m.clientSeq # msg.clientSeq)
    BY <1>1, <1>3
  <2>2. \/ m \in ToSet(up[d])
        \/ hand[d].stage # "idle" /\ log[hand[d].seq].clientSeq = m.clientSeq
        \/ \E a \in ToSet(down[d]) : a.type = "OP_ACK" /\ a.clientSeq = m.clientSeq
    BY <2>1 DEF Causes, QueuedIsUnderWay
  <2>3. QED
    BY <1>1, <1>4, <2>1, <2>2
<1>14. QED
  BY <1>8, <1>9, <1>10, <1>11, <1>12, <1>13 DEF Causes

\* A client applies what it is sent.
LEMMA ReceiveBroadcastKeepsCauses ==
    ASSUME PipelineTypeOK, HandsHoldSeqs, Causes, NEW c \in Clients, ReceiveBroadcast(c)
    PROVE  Causes'
<1> DEFINE msg == Head(down[c])
           q == msg.serverSeq
           op == log[q].op
<1>1. /\ UNCHANGED <<home, queue, log, channel, fanned, hand, up>>
      /\ down[c] # << >> /\ msg.type = "BROADCAST" /\ down'[c] = Tail(down[c])
      /\ \A d \in Clients : d # c => down'[d] = down[d]
  BY DEF ReceiveBroadcast, serverVars, PipelineTypeOK
<1>2. down[c] \in Seq(ServerMessages(DOMAIN log))
  BY BookTypes
<1>3. /\ ToSet(down[c]) = {msg} \cup ToSet(down'[c]) /\ msg \in ToSet(down[c])
      /\ q \in DOMAIN log /\ op \in Operation
      /\ list'[c] = Apply(doc(c), op).list /\ tomb'[c] = Apply(doc(c), op).tomb
      /\ \A d \in Clients : d # c => list'[d] = list[d] /\ tomb'[d] = tomb[d]
  BY ReceiveBroadcastIs
<1>4. \A j \in DOMAIN down'[c] :
          /\ j + 1 \in DOMAIN down[c] /\ down'[c][j] = down[c][j + 1]
          /\ Before(down[c], j + 1) = {msg} \cup Before(down'[c], j)
  BY <1>1, <1>2, BeforeTail
<1>5. 1 \in DOMAIN down[c] /\ down[c][1] = msg /\ Before(down[c], 1) = {}
  BY <1>1, <1>2, BeforeTail
<1> HIDE DEF msg
<1>6. \A A : SeqsOf({msg} \cup A) = {q} \cup SeqsOf(A)
  BY <1>1 DEF SeqsOf
<1> HIDE DEF q
<1>7. \A A : OpsAt(log, {q} \cup A) = {op} \cup OpsAt(log, A)
  BY DEF OpsAt
<1>8. Ready(op, ToSet(list[c]))
  <2>1. SeqsOf({}) = {} /\ OpsAt(log, {}) = {} /\ Inserted({}) = {}
    BY DEF SeqsOf, OpsAt, Inserted
  <2>2. Ready(op, ToSet(list[c]) \cup Inserted(OpsAt(log, SeqsOf(Before(down[c], 1)))))
    BY <1>1, <1>5 DEF Causes, DownIsReady, q
  <2>3. QED
    BY <1>5, <2>1, <2>2
<1> HIDE DEF op
<1>9. ToSet(list'[c]) = ToSet(list[c]) \cup Inserted({op}) /\ tomb'[c] = tomb[c] \cup Deleted({op})
  <2>1. doc(c) \in Docs /\ doc(c).list = list[c] /\ doc(c).tomb = tomb[c]
    BY TypeParts DEF Docs, Doc, doc
  <2>2. QED
    BY <1>3, <1>8, <2>1, ReadyApplies
<1>10. UpIsReady' /\ HandIsReady' /\ ChannelIsReady' /\ LoggedIsPublished'
  BY <1>1 DEF Causes, UpIsReady, HandIsReady, ChannelIsReady, LoggedIsPublished
<1>11. \A d \in Clients : SeqsOf(ToSet(down'[d])) \subseteq SeqsOf(ToSet(down[d]))
  BY <1>1, <1>3, <1>6
<1>12. SentIsPublished'
  BY <1>1, <1>11 DEF Causes, SentIsPublished
<1>13. DownIsReady'
  <2> SUFFICES ASSUME NEW d \in Clients, NEW j \in DOMAIN down'[d], down'[d][j].type = "BROADCAST"
               PROVE  Ready(log[down'[d][j].serverSeq].op,
                            ToSet(list'[d]) \cup Inserted(OpsAt(log, SeqsOf(Before(down'[d], j)))))
    BY <1>1 DEF DownIsReady
  <2>1. CASE d # c
    BY <1>1, <1>3, <2>1 DEF Causes, DownIsReady
  <2>2. CASE d = c
    <3> DEFINE A == OpsAt(log, SeqsOf(Before(down'[c], j)))
    <3>1. OpsAt(log, SeqsOf(Before(down[c], j + 1))) = {op} \cup A
      BY <1>4, <1>6, <1>7, <2>2
    <3>2. j + 1 \in DOMAIN down[c] /\ down'[c][j] = down[c][j + 1]
      BY <1>4, <2>2
    <3>3. Ready(log[down'[c][j].serverSeq].op, ToSet(list[c]) \cup Inserted({op} \cup A))
      BY <2>2, <3>1, <3>2 DEF Causes, DownIsReady
    <3> HIDE DEF A
    <3>4. Inserted({op} \cup A) = Inserted({op}) \cup Inserted(A)
      BY InsertedMore
    <3>5. ToSet(list[c]) \cup Inserted({op} \cup A) = ToSet(list'[c]) \cup Inserted(A)
      BY <1>9, <3>4
    <3>6. QED
      BY <2>2, <3>3, <3>5 DEF A
  <2>3. QED
    BY <2>1, <2>2
<1>14. ShownIsIssued'
  <2> SUFFICES ASSUME NEW d \in Clients
               PROVE  LET ops == OpsAt(log, ToSet(channel) \cup HandSeqs(hand[d])) \cup OpsOf(ToSet(up[d]))
                      IN ToSet(list'[d]) \subseteq Inserted(ops) /\ tomb'[d] \subseteq Deleted(ops)
    BY <1>1 DEF ShownIsIssued
  <2> DEFINE ops == OpsAt(log, ToSet(channel) \cup HandSeqs(hand[d])) \cup OpsOf(ToSet(up[d]))
  <2>1. ToSet(list[d]) \subseteq Inserted(ops) /\ tomb[d] \subseteq Deleted(ops)
    BY DEF Causes, ShownIsIssued
  <2>2. {op} \subseteq ops
    <3>1. SeqsOf(ToSet(down[c])) = {q} \cup SeqsOf(ToSet(down'[c]))
      BY <1>3, <1>6
    <3>2. q \in ToSet(channel)
      BY <3>1 DEF Causes, SentIsPublished
    <3>3. QED
      BY <3>2 DEF OpsAt, op
  <2> HIDE DEF ops
  <2>3. Inserted({op}) \subseteq Inserted(ops) /\ Deleted({op}) \subseteq Deleted(ops)
    BY <2>2, InsertedMore
  <2>4. ToSet(list'[d]) \subseteq Inserted(ops) /\ tomb'[d] \subseteq Deleted(ops)
    BY <1>3, <1>9, <2>1, <2>3
  <2>5. QED
    BY <2>4 DEF ops
<1>15. FannedIsShown'
  <2> SUFFICES ASSUME NEW d \in Clients, NEW p \in 1..fanned[home[d]]
               PROVE  Shows(doc(d)', log[channel[p]].op) \/ channel[p] \in SeqsOf(ToSet(down'[d]))
    BY <1>1 DEF FannedIsShown
  <2>1. Shows(doc(d), log[channel[p]].op) \/ channel[p] \in SeqsOf(ToSet(down[d]))
    BY DEF Causes, FannedIsShown
  <2>2. CASE d # c
    BY <1>1, <1>3, <2>1, <2>2 DEF doc
  <2>3. CASE d = c
    <3>1. Shows(doc(c), log[channel[p]].op) => Shows(doc(c)', log[channel[p]].op)
      BY <1>9 DEF Shows, doc, Holds
    <3>2. channel[p] \in SeqsOf(ToSet(down[c])) => channel[p] = q \/ channel[p] \in SeqsOf(ToSet(down'[c]))
      BY <1>3, <1>6
    <3>3. Shows(doc(c)', op)
      BY <1>9, InsertedByOne DEF Shows, doc, Holds
    <3>4. QED
      BY <2>1, <2>3, <3>1, <3>2, <3>3 DEF op
  <2>4. QED
    BY <2>2, <2>3
<1>16. StoredShowsLog'
  <2>1. Stored' = Stored
    BY <1>1, StoredIs
  <2>2. QED
    BY <1>1, <2>1 DEF Causes, StoredShowsLog
<1>17. QueuedIsUnderWay'
  <2> SUFFICES ASSUME NEW d \in Clients, NEW m \in ToSet(queue[d])
               PROVE  \/ m \in ToSet(up[d])
                      \/ hand[d].stage # "idle" /\ log[hand[d].seq].clientSeq = m.clientSeq
                      \/ \E a \in ToSet(down'[d]) : a.type = "OP_ACK" /\ a.clientSeq = m.clientSeq
    BY <1>1 DEF QueuedIsUnderWay
  <2>1. \/ m \in ToSet(up[d])
        \/ hand[d].stage # "idle" /\ log[hand[d].seq].clientSeq = m.clientSeq
        \/ \E a \in ToSet(down[d]) : a.type = "OP_ACK" /\ a.clientSeq = m.clientSeq
    BY DEF Causes, QueuedIsUnderWay
  <2>2. \A a \in ToSet(down[d]) : a.type = "OP_ACK" => a \in ToSet(down'[d])
    BY <1>1, <1>3
  <2>3. QED
    BY <2>1, <2>2
<1>18. QED
  BY <1>10, <1>12, <1>13, <1>14, <1>15, <1>16, <1>17 DEF Causes

\* Nothing is typed, stored, published or sent at first.
LEMMA InitCauses == Init => Causes
<1> SUFFICES ASSUME Init PROVE Causes
  OBVIOUS
<1>1. \A c \in Clients : /\ up[c] = << >> /\ queue[c] = << >> /\ down[c] = << >> /\ list[c] = << >>
                         /\ tomb[c] = {} /\ HandSeqs(hand[c]) = {}
  BY DEF Init, Idle, HandSeqs
<1>2. ToSet(<< >>) = {} /\ log = << >> /\ channel = << >> /\ DOMAIN log = {} /\ DOMAIN channel = {}
  BY DEF ToSet, Init
<1>3. SeqsOf({}) = {} /\ OpsAt(log, {}) = {} /\ Inserted({}) = {} /\ Deleted({}) = {}
  BY DEF SeqsOf, OpsAt, Inserted, Deleted
<1>4. Stored = EmptyDoc
  <2>1. << >> \in Seq(Entry)
    OBVIOUS
  <2>2. QED
    BY <1>2, <2>1, ReplayAppends DEF Stored
<1>5. StoredShowsLog
  BY <1>2, <1>3, <1>4 DEF StoredShowsLog, EmptyDoc
<1>6. FannedIsShown
  BY HomesAssumption DEF Init, FannedIsShown
<1>7. UpIsReady /\ HandIsReady /\ ChannelIsReady /\ DownIsReady /\ SentIsPublished /\ LoggedIsPublished
  BY <1>1, <1>2, <1>3 DEF UpIsReady, HandIsReady, ChannelIsReady, DownIsReady, SentIsPublished, LoggedIsPublished
<1>8. ShownIsIssued /\ QueuedIsUnderWay
  BY <1>1, <1>2 DEF ShownIsIssued, QueuedIsUnderWay
<1>9. QED
  BY <1>5, <1>6, <1>7, <1>8 DEF Causes

\* What a handler stores the table can replay.
LEMMA PersistIsApplicable ==
    ASSUME PipelineTypeOK, HandsHoldSeqs, Causes, NEW c \in Clients, Persist(c)
    PROVE  Applicable(Stored, Head(up[c]).op)
<1> DEFINE op == Head(up[c]).op
<1>1. up[c] # << >> /\ up[c] \in Seq(Message) /\ hand[c].stage = "idle"
  BY BookTypes DEF Persist
<1>2. op \in Operation
  BY PersistIs DEF Message
<1>3. 1 \in DOMAIN up[c] /\ up[c][1].op = op /\ Before(up[c], 1) = {}
  BY <1>1, BeforeTail
<1> HIDE DEF op
<1>4. OpsOf({}) = {} /\ HandSeqs(hand[c]) = {}
  BY <1>1 DEF OpsOf, HandSeqs
<1>5. Ready(op, Inserted(OpsAt(log, ToSet(channel))))
  BY <1>3, <1>4 DEF Causes, UpIsReady
<1>6. ToSet(channel) \subseteq DOMAIN log
  BY SeqParts DEF ToSet
<1>7. Inserted(OpsAt(log, ToSet(channel))) \subseteq ToSet(Stored.list)
  BY <1>6 DEF Causes, StoredShowsLog, Inserted, OpsAt
<1>8. Ready(op, ToSet(Stored.list))
  BY <1>5, <1>7, ReadyMore
<1>9. QED
  BY <1>2, <1>8, StoredIs, ReadyApplies DEF op

\* The table replays without a gap, as a statement about a sequence of rows.
CausalRows(rows) == \A i \in DOMAIN rows : Applicable(ReplayOf(SubSeq(rows, 1, i - 1)), rows[i].op)

\* LogIsCausal with the operations before a row named.
LEMMA LogIsCausalIs ==
    /\ LogIsCausal <=> (faults = 0 => CausalRows(log))
    /\ LogIsCausal' <=> (faults' = 0 => CausalRows(log'))
<1>1. LogIsCausal <=> (faults = 0 => CausalRows(log))
  BY Zenon DEF LogIsCausal, CausalRows
<1>2. LogIsCausal' <=> (faults' = 0 => CausalRows(log'))
  BY Zenon DEF LogIsCausal, CausalRows, ReplayOf, FoldLeft, MapThenFoldSet
<1>3. QED
  BY <1>1, <1>2

\* A causal table stays causal when what its last row rests on is in it.
LEMMA CausalRowsGrow ==
    ASSUME NEW rows \in Seq(Entry), NEW e \in Entry, CausalRows(rows), Applicable(ReplayOf(rows), e.op)
    PROVE  CausalRows(Append(rows, e))
<1> DEFINE more == Append(rows, e)
<1>1. /\ more \in Seq(Entry) /\ DOMAIN more = 1..(Len(rows) + 1) /\ DOMAIN rows = 1..Len(rows) /\ Len(rows) \in Nat
      /\ more[Len(rows) + 1] = e /\ \A i \in DOMAIN rows : more[i] = rows[i]
  OBVIOUS
<1>2. \A i \in DOMAIN rows : SubSeq(more, 1, i - 1) = SubSeq(rows, 1, i - 1)
  BY <1>1
<1>3. SubSeq(more, 1, Len(rows)) = rows
  BY <1>1
<1> HIDE DEF more
<1>4. \A i \in DOMAIN rows : Applicable(ReplayOf(SubSeq(more, 1, i - 1)), more[i].op)
  BY <1>1, <1>2 DEF CausalRows
<1>5. (Len(rows) + 1) - 1 = Len(rows)
  BY <1>1
<1>6. Applicable(ReplayOf(SubSeq(more, 1, (Len(rows) + 1) - 1)), more[Len(rows) + 1].op)
  BY <1>1, <1>3, <1>5
<1>7. QED
  BY <1>1, <1>4, <1>6 DEF CausalRows, more

\* A step of nothing the causes speak of keeps them.
LEMMA NothingKeepsCauses ==
    ASSUME PipelineTypeOK, Causes,
           UNCHANGED <<home, list, tomb, queue, log, channel, fanned, hand, up, down>>
    PROVE  Causes'
<1>1. UpIsReady' /\ HandIsReady' /\ ChannelIsReady' /\ ShownIsIssued' /\ LoggedIsPublished'
  BY DEF Causes, UpIsReady, HandIsReady, ChannelIsReady, ShownIsIssued, LoggedIsPublished
<1>2. DownIsReady' /\ SentIsPublished' /\ QueuedIsUnderWay'
  BY DEF Causes, DownIsReady, SentIsPublished, QueuedIsUnderWay
<1>3. FannedIsShown'
  <2>1. \A d \in Clients : doc(d)' = doc(d)
    BY DEF doc
  <2>2. QED
    BY <2>1 DEF Causes, FannedIsShown
<1>4. StoredShowsLog'
  <2>1. Stored' = Stored
    BY StoredIs
  <2>2. QED
    BY <2>1 DEF Causes, StoredShowsLog
<1>5. QED
  BY <1>1, <1>2, <1>3, <1>4 DEF Causes

\* While no handler fails, every step keeps causes before effects.
LEMMA NextKeepsCausal == IInv /\ Books /\ Causal /\ LogIsCausal /\ [Next]_vars => Causal' /\ LogIsCausal'
<1> SUFFICES ASSUME IInv, Books, Causal, LogIsCausal, [Next]_vars, faults' = 0
             PROVE  Causes' /\ CausalRows(log')
  BY LogIsCausalIs DEF Causal
<1>0. PipelineTypeOK /\ HandsHoldSeqs /\ TypedLater /\ faults \in Nat
  BY BoundsAssumption DEF IInv, PipelineTypeOK
<1>1. \A c \in Clients : ~Refuse(c) /\ ~FailToPublish(c)
  BY <1>0 DEF Refuse, FailToPublish
<1>2. faults = 0
  BY <1>1 DEF Next, Type, LocalInsert, LocalDelete, LocalDeleteNothing, Handle, Persist, Publish, Acknowledge,
     Receive, ReceiveAck, ReceiveBroadcast, FanOut, Rest, vars, serverVars
<1>3. Causes /\ CausalRows(log)
  BY <1>2, LogIsCausalIs DEF Causal
<1>4. CASE \E c \in Clients : Persist(c)
  <2>1. PICK c \in Clients : Persist(c)
    BY <1>4
  <2>2. Causes'
    BY <1>0, <1>3, <2>1, PersistKeepsCauses
  <2> DEFINE e == [client |-> c, clientSeq |-> Head(up[c]).clientSeq, op |-> Head(up[c]).op]
  <2>3. e \in Entry /\ log' = Append(log, e) /\ e.op = Head(up[c]).op /\ log \in Seq(Entry)
    BY <1>0, <2>1, PersistIs, BookTypes
  <2> HIDE DEF e
  <2>4. Applicable(ReplayOf(log), e.op)
    BY <1>0, <1>3, <2>1, <2>3, PersistIsApplicable DEF Stored
  <2>5. QED
    BY <1>3, <2>2, <2>3, <2>4, CausalRowsGrow
<1>5. CASE ~\E c \in Clients : Persist(c)
  <2>1. log' = log
    BY <1>5 DEF Next, Type, LocalInsert, LocalDelete, LocalDeleteNothing, Handle, Publish, Acknowledge,
       Receive, ReceiveAck, ReceiveBroadcast, Refuse, FailToPublish, FanOut, Rest, vars, serverVars
  <2>2. ASSUME NEW c \in Clients, Type(c) PROVE Causes'
    <3>1. CASE LocalInsert(c)
      BY <1>0, <1>3, <3>1, LocalInsertKeepsCauses
    <3>2. CASE LocalDelete(c)
      BY <1>0, <1>3, <3>2, LocalDeleteKeepsCauses
    <3>3. CASE LocalDeleteNothing(c)
      <4>1. UNCHANGED <<home, list, tomb, queue, log, channel, fanned, hand, up, down>>
        BY <3>3 DEF LocalDeleteNothing, serverVars
      <4>2. QED
        BY <1>0, <1>3, <4>1, NothingKeepsCauses
    <3>4. QED
      BY <2>2, <3>1, <3>2, <3>3 DEF Type
  <2>3. ASSUME NEW c \in Clients, Handle(c) PROVE Causes'
    BY <1>0, <1>3, <1>5, <2>3, PublishKeepsCauses, AcknowledgeKeepsCauses DEF Handle
  <2>4. ASSUME NEW c \in Clients, Receive(c) PROVE Causes'
    BY <1>0, <1>3, <2>4, ReceiveAckKeepsCauses, ReceiveBroadcastKeepsCauses DEF Receive
  <2>5. ASSUME NEW w \in Workers, FanOut(w) PROVE Causes'
    BY <1>0, <1>3, <2>5, FanOutKeepsCauses
  <2>6. CASE Rest \/ UNCHANGED vars
    <3>1. UNCHANGED <<home, list, tomb, queue, log, channel, fanned, hand, up, down>>
      BY <2>6 DEF Rest, vars, clientVars, serverVars
    <3>2. QED
      BY <1>0, <1>3, <3>1, NothingKeepsCauses
  <2>7. Causes'
    BY <1>1, <2>2, <2>3, <2>4, <2>5, <2>6 DEF Next
  <2>8. QED
    BY <1>3, <2>1, <2>7
<1>6. QED
  BY <1>4, <1>5

\* Causes come before effects in the table, on the channel and on the way to
\* every client.
THEOREM CausalInvariance == Spec => [](Causal /\ LogIsCausal)
<1>1. Init => Causal /\ LogIsCausal
  <2>1. ASSUME Init PROVE log = << >>
    BY <2>1 DEF Init
  <2>2. ASSUME Init PROVE LogIsCausal
    BY <2>1, <2>2 DEF LogIsCausal
  <2>3. QED
    BY InitCauses, <2>2 DEF Causal
<1>2. IInv /\ Books /\ Causal /\ LogIsCausal /\ [Next]_vars => Causal' /\ LogIsCausal'
  BY NextKeepsCausal
<1>3. QED
  BY <1>1, <1>2, PipelineInvariance, BooksInvariance, PTL DEF Spec

\* LogIsCausal: a row comes after the rows it rests on (operation-store.ts).
THEOREM TableIsCausal == Spec => []LogIsCausal
<1>1. QED
  BY CausalInvariance, PTL

\* ClientsSeeNoGap: a client's replica (client-rga.ts) never skips an operation.
THEOREM NoGapAtClients == Spec => []ClientsSeeNoGap
<1>1. IInv /\ Causal => ClientsSeeNoGap
  <2> SUFFICES ASSUME IInv, Causes, NEW c \in Clients, down[c] # << >>, Head(down[c]).type = "BROADCAST"
               PROVE  Applicable(doc(c), log[Head(down[c]).serverSeq].op)
    BY DEF ClientsSeeNoGap, Causal
  <2> DEFINE msg == Head(down[c])
             op == log[msg.serverSeq].op
  <2>1. PipelineTypeOK /\ down[c] \in Seq(ServerMessages(DOMAIN log))
    BY BookTypes DEF IInv
  <2>2. 1 \in DOMAIN down[c] /\ down[c][1] = msg /\ Before(down[c], 1) = {}
    BY <2>1, BeforeTail
  <2>3. op \in Operation
    <3>1. msg \in ServerMessages(DOMAIN log)
      BY <2>1, HeadAndTail
    <3>2. msg.serverSeq \in DOMAIN log
      BY <3>1 DEF ServerMessages
    <3>3. QED
      BY <2>1, <3>2, BookTypes DEF Entry
  <2>4. SeqsOf({}) = {} /\ OpsAt(log, {}) = {} /\ Inserted({}) = {}
    BY DEF SeqsOf, OpsAt, Inserted
  <2>5. Ready(op, ToSet(list[c]))
    BY <2>2, <2>4 DEF Causes, DownIsReady
  <2>6. doc(c) \in Docs /\ doc(c).list = list[c]
    BY <2>1, TypeParts DEF Docs, Doc, doc
  <2> HIDE DEF op
  <2>7. Applicable(doc(c), op)
    BY <2>3, <2>5, <2>6, ReadyApplies
  <2>8. QED
    BY <2>7 DEF op
<1>2. QED
  BY <1>1, PipelineInvariance, CausalInvariance, PTL

-----------------------------------------------------------------------------
(* Convergence.                                                            *)

\* What LiveEditing's documents inherit from the replicated document.
LEMMA ReplicatedSpec ==
    ASSUME NamedBySite
    PROVE  Spec => Replicated!Spec
<1>1. Document!Init => Replicated!Init
  BY InitIsReplicated
<1>2. [Document!Next]_Document!vars => [Replicated!Next]_Replicated!vars
  BY StepIsReplicated
<1>3. QED
  BY <1>1, <1>2, PipelineImplementsDocument, PTL DEF ImplementsDocument, Document!Spec, Replicated!Spec

\* The constants of the replicated document are as it assumes.
LEMMA ReplicatedAssumptions == Replicated!SitesAssumption /\ Replicated!MaxClockAssumption
BY ClientsAssumption, BoundsAssumption DEF Replicated!SitesAssumption, Replicated!MaxClockAssumption

\* Whoever shows the same characters shows them in the same order: two clients,
\* or a client and a server that loads the table.
SameTextSameOrder ==
    /\ \A c, d \in Clients : ToSet(list[c]) = ToSet(list[d]) => list[c] = list[d]
    /\ \A c \in Clients : ToSet(list[c]) = ToSet(Stored.list) => list[c] = Stored.list

\* Convergence of the replicas, in the variables of the pipeline.
LEMMA ConvergenceIs == PipelineTypeOK /\ Replicated!Convergence => SameTextSameOrder
<1> SUFFICES ASSUME PipelineTypeOK, Replicated!Convergence PROVE SameTextSameOrder
  OBVIOUS
<1>1. \A s : Replicated!ToSet(s) = ToSet(s)
  BY Zenon DEF Replicated!ToSet, ToSet
<1>2. \A r, s \in DocumentCopies : ToSet(CopyLists[r]) = ToSet(CopyLists[s]) => CopyLists[r] = CopyLists[s]
  BY <1>1 DEF Replicated!Convergence, CopyLists, DocumentCopies
<1>3. \A c \in Clients : c \in DocumentCopies /\ CopyLists[c] = list[c]
  BY CopiesAre DEF DocumentCopies
<1>4. Server \in DocumentCopies /\ CopyLists[Server] = Stored.list
  BY CopiesAre DEF DocumentCopies
<1>5. QED
  BY <1>2, <1>3, <1>4 DEF SameTextSameOrder

\* Whatever is delayed, skipped, refused or lost, clients whose editors hold the
\* same characters hold them in the same order, and so does a server that loads
\* the table (placeElement, loadDocument).
THEOREM PipelineConverges ==
    ASSUME NamedBySite
    PROVE  Spec => []SameTextSameOrder
<1>1. Spec => []Replicated!Convergence
  BY ReplicatedSpec, ReplicatedAssumptions, Replicated!ReplicasConverge, PTL
<1>2. IInv => PipelineTypeOK
  BY DEF IInv
<1>3. QED
  BY <1>1, <1>2, ConvergenceIs, PipelineInvariance, PTL

\* When nothing is under way, everybody has everything and nothing is queued.
LEMMA QuietMeansDelivered ==
    ASSUME IInv, Causes, Quiet, NEW c \in Clients
    PROVE  /\ ToSet(list[c]) = ToSet(Stored.list) /\ tomb[c] = Stored.tomb
           /\ queue[c] = << >>
<1>0. PipelineTypeOK /\ HandsHoldSeqs
  BY DEF IInv
<1>1. /\ \A d \in Clients : up[d] = << >> /\ down[d] = << >> /\ HandSeqs(hand[d]) = {} /\ hand[d].stage = "idle"
      /\ fanned[home[c]] = Len(channel)
  BY <1>0, SeqParts DEF Quiet, Idle, HandSeqs
<1>2. ToSet(<< >>) = {} /\ OpsOf({}) = {} /\ SeqsOf({}) = {}
  BY DEF ToSet, OpsOf, SeqsOf
<1>3. ToSet(channel) = DOMAIN log
  <2>1. ToSet(channel) \subseteq DOMAIN log
    BY <1>0, SeqParts DEF ToSet
  <2>2. \A i \in DOMAIN log : log[i].client \in Clients
    BY <1>0, BookTypes DEF Entry
  <2>3. \A i \in DOMAIN log : i \in ToSet(channel)
    BY <1>1, <2>2 DEF Causes, LoggedIsPublished
  <2>4. QED
    BY <2>1, <2>3
<1> DEFINE ops == OpsAt(log, DOMAIN log)
<1>4. ToSet(Stored.list) = Inserted(ops) /\ Stored.tomb = Deleted(ops)
  BY DEF Causes, StoredShowsLog
<1>5. ToSet(list[c]) \subseteq Inserted(ops) /\ tomb[c] \subseteq Deleted(ops)
  <2>1. OpsAt(log, ToSet(channel) \cup HandSeqs(hand[c])) \cup OpsOf(ToSet(up[c])) = ops
    BY <1>1, <1>2, <1>3
  <2>2. QED
    BY <2>1 DEF Causes, ShownIsIssued
<1>6. \A i \in DOMAIN log : Shows(doc(c), log[i].op)
  <2> SUFFICES ASSUME NEW i \in DOMAIN log PROVE Shows(doc(c), log[i].op)
    OBVIOUS
  <2>1. PICK p \in DOMAIN channel : i = channel[p]
    BY <1>3 DEF ToSet
  <2>2. p \in 1..fanned[home[c]]
    BY <1>0, <1>1, SeqParts
  <2>3. QED
    BY <1>1, <1>2, <2>1, <2>2 DEF Causes, FannedIsShown
<1>7. Inserted(ops) \subseteq ToSet(list[c]) /\ Deleted(ops) \subseteq tomb[c]
  BY <1>6 DEF Inserted, Deleted, OpsAt, Shows, Holds, doc
<1>8. queue[c] = << >>
  <2>1. ToSet(queue[c]) = {}
    BY <1>1, <1>2 DEF Causes, QueuedIsUnderWay
  <2>2. queue[c] \in Seq(Message)
    BY <1>0, BookTypes
  <2>3. queue[c] # << >> => Head(queue[c]) \in ToSet(queue[c])
    BY <2>2, HeadAndTail
  <2>4. QED
    BY <2>1, <2>3
<1>9. QED
  BY <1>4, <1>5, <1>7, <1>8

\* QuietMeansConverged: once sessions, channel, sockets and handlers are empty and
\* no handler failed, every editor shows the document the table replays to.
THEOREM QuietIsConverged ==
    ASSUME NamedBySite
    PROVE  Spec => []QuietMeansConverged
<1>1. IInv /\ Causal /\ SameTextSameOrder => QuietMeansConverged
  <2> SUFFICES ASSUME IInv, Causes, SameTextSameOrder, Quiet, NEW c \in Clients
               PROVE  doc(c) = Stored /\ queue[c] = << >>
    BY DEF QuietMeansConverged, Causal
  <2>1. ToSet(list[c]) = ToSet(Stored.list) /\ tomb[c] = Stored.tomb /\ queue[c] = << >>
    BY QuietMeansDelivered
  <2>2. list[c] = Stored.list
    BY <2>1 DEF SameTextSameOrder
  <2>3. Stored = [list |-> Stored.list, tomb |-> Stored.tomb]
    BY CopiesAre DEF IInv
  <2>4. QED
    BY <2>1, <2>2, <2>3 DEF doc
<1>2. QED
  BY <1>1, PipelineInvariance, CausalInvariance, PipelineConverges, PTL

----------------------------------------------------------------------------
(* No UID twice.                                                            *)

\* A keystroke as UidsUnique names it: who typed it, its number, what it did.
Typed ==
    ToSet(log) \cup
        UNION {{[client |-> c, clientSeq |-> m.clientSeq, op |-> m.op] : m \in ToSet(queue[c])} : c \in Clients}

TypedInsert(t) == t.op.type = "INSERT"

\* No two clients are tabs of one browser: useCollaborativeDoc.ts takes the
\* client id from localStorage.
OwnBrowsers == \A c, d \in Clients : SiteOf[c] = SiteOf[d] => c = d

\* Insertions carry the site of the browser they were typed in and a clock it
\* has reached, and no two of them carry the same.
UidsInv ==
    /\ \A t \in Typed : TypedInsert(t) => t.op.uid.site = SiteOf[t.client] /\ t.op.uid.clock <= clock[t.client]
    /\ \A t, v \in Typed : TypedInsert(t) /\ TypedInsert(v) /\ t.op.uid = v.op.uid => t = v

\* Typed, message by message.
LEMMA TypedIs ==
    /\ \A t : t \in Typed <=>
          \/ t \in ToSet(log)
          \/ \E c \in Clients : \E m \in ToSet(queue[c]) : t = [client |-> c, clientSeq |-> m.clientSeq, op |-> m.op]
    /\ \A t : t \in Typed' <=>
          \/ t \in ToSet(log')
          \/ \E c \in Clients : \E m \in ToSet(queue'[c]) : t = [client |-> c, clientSeq |-> m.clientSeq, op |-> m.op]
BY DEF Typed

\* What was typed is typed well.
LEMMA TypedTypes == PipelineTypeOK => \A t \in Typed : t \in Entry
<1> SUFFICES ASSUME PipelineTypeOK, NEW t \in Typed PROVE t \in Entry
  OBVIOUS
<1>1. CASE t \in ToSet(log)
  BY <1>1, BookTypes DEF ToSet
<1>2. CASE \E c \in Clients : \E m \in ToSet(queue[c]) : t = [client |-> c, clientSeq |-> m.clientSeq, op |-> m.op]
  BY <1>2, BookTypes DEF Entry, Message
<1>3. QED
  BY <1>1, <1>2, TypedIs

\* Nothing new is typed.
LEMMA UidsStay ==
    ASSUME PipelineTypeOK, UidsInv, Typed' \subseteq Typed,
           \A c \in Clients : clock'[c] \in Nat /\ clock[c] <= clock'[c]
    PROVE  UidsInv'
<1>1. \A t \in Typed : t.client \in Clients /\ (TypedInsert(t) => t.op.uid.clock \in Nat)
  BY TypedTypes DEF Entry, Operation, Uids, UID, TypedInsert
<1>2. \A c \in Clients : clock[c] \in Nat
  BY DEF PipelineTypeOK
<1>3. ASSUME NEW t \in Typed', TypedInsert(t)
      PROVE  t.op.uid.site = SiteOf[t.client] /\ t.op.uid.clock <= clock'[t.client]
  BY <1>1, <1>2, <1>3 DEF UidsInv
<1>4. QED
  BY <1>3 DEF UidsInv, TypedInsert

\* A keystroke is new, and an insertion has a clock its site has not had.
LEMMA TypingKeepsUids ==
    ASSUME OwnBrowsers, PipelineTypeOK, UidsInv, NEW c \in Clients, NEW op \in Operation, Submit(c, op), log' = log,
           \A d \in Clients : clock'[d] \in Nat /\ clock[d] <= clock'[d],
           op.type = "INSERT" => op.uid = [clock |-> clock[c] + 1, site |-> SiteOf[c]] /\ clock'[c] = clock[c] + 1
    PROVE  UidsInv'
<1> DEFINE new == [client |-> c, clientSeq |-> clientSeq[c] + 1, op |-> op]
           msg == [clientSeq |-> clientSeq[c] + 1, op |-> op]
<1>1. /\ ToSet(queue'[c]) = ToSet(queue[c]) \cup {msg} /\ \A d \in Clients : d # c => queue'[d] = queue[d]
      /\ new = [client |-> c, clientSeq |-> msg.clientSeq, op |-> msg.op]
      /\ new.client = c /\ new.op = op
  BY SubmitEffect
<1> HIDE DEF new, msg
<1>2. \A t \in Typed' : t \in Typed \/ t = new
  <2> SUFFICES ASSUME NEW t \in Typed', t \notin Typed PROVE t = new
    OBVIOUS
  <2>1. PICK d \in Clients : \E m \in ToSet(queue'[d]) : t = [client |-> d, clientSeq |-> m.clientSeq, op |-> m.op]
    BY TypedIs
  <2>2. PICK m \in ToSet(queue'[d]) : t = [client |-> d, clientSeq |-> m.clientSeq, op |-> m.op]
    BY <2>1
  <2>3. m \notin ToSet(queue[d])
    BY <2>2, TypedIs
  <2>4. d = c /\ m = msg
    BY <1>1, <2>2, <2>3
  <2>5. QED
    BY <1>1, <2>2, <2>4
<1>3. \A t \in Typed : t.client \in Clients /\ (TypedInsert(t) => t.op.uid.clock \in Nat)
  BY TypedTypes DEF Entry, Operation, Uids, UID, TypedInsert
<1>4. \A d \in Clients : clock[d] \in Nat
  BY DEF PipelineTypeOK
<1>5. TypedInsert(new) => /\ new.op.uid.site = SiteOf[c] /\ new.op.uid.clock = clock[c] + 1
                          /\ new.op.uid.clock = clock'[c]
  BY <1>1 DEF TypedInsert
<1>6. ASSUME NEW t \in Typed, TypedInsert(t), TypedInsert(new) PROVE t.op.uid # new.op.uid
  <2>1. t.op.uid.site = SiteOf[t.client] /\ t.op.uid.clock <= clock[t.client] /\ t.client \in Clients
    BY <1>3, <1>6 DEF UidsInv
  <2>2. new.op.uid.site = SiteOf[c] /\ new.op.uid.clock = clock[c] + 1
    BY <1>5, <1>6
  <2>3. QED
    BY <1>3, <1>4, <1>6, <2>1, <2>2 DEF OwnBrowsers
<1>7. ASSUME NEW t \in Typed', TypedInsert(t)
      PROVE  t.op.uid.site = SiteOf[t.client] /\ t.op.uid.clock <= clock'[t.client]
  <2>1. CASE t \in Typed
    BY <1>3, <1>4, <1>7, <2>1 DEF UidsInv
  <2>2. CASE t = new
    BY <1>1, <1>4, <1>5, <1>7, <2>2
  <2>3. QED
    BY <1>2, <2>1, <2>2
<1>8. ASSUME NEW t \in Typed', NEW v \in Typed', TypedInsert(t), TypedInsert(v), t.op.uid = v.op.uid
      PROVE  t = v
  BY <1>2, <1>6, <1>8 DEF UidsInv
<1>9. QED
  BY <1>7, <1>8 DEF UidsInv, TypedInsert

\* Every step draws UIDs that no site had.
LEMMA NextKeepsUids ==
    ASSUME OwnBrowsers, IInv, IInv', Books, UidsInv, [Next]_vars
    PROVE  UidsInv'
<1>0. PipelineTypeOK /\ PipelineTypeOK' /\ \A d \in Clients : clock'[d] \in Nat /\ clock[d] \in Nat
  BY DEF IInv, PipelineTypeOK
<1>1. ASSUME NEW c \in Clients, LocalInsert(c) PROVE UidsInv'
  <2> DEFINE u == [clock |-> clock[c] + 1, site |-> SiteOf[c]]
  <2>1. PICK a \in {Root} \cup VisibleUids(doc(c)) :
            /\ InsertOp(u, a) \in Operation /\ Submit(c, InsertOp(u, a))
            /\ clock' = [clock EXCEPT ![c] = clock[c] + 1]
    BY <1>0, <1>1, LocalInsertIs
  <2> HIDE DEF u
  <2> DEFINE op == InsertOp(u, a)
  <2>2. op \in Operation /\ Submit(c, op) /\ op.uid = u
    BY <2>1 DEF InsertOp
  <2> HIDE DEF op
  <2>3. clock'[c] = clock[c] + 1 /\ \A d \in Clients : clock[d] <= clock'[d]
    <3>1. clock'[c] = clock[c] + 1 /\ \A d \in Clients : d # c => clock'[d] = clock[d]
      BY <1>0, <2>1 DEF PipelineTypeOK
    <3>2. QED
      BY <1>0, <3>1
  <2>4. log' = log
    BY <1>1 DEF LocalInsert, serverVars
  <2>5. QED
    BY <1>0, <2>2, <2>3, <2>4, TypingKeepsUids DEF u
<1>2. ASSUME NEW c \in Clients, LocalDelete(c) PROVE UidsInv'
  <2>1. PICK x \in VisibleUids(doc(c)) : Submit(c, DeleteOp(x))
    BY <1>2 DEF LocalDelete
  <2>2. x \in Uids
    BY <1>0, TypeParts
  <2> DEFINE op == DeleteOp(x)
  <2>3. op \in Operation /\ Submit(c, op) /\ op.type = "DELETE"
    BY <2>1, <2>2 DEF DeleteOp, Operation, Uids
  <2> HIDE DEF op
  <2>4. log' = log /\ \A d \in Clients : clock[d] <= clock'[d]
    BY <1>0, <1>2 DEF LocalDelete, serverVars
  <2>5. QED
    BY <1>0, <2>3, <2>4, TypingKeepsUids
<1>3. ASSUME NEW c \in Clients, Persist(c) PROVE UidsInv'
  <2> DEFINE msg == Head(up[c])
             row == [client |-> c, clientSeq |-> msg.clientSeq, op |-> msg.op]
  <2>1. /\ msg \in ToSet(up[c]) /\ DOMAIN log' = 1..(Len(log) + 1)
        /\ log'[Len(log) + 1] = row /\ \A i \in DOMAIN log : log'[i] = log[i]
    BY <1>0, <1>3, PersistIs
  <2>2. queue' = queue /\ clock' = clock
    BY <1>3 DEF Persist, clientVars
  <2>3. row \in Typed
    BY <2>1, TypedIs DEF Books, SentIsQueued
  <2> HIDE DEF row, msg
  <2>4. DOMAIN log = 1..Len(log) /\ Len(log) \in Nat
    BY <1>0, BookTypes
  <2>5. ToSet(log') \subseteq ToSet(log) \cup {row}
    BY <2>1, <2>4 DEF ToSet
  <2>6. Typed' \subseteq Typed
    BY <2>2, <2>3, <2>5, TypedIs
  <2>7. QED
    BY <1>0, <2>2, <2>6, UidsStay
<1>4. ASSUME NEW c \in Clients, ReceiveAck(c) PROVE UidsInv'
  <2>1. \A d \in Clients : ToSet(queue'[d]) \subseteq ToSet(queue[d])
    <3>1. queue'[c] = Without(queue[c], Head(down[c]).clientSeq) /\ \A d \in Clients : d # c => queue'[d] = queue[d]
      BY <1>0, <1>4 DEF ReceiveAck, PipelineTypeOK
    <3>2. ToSet(queue'[c]) \subseteq ToSet(queue[c])
      <4>1. queue[c] \in Seq(Message)
        BY <1>0, BookTypes
      <4>2. QED
        BY <3>1, <4>1, WithoutKeepsOthers
    <3>3. QED
      BY <3>1, <3>2
  <2>2. log' = log /\ clock' = clock
    BY <1>4 DEF ReceiveAck, serverVars
  <2>3. Typed' \subseteq Typed
    BY <2>1, <2>2, TypedIs
  <2>4. QED
    BY <1>0, <2>2, <2>3, UidsStay
<1>5. ASSUME NEW c \in Clients, ReceiveBroadcast(c) PROVE UidsInv'
  <2> DEFINE op == log[Head(down[c]).serverSeq].op
  <2>1. /\ op \in Operation /\ clock'[c] = ClockAfter(c, op)
        /\ \A d \in Clients : d # c => clock'[d] = clock[d]
    BY <1>0, <1>5, ReceiveBroadcastIs
  <2> HIDE DEF op
  <2>2. clock[c] <= ClockAfter(c, op)
    BY <1>0, <2>1 DEF ClockAfter, LaterOf, Operation, UID
  <2>3. \A d \in Clients : clock[d] <= clock'[d]
    BY <1>0, <2>1, <2>2
  <2>4. log' = log /\ queue' = queue
    BY <1>5 DEF ReceiveBroadcast, serverVars
  <2>5. Typed' \subseteq Typed
    BY <2>4, TypedIs
  <2>6. QED
    BY <1>0, <2>3, <2>5, UidsStay
<1>6. CASE UNCHANGED <<log, queue, clock>>
  <2>1. Typed' \subseteq Typed
    BY <1>6, TypedIs
  <2>2. QED
    BY <1>0, <1>6, <2>1, UidsStay
<1>7. QED
  BY <1>1, <1>2, <1>3, <1>4, <1>5, <1>6
     DEF Next, Type, LocalDeleteNothing, Handle, Publish, Acknowledge, Receive, Refuse, FailToPublish,
         FanOut, Rest, vars, clientVars, serverVars

\* UidsUnique: with a browser of its own for every client, no two keystrokes
\* share a UID (src/crdt/uid.ts), however operations and echoes interleave.
THEOREM NoUidTwice ==
    ASSUME OwnBrowsers
    PROVE  Spec => []UidsUnique
<1>1. Init => UidsInv
  <2> SUFFICES ASSUME Init PROVE UidsInv
    OBVIOUS
  <2>1. ToSet(log) = {} /\ \A c \in Clients : ToSet(queue[c]) = {}
    BY DEF Init, ToSet
  <2>2. Typed = {}
    BY <2>1, TypedIs
  <2>3. QED
    BY <2>2 DEF UidsInv
<1>2. IInv /\ IInv' /\ Books /\ UidsInv /\ [Next]_vars => UidsInv'
  BY NextKeepsUids
<1>3. UidsInv => UidsUnique
  BY DEF UidsInv, UidsUnique, Typed, TypedInsert
<1>4. QED
  BY <1>1, <1>2, <1>3, PipelineInvariance, BooksInvariance, PTL DEF Spec
=============================================================================
