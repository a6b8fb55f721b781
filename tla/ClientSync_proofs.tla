-------------------------- MODULE ClientSync_proofs --------------------------
(***************************************************************************)
(* Proofs about ClientSync: for any number of editors, connections lost,   *)
(* operations sent again and handlers that fail, the state is of its type; *)
(* an operation is stored once, unless its nonce was forgotten; what the   *)
(* offline queue still holds, or lets go of, is stored when it should be;  *)
(* and who got all nodes in JOIN_ACK comes to show the document.           *)
(***************************************************************************)
EXTENDS ClientSync, RGA_proofs

----------------------------------------------------------------------------
(* Types. *)

\* Sequences of a set are sequences of a greater one.
LEMMA SeqsGrow == ASSUME NEW A, NEW B, A \subseteq B PROVE Seq(A) \subseteq Seq(B)
OBVIOUS

\* With the table grows what may be said of it (seqs and their bounds).
LEMMA TypesGrow ==
    ASSUME log \in Seq(Message), log' \in Seq(Message), Len(log) <= Len(log')
    PROVE  /\ 0..Len(log) \subseteq 0..Len(log') /\ DOMAIN log \subseteq DOMAIN log'
           /\ ServerMessage \subseteq ServerMessage' /\ Hand \subseteq Hand'
           /\ Connection \subseteq Connection'
<1>1. 0..Len(log) \subseteq 0..Len(log') /\ DOMAIN log \subseteq DOMAIN log'
  <2> HIDE DEF Message
  <2>1. QED
    OBVIOUS
<1>2. ServerMessage \subseteq ServerMessage'
  BY <1>1 DEF ServerMessage, Document
<1>3. Hand \subseteq Hand'
  BY <1>1 DEF Hand, Message, Operation, Nonce
<1>4. Seq(ServerMessage) \subseteq Seq(ServerMessage')
  BY <1>2, SeqsGrow
<1>5. Connection \subseteq Connection'
  BY <1>1, <1>3, <1>4 DEF Connection
<1>6. QED
  BY <1>1, <1>2, <1>3, <1>5

\* The parts of a connection.
LEMMA ConnectionParts ==
    ASSUME NEW x \in Connection
    PROVE  /\ x.client \in Clients /\ x.socket \in {"open", "closing", "gone"}
           /\ x.stage \in {"join", "missed", "registered", "live"}
           /\ x.since \in 0..Len(log) /\ x.upto \in 0..Len(log) /\ x.whole \in BOOLEAN
           /\ x.inbox \in Seq(Message) /\ x.out \in Seq(ServerMessage) /\ x.hand \in Hand
           /\ x = [client |-> x.client, socket |-> x.socket, stage |-> x.stage,
                   since |-> x.since, upto |-> x.upto, whole |-> x.whole,
                   inbox |-> x.inbox, out |-> x.out, hand |-> x.hand]
           /\ DOMAIN x = {"client", "socket", "stage", "since", "upto", "whole", "inbox", "out", "hand"}
<1> DEFINE M == Seq(Message)
           S == Seq(ServerMessage)
<1>1. Connection = [client : Clients, socket : {"open", "closing", "gone"},
                    stage : {"join", "missed", "registered", "live"},
                    since : 0..Len(log), upto : 0..Len(log), whole : BOOLEAN,
                    inbox : M, out : S, hand : Hand]
  BY DEF Connection
<1> HIDE DEF M, S
<1>2. QED
  BY <1>1 DEF M, S

\* What the handler has in its hand.
LEMMA HandParts ==
    ASSUME NEW h \in Hand
    PROVE  /\ h.stage \in {"idle", "append", "publish", "acknowledge"}
           /\ h.stage = "idle" <=> h = Idle
           /\ h.stage # "idle" => h.msg \in Message
           /\ h.stage = "append" => h = [stage |-> "append", msg |-> h.msg, seq |-> 0]
           /\ h.stage \in {"publish", "acknowledge"} =>
                 h.seq \in DOMAIN log /\ h = [stage |-> h.stage, msg |-> h.msg, seq |-> h.seq]
BY DEF Hand, Idle

\* What goes to a socket is added to its messages, or dropped.
LEMMA ToldParts ==
    ASSUME NEW x \in Connection, NEW m \in ServerMessage
    PROVE  /\ Told(x, m) \in Connection
           /\ Told(x, m) = [x EXCEPT !.out = IF x.socket = "open" THEN Append(@, m) ELSE @]
<1>1. Append(x.out, m) \in Seq(ServerMessage)
  BY ConnectionParts, AppendElements
<1>2. Told(x, m) = [x EXCEPT !.out = IF x.socket = "open" THEN Append(@, m) ELSE @]
  <2>1. CASE x.socket = "open"
    BY <2>1 DEF Told
  <2>2. CASE x.socket # "open"
    <3>1. Told(x, m) = x
      BY <2>2 DEF Told
    <3>2. [x EXCEPT !.out = x.out] = x
      BY ConnectionParts
    <3>3. QED
      BY <2>2, <3>1, <3>2
  <2>3. QED
    BY <2>1, <2>2
<1>3. QED
  BY <1>1, <1>2 DEF Connection

\* A message is a record of its parts, and an operation one that Apply takes.
LEMMA MessageParts ==
    ASSUME NEW msg \in Message
    PROVE  msg.clientSeq \in Nat /\ msg.nonce \in Nonce /\ msg.op \in Operation
BY DEF Message

\* Applying an operation leaves a document of the clients' UIDs one.
LEMMA OperationsStay == ApplyStaysIn(Document, Operation)
<1> SUFFICES ASSUME NEW d \in Document, NEW op \in Operation PROVE Apply(d, op) \in Document
  BY DEF ApplyStaysIn
<1>1. /\ d = [list |-> d.list, tomb |-> d.tomb] /\ d.list \in Seq(Uids) /\ d.tomb \in SUBSET Uids
      /\ op.uid \in Uids
      /\ (op.type = "INSERT" /\ op.after \in Uids \cup {Root}) \/ op.type = "DELETE"
  BY DEF Document, Operation
<1>2. /\ Apply(d, op).list \in Seq(Uids) /\ Apply(d, op).tomb \in SUBSET Uids
      /\ Apply(d, op) = [list |-> Apply(d, op).list, tomb |-> Apply(d, op).tomb]
  <2>1. CASE op.type = "INSERT"
    <3>1. Apply(d, op).list \in Seq(Uids) /\ Apply(d, op).tomb = d.tomb
      BY <1>1, <2>1, ApplyElements
    <3>2. QED
      BY <1>1, <3>1, ApplyRecord
  <2>2. CASE op.type = "DELETE"
    <3>1. Apply(d, op) = IF Holds(d.list, op.uid) THEN [d EXCEPT !.tomb = @ \cup {op.uid}] ELSE d
      BY <2>2 DEF Apply, ApplyDelete
    <3>2. QED
      BY <1>1, <3>1
  <2>3. QED
    BY <1>1, <2>1, <2>2
<1>3. QED
  BY <1>2 DEF Document

\* A record with a connection's fields is one.
LEMMA ConnectionOf ==
    ASSUME NEW x \in Connection, NEW r, DOMAIN r = DOMAIN x, r = [f \in DOMAIN x |-> r[f]],
           r.client \in Clients, r.socket \in {"open", "closing", "gone"},
           r.stage \in {"join", "missed", "registered", "live"},
           r.since \in 0..Len(log), r.upto \in 0..Len(log), r.whole \in BOOLEAN,
           r.inbox \in Seq(Message), r.out \in Seq(ServerMessage), r.hand \in Hand
    PROVE  r \in Connection
<1> DEFINE M == Seq(Message)
           S == Seq(ServerMessage)
           L == 0..Len(log)
<1>1. DOMAIN r = {"client", "socket", "stage", "since", "upto", "whole", "inbox", "out", "hand"}
  BY ConnectionParts
<1>2. Connection = [client : Clients, socket : {"open", "closing", "gone"},
                    stage : {"join", "missed", "registered", "live"},
                    since : L, upto : L, whole : BOOLEAN, inbox : M, out : S, hand : Hand]
  BY DEF Connection
<1>3. r.since \in L /\ r.upto \in L /\ r.inbox \in M /\ r.out \in S
  OBVIOUS
<1> HIDE DEF M, S, L
<1>4. r = [client |-> r.client, socket |-> r.socket, stage |-> r.stage,
           since |-> r.since, upto |-> r.upto, whole |-> r.whole,
           inbox |-> r.inbox, out |-> r.out, hand |-> r.hand]
  BY <1>1
<1>5. QED
  BY <1>2, <1>3, <1>4

\* One element of a sequence becomes another.
LEMMA SeqExcept ==
    ASSUME NEW C, NEW D, C \subseteq D, NEW s \in Seq(C), NEW k, NEW r,
           k \in DOMAIN s => r \in D
    PROVE  LET t == [s EXCEPT ![k] = r]
           IN /\ t \in Seq(D) /\ Len(t) = Len(s) /\ DOMAIN t = DOMAIN s
              /\ \A l \in DOMAIN s : t[l] = IF l = k THEN r ELSE s[l]
<1> DEFINE t == [s EXCEPT ![k] = r]
<1>1. PICK n \in Nat : s \in [1..n -> C]
  OBVIOUS
<1>2. t \in [1..n -> D]
  BY <1>1
<1>3. \A l \in DOMAIN s : t[l] = IF l = k THEN r ELSE s[l]
  OBVIOUS
<1> HIDE DEF t
<1>4. t \in Seq(D) /\ Len(t) = n /\ Len(s) = n /\ DOMAIN t = DOMAIN s
  BY <1>1, <1>2
<1>5. QED
  BY <1>3, <1>4 DEF t

\* One connection becomes another record.
LEMMA OneTyped ==
    ASSUME connections \in Seq(Connection), Connection \subseteq Connection', NEW k, NEW r,
           k \in DOMAIN connections => r \in Connection',
           connections' = [connections EXCEPT ![k] = r]
    PROVE  /\ connections' \in Seq(Connection') /\ Len(connections') = Len(connections)
           /\ DOMAIN connections' = DOMAIN connections
           /\ \A l \in DOMAIN connections : connections'[l] = IF l = k THEN r ELSE connections[l]
<1> DEFINE C == Connection
           D == Connection'
<1>1. C \subseteq D /\ connections \in Seq(C) /\ (k \in DOMAIN connections => r \in D)
  OBVIOUS
<1> HIDE DEF C, D
<1>2. LET t == [connections EXCEPT ![k] = r]
      IN /\ t \in Seq(D) /\ Len(t) = Len(connections) /\ DOMAIN t = DOMAIN connections
         /\ \A l \in DOMAIN connections : t[l] = IF l = k THEN r ELSE connections[l]
  BY <1>1, SeqExcept
<1>3. QED
  BY <1>2, Zenon DEF D

\* What a step of the server has to give for the types to stay.
LEMMA ServerStepTypes ==
    ASSUME TypeOK, UNCHANGED clientVars,
           connections' \in Seq(Connection'), Len(connections') = Len(connections),
           log' \in Seq(Message), Len(log) <= Len(log'),
           channel' \in Seq(DOMAIN log'), fanned' \in 0..Len(channel'), memory' \in Document,
           nonces' \subseteq Nonce, expired' \subseteq Nonce, gap' \in BOOLEAN, failed' \in BOOLEAN,
           drops' \in 0..MaxDrops, incidents' \in 0..MaxIncidents
    PROVE  TypeOK'
<1>1. 0..Len(log) \subseteq 0..Len(log')
  BY TypesGrow DEF TypeOK
<1>2. /\ joined' = joined /\ gaveUp' = gaveUp /\ doc' = doc /\ clientSeq' = clientSeq
      /\ queue' = queue /\ lastSeq' = lastSeq /\ conn' = conn /\ typed' = typed
  BY DEF clientVars, pageVars
<1>3. lastSeq' \in [Clients -> 0..Len(log')]
  BY <1>1, <1>2 DEF TypeOK
<1>4. conn' \in [Clients -> 0..Len(connections')]
  BY <1>2 DEF TypeOK
<1>5. /\ joined' \in [Clients -> BOOLEAN] /\ gaveUp' \in [Clients -> BOOLEAN]
      /\ doc' \in [Clients -> Document] /\ clientSeq' \in [Clients -> Nat]
      /\ queue' \in [Clients -> Seq(Message)] /\ typed' \in [Clients -> 0..MaxEdits]
  BY <1>2 DEF TypeOK
<1>6. QED
  BY <1>3, <1>4, <1>5, Zenon DEF TypeOK

\* The same for a step of the editor, which leaves the table alone.
LEMMA ClientStepTypes ==
    ASSUME TypeOK, UNCHANGED serverVars,
           connections' \in Seq(Connection),
           joined' \in [Clients -> BOOLEAN], gaveUp' \in [Clients -> BOOLEAN],
           doc' \in [Clients -> Document], clientSeq' \in [Clients -> Nat],
           queue' \in [Clients -> Seq(Message)], lastSeq' \in [Clients -> 0..Len(log)],
           conn' \in [Clients -> 0..Len(connections')], typed' \in [Clients -> 0..MaxEdits],
           drops' \in 0..MaxDrops, incidents' \in 0..MaxIncidents
    PROVE  TypeOK'
<1>1. /\ memory' = memory /\ log' = log /\ channel' = channel /\ fanned' = fanned
      /\ nonces' = nonces /\ expired' = expired /\ gap' = gap /\ failed' = failed
  BY DEF serverVars, storeVars, guardVars
<1>2. Connection \subseteq Connection'
  BY <1>1, TypesGrow DEF TypeOK
<1>3. connections' \in Seq(Connection')
  BY <1>2, SeqsGrow
<1>4. QED
  BY <1>1, <1>3 DEF TypeOK

\* A step that only changes one connection on the server's end.
LEMMA ConnectionStepTypes ==
    ASSUME TypeOK, UNCHANGED <<clientVars, serverVars, boundVars>>,
           NEW k, NEW r \in Connection, connections' = [connections EXCEPT ![k] = r]
    PROVE  TypeOK'
<1>1. /\ memory' = memory /\ log' = log /\ channel' = channel /\ fanned' = fanned
      /\ nonces' = nonces /\ expired' = expired /\ gap' = gap /\ failed' = failed
      /\ drops' = drops /\ incidents' = incidents
  BY DEF serverVars, storeVars, guardVars, boundVars
<1>2. connections \in Seq(Connection) /\ log \in Seq(Message)
  BY DEF TypeOK
<1>3. Connection \subseteq Connection' /\ log' \in Seq(Message) /\ Len(log) <= Len(log')
  <2>1. log' \in Seq(Message) /\ Len(log) \in Nat /\ Len(log) = Len(log')
    BY <1>1, <1>2
  <2>2. Len(log) <= Len(log')
    BY <2>1
  <2>3. QED
    BY <1>2, <2>1, <2>2, TypesGrow
<1>4. connections' \in Seq(Connection') /\ Len(connections') = Len(connections)
  BY <1>2, <1>3, OneTyped
<1>5. /\ channel' \in Seq(DOMAIN log') /\ fanned' \in 0..Len(channel') /\ memory' \in Document
      /\ nonces' \subseteq Nonce /\ expired' \subseteq Nonce /\ gap' \in BOOLEAN /\ failed' \in BOOLEAN
      /\ drops' \in 0..MaxDrops /\ incidents' \in 0..MaxIncidents
  BY <1>1 DEF TypeOK
<1>6. QED
  BY <1>3, <1>4, <1>5, ServerStepTypes

\* The steps of a JOIN.
LEMMA JoiningTyped ==
    ASSUME TypeOK, NEW k \in DOMAIN connections, Joining(k) \/ RejectEarly(k)
    PROVE  TypeOK'
<1> DEFINE x == connections[k]
<1>1. x \in Connection /\ Len(log) \in Nat
  BY DEF TypeOK
<1>2. UNCHANGED <<clientVars, serverVars, boundVars>>
  BY DEF Joining, ReadMissed, Register, SendAck, RejectEarly
<1>3. ASSUME NEW r \in Connection, connections' = [connections EXCEPT ![k] = r]
      PROVE  TypeOK'
  BY <1>2, <1>3, ConnectionStepTypes
<1>4. CASE ReadMissed(k)
  <2> DEFINE r == [x EXCEPT !.stage = "missed", !.upto = Len(log)]
  <2>1. r \in Connection
    <3>1. Len(log) \in 0..Len(log)
      BY <1>1
    <3>2. DOMAIN r = DOMAIN x /\ r = [f \in DOMAIN x |-> r[f]]
      OBVIOUS
    <3>3. /\ r.stage = "missed" /\ r.upto = Len(log) /\ r.client = x.client /\ r.socket = x.socket
          /\ r.since = x.since /\ r.whole = x.whole /\ r.inbox = x.inbox /\ r.out = x.out
          /\ r.hand = x.hand
      BY <1>1, ConnectionParts
    <3> HIDE DEF r
    <3>4. QED
      BY <1>1, <3>1, <3>2, <3>3, ConnectionParts, ConnectionOf
  <2>2. connections' = [connections EXCEPT ![k] = r]
    BY <1>4 DEF ReadMissed
  <2> HIDE DEF r
  <2>3. QED
    BY <1>3, <2>1, <2>2
<1>5. CASE Register(k)
  <2> DEFINE r == [x EXCEPT !.stage = "registered"]
  <2>1. r \in Connection
    BY <1>1, ConnectionParts DEF Connection
  <2>2. connections' = [connections EXCEPT ![k] = r]
    BY <1>5 DEF Register
  <2> HIDE DEF r
  <2>3. QED
    BY <1>3, <2>1, <2>2
<1>6. CASE SendAck(k)
  <2> DEFINE whole == x.since = 0 \/ Oversized(Missed(x.since, x.upto))
             ack == IF whole THEN JoinAck(memory, 0, 0) ELSE JoinAck(EmptyDoc, x.since, x.upto)
             r == [Told(x, ack) EXCEPT !.stage = "live", !.whole = whole]
  <2>1. whole \in BOOLEAN
    OBVIOUS
  <2>2. memory \in Document /\ EmptyDoc \in Document /\ 0 \in 0..Len(log)
    BY <1>1 DEF TypeOK, EmptyDoc, Document
  <2> HIDE DEF whole
  <2>3. ack \in ServerMessage
    BY <1>1, <2>2, ConnectionParts DEF JoinAck, ServerMessage
  <2> HIDE DEF ack
  <2>4. Told(x, ack) \in Connection
    BY <1>1, <2>3, ToldParts
  <2>5. r \in Connection
    BY <2>1, <2>4, ConnectionParts DEF Connection
  <2>6. connections' = [connections EXCEPT ![k] = r]
    BY <1>6 DEF SendAck, whole, ack
  <2> HIDE DEF r
  <2>7. QED
    BY <1>3, <2>5, <2>6
<1>7. CASE RejectEarly(k)
  <2> DEFINE r == [Told(x, Close) EXCEPT !.inbox = Tail(@), !.socket = "closing"]
  <2>1. Close \in ServerMessage
    BY DEF ServerMessage
  <2>2. Told(x, Close) \in Connection /\ Told(x, Close).inbox = x.inbox
    <3>1. Told(x, Close) \in Connection
      BY <1>1, <2>1, ToldParts
    <3>2. Told(x, Close).inbox = x.inbox
      BY <1>1, ConnectionParts DEF Told
    <3>3. QED
      BY <3>1, <3>2
  <2>3. Tail(x.inbox) \in Seq(Message)
    BY <1>1, <1>7, ConnectionParts, HeadAndTail DEF RejectEarly
  <2>4. r \in Connection
    BY <2>2, <2>3, ConnectionParts DEF Connection
  <2>5. connections' = [connections EXCEPT ![k] = r]
    BY <1>7 DEF RejectEarly
  <2> HIDE DEF r
  <2>6. QED
    BY <1>3, <2>4, <2>5
<1>8. QED
  BY <1>4, <1>5, <1>6, <1>7 DEF Joining

\* A message that is worked on leaves the inbox.
LEMMA InboxParts ==
    ASSUME TypeOK, NEW k \in DOMAIN connections, connections[k].inbox # << >>
    PROVE  /\ connections[k] \in Connection
           /\ Head(connections[k].inbox) \in Message
           /\ Head(connections[k].inbox) \in ToSet(connections[k].inbox)
           /\ Tail(connections[k].inbox) \in Seq(Message)
           /\ ToSet(connections[k].inbox) =
                 {Head(connections[k].inbox)} \cup ToSet(Tail(connections[k].inbox))
<1>1. connections[k] \in Connection
  BY DEF TypeOK
<1>2. connections[k].inbox \in Seq(Message)
  BY <1>1, ConnectionParts
<1>3. QED
  BY <1>1, <1>2, HeadAndTail

\* isReplay's registration, with the operation applied in memory.
LEMMA TakeTyped ==
    ASSUME TypeOK, NEW k \in DOMAIN connections, Take(k)
    PROVE  TypeOK'
<1> DEFINE x == connections[k]
           msg == Head(x.inbox)
           hand == [Idle EXCEPT !.stage = "append", !.msg = msg]
           r == [x EXCEPT !.inbox = Tail(@), !.hand = hand]
<1>1. x.inbox # << >>
  BY DEF Take, Waiting
<1>2. x \in Connection /\ msg \in Message /\ Tail(x.inbox) \in Seq(Message)
  BY <1>1, InboxParts
<1>3. hand \in Hand
  BY <1>2 DEF Hand, Idle
<1>4. /\ connections' = [connections EXCEPT ![k] = r]
      /\ memory' = Apply(memory, msg.op) /\ nonces' = nonces \cup {msg.nonce}
      /\ gap' = (gap \/ ~Applicable(memory, msg.op))
      /\ UNCHANGED <<clientVars, log, channel, fanned, expired, failed, drops, incidents>>
  BY DEF Take, Accept, storeVars, boundVars
<1>5. r \in Connection
  <2> HIDE DEF msg, hand
  <2>1. QED
    BY <1>2, <1>3, ConnectionParts DEF Connection
<1>6. Connection \subseteq Connection' /\ log' \in Seq(Message) /\ Len(log) <= Len(log')
  <2>1. log \in Seq(Message) /\ log' \in Seq(Message) /\ Len(log) \in Nat /\ Len(log) = Len(log')
    BY <1>4 DEF TypeOK
  <2>2. Len(log) <= Len(log')
    BY <2>1
  <2>3. QED
    BY <2>1, <2>2, TypesGrow
<1>7. msg.op \in Operation /\ msg.nonce \in Nonce
  BY <1>2, MessageParts
<1> HIDE DEF r, msg
<1>8. connections' \in Seq(Connection') /\ Len(connections') = Len(connections)
  <2>1. connections \in Seq(Connection)
    BY DEF TypeOK
  <2>2. QED
    BY <1>4, <1>5, <1>6, <2>1, OneTyped
<1>9. memory' \in Document /\ nonces' \subseteq Nonce /\ gap' \in BOOLEAN
  <2>1. memory' \in Document
    BY <1>4, <1>7, OperationsStay DEF TypeOK, ApplyStaysIn
  <2>2. QED
    BY <1>4, <1>7, <2>1 DEF TypeOK
<1>10. /\ channel' \in Seq(DOMAIN log') /\ fanned' \in 0..Len(channel')
       /\ expired' \subseteq Nonce /\ failed' \in BOOLEAN
       /\ drops' \in 0..MaxDrops /\ incidents' \in 0..MaxIncidents
  BY <1>4 DEF TypeOK
<1>11. UNCHANGED clientVars
  BY <1>4
<1>12. QED
  BY <1>6, <1>8, <1>9, <1>10, <1>11, ServerStepTypes

\* The table's new row.
LEMMA PersistTyped ==
    ASSUME TypeOK, NEW k \in DOMAIN connections, Persist(k)
    PROVE  /\ TypeOK' /\ DOMAIN connections' = DOMAIN connections
           /\ Len(log) + 1 \in DOMAIN log' /\ log'[Len(log) + 1] = connections[k].hand.msg
           /\ \A i \in DOMAIN log : i \in DOMAIN log' /\ log'[i] = log[i]
           /\ \A i \in DOMAIN log' : i \in DOMAIN log \/ i = Len(log) + 1
<1> DEFINE x == connections[k]
           hand == [x.hand EXCEPT !.stage = "publish", !.seq = Len(log) + 1]
           r == [x EXCEPT !.hand = hand]
<1>1. x \in Connection /\ x.hand.stage = "append"
  BY DEF Persist, TypeOK
<1>2. x.hand \in Hand /\ x.hand.msg \in Message
      /\ x.hand = [stage |-> "append", msg |-> x.hand.msg, seq |-> 0]
  BY <1>1, ConnectionParts, HandParts
<1>3. /\ log' = Append(log, x.hand.msg) /\ connections' = [connections EXCEPT ![k] = r]
      /\ UNCHANGED <<clientVars, memory, channel, fanned, nonces, expired, gap, failed, drops, incidents>>
  <2>1. connections' = [connections EXCEPT ![k].hand.stage = "publish", ![k].hand.seq = Len(log) + 1]
    BY DEF Persist
  <2>2. connections' = [connections EXCEPT ![k] = r]
    BY ZenonT(60), <1>1, <2>1, ConnectionParts
  <2>3. QED
    BY <2>2 DEF Persist, guardVars, boundVars
<1>4. /\ log \in Seq(Message) /\ log' \in Seq(Message) /\ Len(log) \in Nat
      /\ Len(log') = Len(log) + 1 /\ Len(log) <= Len(log') /\ DOMAIN log = 1..Len(log)
      /\ DOMAIN log' = 1..(Len(log) + 1)
      /\ log'[Len(log) + 1] = x.hand.msg /\ \A i \in 1..Len(log) : log'[i] = log[i]
  <2> DEFINE M == Message
  <2>1. log \in Seq(M) /\ x.hand.msg \in M
    BY <1>2 DEF TypeOK
  <2> HIDE DEF M
  <2>2. QED
    BY <1>3, <2>1 DEF M
<1>5. Connection \subseteq Connection' /\ 0..Len(log) \subseteq 0..Len(log') /\ DOMAIN log \subseteq DOMAIN log'
  BY <1>4, TypesGrow
<1>6. hand \in Hand'
  <2>1. hand = [stage |-> "publish", msg |-> x.hand.msg, seq |-> Len(log) + 1]
    <3> DEFINE h == x.hand
               m == h.msg
    <3>1. h = [stage |-> "append", msg |-> m, seq |-> 0]
      BY <1>2
    <3> HIDE DEF h, m
    <3>2. \A n : [h EXCEPT !.stage = "publish", !.seq = n] = [stage |-> "publish", msg |-> m, seq |-> n]
      <4> TAKE n
      <4> DEFINE g == [h EXCEPT !.stage = "publish", !.seq = n]
      <4>1. DOMAIN g = {"stage", "msg", "seq"} /\ g = [f \in DOMAIN g |-> g[f]]
        BY <3>1
      <4>2. g.stage = "publish" /\ g.msg = m /\ g.seq = n
        BY <3>1
      <4> HIDE DEF g
      <4>3. g = [stage |-> "publish", msg |-> m, seq |-> n]
        BY <4>1, <4>2
      <4>4. QED
        BY <4>3 DEF g
    <3>3. QED
      BY <3>2 DEF h, m
  <2>2. Len(log) + 1 \in DOMAIN log'
    BY <1>4
  <2>3. QED
    BY <1>2, <2>1, <2>2 DEF Hand, Message, Operation, Nonce
<1>7. r \in Connection'
  <2>1. x \in Connection'
    BY <1>1, <1>5
  <2> HIDE DEF hand
  <2>2. QED
    BY <1>6, <2>1 DEF Connection
<1> HIDE DEF r
<1>8. /\ connections' \in Seq(Connection') /\ Len(connections') = Len(connections)
      /\ DOMAIN connections' = DOMAIN connections
  <2>1. connections \in Seq(Connection)
    BY DEF TypeOK
  <2>2. QED
    BY <1>3, <1>5, <1>7, <2>1, OneTyped
<1>9. channel' \in Seq(DOMAIN log')
  <2>1. channel \in Seq(DOMAIN log) /\ channel' = channel
    BY <1>3 DEF TypeOK
  <2>2. QED
    BY <1>5, <2>1, SeqsGrow
<1>10. /\ fanned' \in 0..Len(channel') /\ memory' \in Document
       /\ nonces' \subseteq Nonce /\ expired' \subseteq Nonce /\ gap' \in BOOLEAN /\ failed' \in BOOLEAN
       /\ drops' \in 0..MaxDrops /\ incidents' \in 0..MaxIncidents
  BY <1>3 DEF TypeOK
<1>11. UNCHANGED clientVars
  BY <1>3
<1>12. TypeOK'
  BY <1>4, <1>8, <1>9, <1>10, <1>11, ServerStepTypes
<1>13. QED
  BY <1>4, <1>8, <1>12

\* The other steps of a handler, and what stops one.
LEMMA HandleTyped ==
    ASSUME TypeOK, NEW k \in DOMAIN connections,
           RefuseReplay(k) \/ Refuse(k) \/ Publish(k) \/ Acknowledge(k) \/ HandlerFails(k)
    PROVE  TypeOK'
<1> DEFINE x == connections[k]
<1>1. x \in Connection /\ x.hand \in Hand
  BY ConnectionParts DEF TypeOK
<1>2. UNCHANGED <<clientVars, memory, log, fanned, guardVars, gap>>
  BY DEF RefuseReplay, Refuse, Publish, Acknowledge, HandlerFails, serverVars, storeVars
<1>3. /\ log \in Seq(Message) /\ log' \in Seq(Message) /\ Len(log) = Len(log') /\ Len(log) <= Len(log')
      /\ DOMAIN log' = DOMAIN log
  <2>1. log \in Seq(Message) /\ log' = log /\ Len(log) \in Nat
    BY <1>2 DEF TypeOK
  <2>2. QED
    BY <2>1
<1>4. Connection \subseteq Connection'
  BY <1>3, TypesGrow
<1>5. /\ channel \in Seq(DOMAIN log) /\ fanned \in 0..Len(channel) /\ failed \in BOOLEAN
      /\ drops \in 0..MaxDrops /\ incidents \in 0..MaxIncidents
  BY DEF TypeOK
<1>6. /\ memory' \in Document /\ nonces' \subseteq Nonce /\ expired' \subseteq Nonce /\ gap' \in BOOLEAN
  BY <1>2 DEF TypeOK, guardVars
<1>7. ASSUME NEW r \in Connection, connections' = [connections EXCEPT ![k] = r],
             channel' \in Seq(DOMAIN log) /\ fanned \in 0..Len(channel'), failed' \in BOOLEAN,
             drops' = drops, incidents' \in 0..MaxIncidents
      PROVE  TypeOK'
  <2>1. connections' \in Seq(Connection') /\ Len(connections') = Len(connections)
    BY <1>4, <1>7, OneTyped DEF TypeOK
  <2>2. UNCHANGED clientVars /\ fanned' = fanned
    BY <1>2
  <2>3. channel' \in Seq(DOMAIN log') /\ fanned' \in 0..Len(channel') /\ drops' \in 0..MaxDrops
    BY <1>3, <1>5, <1>7, <2>2
  <2>4. QED
    BY <1>3, <1>6, <1>7, <2>1, <2>2, <2>3, ServerStepTypes
<1>8. incidents < MaxIncidents => incidents + 1 \in 0..MaxIncidents
  BY <1>5, BoundsAssumption
<1>9. ASSUME Discard(k), Waiting(k), UNCHANGED channel, failed' \in BOOLEAN,
             drops' = drops, incidents' \in 0..MaxIncidents
      PROVE  TypeOK'
  <2> DEFINE r == [x EXCEPT !.inbox = Tail(@)]
  <2>1. Tail(x.inbox) \in Seq(Message)
    BY <1>9, InboxParts DEF Waiting
  <2>2. r \in Connection
    BY <1>1, <2>1, ConnectionParts DEF Connection
  <2>3. connections' = [connections EXCEPT ![k] = r]
    BY <1>9 DEF Discard
  <2> HIDE DEF r
  <2>4. QED
    BY <1>5, <1>7, <1>9, <2>2, <2>3
<1>10. CASE RefuseReplay(k)
  BY <1>5, <1>9, <1>10 DEF RefuseReplay, serverVars, storeVars, boundVars
<1>11. CASE Refuse(k)
  BY <1>8, <1>9, <1>11 DEF Refuse, storeVars
<1>12. CASE Publish(k)
  <2> DEFINE hand == [x.hand EXCEPT !.stage = "acknowledge"]
             r == [x EXCEPT !.hand = hand]
  <2>1. x.hand.stage = "publish"
    BY <1>12 DEF Publish
  <2>2. x.hand.seq \in DOMAIN log /\ x.hand.msg \in Message
        /\ x.hand = [stage |-> x.hand.stage, msg |-> x.hand.msg, seq |-> x.hand.seq]
    BY <1>1, <2>1, HandParts
  <2>3. hand \in Hand
    <3>1. hand = [stage |-> "acknowledge", msg |-> x.hand.msg, seq |-> x.hand.seq]
      <4> DEFINE h == x.hand
      <4>1. h = [stage |-> h.stage, msg |-> h.msg, seq |-> h.seq]
        BY <2>2
      <4> HIDE DEF h
      <4>2. [h EXCEPT !.stage = "acknowledge"] = [stage |-> "acknowledge", msg |-> h.msg, seq |-> h.seq]
        BY <4>1
      <4>3. QED
        BY <4>2 DEF h
    <3>2. QED
      BY <2>2, <3>1 DEF Hand
  <2>4. connections' = [connections EXCEPT ![k] = r] /\ channel' = Append(channel, x.hand.seq)
        /\ failed' = failed /\ UNCHANGED boundVars
    BY <1>1, <1>12, ConnectionParts DEF Publish
  <2> HIDE DEF hand
  <2>5. r \in Connection
    BY <1>1, <2>3, ConnectionParts DEF Connection
  <2> HIDE DEF r
  <2>6. channel' \in Seq(DOMAIN log) /\ fanned \in 0..Len(channel')
    BY <1>5, <2>2, <2>4
  <2>7. QED
    BY <1>5, <1>7, <2>4, <2>5, <2>6 DEF boundVars
<1>13. CASE Acknowledge(k)
  <2> DEFINE ack == OpAck(x.hand.msg.clientSeq, x.hand.seq)
             r == [Told(x, ack) EXCEPT !.hand = Idle]
  <2>1. x.hand.seq \in DOMAIN log /\ x.hand.msg.clientSeq \in Nat
    BY <1>1, <1>13, HandParts, MessageParts DEF Acknowledge
  <2>2. ack \in ServerMessage
    BY <2>1 DEF OpAck, ServerMessage
  <2>3. connections' = [connections EXCEPT ![k] = r] /\ UNCHANGED <<channel, failed, boundVars>>
    BY <1>13 DEF Acknowledge, serverVars, storeVars
  <2> HIDE DEF ack
  <2>4. Told(x, ack) \in Connection /\ Idle \in Hand
    BY <1>1, <2>2, ToldParts DEF Hand
  <2>5. r \in Connection
    BY <2>4, ConnectionParts DEF Connection
  <2> HIDE DEF r
  <2>6. QED
    BY <1>5, <1>7, <2>3, <2>5 DEF boundVars
<1>14. CASE HandlerFails(k)
  <2> DEFINE r == [x EXCEPT !.hand = Idle]
  <2>1. Idle \in Hand
    BY DEF Hand
  <2>2. r \in Connection
    BY <1>1, <2>1, ConnectionParts DEF Connection
  <2>3. connections' = [connections EXCEPT ![k] = r] /\ failed' = TRUE
        /\ drops' = drops /\ incidents' \in 0..MaxIncidents
    BY <1>8, <1>14 DEF HandlerFails
  <2> HIDE DEF r
  <2>4. \/ channel' = channel
        \/ x.hand.stage = "publish" /\ channel' = Append(channel, x.hand.seq)
    BY <1>14 DEF HandlerFails
  <2>5. x.hand.stage = "publish" => x.hand.seq \in DOMAIN log
    BY <1>1, HandParts
  <2>6. channel' \in Seq(DOMAIN log) /\ fanned \in 0..Len(channel')
    BY <1>5, <2>4, <2>5
  <2>7. QED
    BY <1>7, <2>2, <2>3, <2>6
<1>15. QED
  BY <1>10, <1>11, <1>12, <1>13, <1>14

\* The fan-out's copies, to all sessions at once.
LEMMA FanOutTyped ==
    ASSUME TypeOK, FanOut
    PROVE  /\ TypeOK' /\ DOMAIN connections' = DOMAIN connections
           /\ channel[fanned + 1] \in DOMAIN log
           /\ \A k \in DOMAIN connections :
                 connections'[k] = IF Registered(k) THEN Told(connections[k], Broadcast(channel[fanned + 1]))
                                   ELSE connections[k]
<1> DEFINE seq == channel[fanned + 1]
           told(k) == IF Registered(k) THEN Told(connections[k], Broadcast(seq)) ELSE connections[k]
<1>1. /\ connections' = [k \in DOMAIN connections |-> told(k)] /\ fanned' = fanned + 1
      /\ fanned < Len(channel)
      /\ UNCHANGED <<clientVars, memory, log, channel, nonces, expired, gap, failed, drops, incidents>>
  BY DEF FanOut, guardVars, boundVars
<1>2. channel \in Seq(DOMAIN log) /\ fanned \in 0..Len(channel)
  BY DEF TypeOK
<1>3. seq \in DOMAIN log /\ fanned' \in 0..Len(channel)
  BY <1>1, <1>2
<1>4. Broadcast(seq) \in ServerMessage
  BY <1>3 DEF Broadcast, ServerMessage
<1>5. \A k \in DOMAIN connections : told(k) \in Connection
  BY <1>4, ToldParts DEF TypeOK
<1> HIDE DEF told
<1>6. DOMAIN connections' = DOMAIN connections /\ \A k \in DOMAIN connections : connections'[k] = told(k)
  BY <1>1
<1>7. log' = log /\ log \in Seq(Message) /\ Len(log) \in Nat
  BY <1>1 DEF TypeOK
<1>8. log' \in Seq(Message) /\ Len(log) <= Len(log')
  BY <1>7
<1>9. Connection \subseteq Connection'
  BY <1>7, <1>8, TypesGrow
<1>10. connections' \in Seq(Connection') /\ Len(connections') = Len(connections)
  <2> DEFINE C == Connection
             D == Connection'
  <2>1. connections \in Seq(C) /\ C \subseteq D /\ \A k \in DOMAIN connections : told(k) \in C
    BY <1>5, <1>9 DEF TypeOK
  <2> HIDE DEF C, D
  <2>2. PICK n \in Nat : DOMAIN connections = 1..n /\ Len(connections) = n
    BY <2>1
  <2>3. [k \in DOMAIN connections |-> told(k)] \in [1..n -> D]
    BY <2>1, <2>2
  <2>4. [k \in DOMAIN connections |-> told(k)] \in Seq(D) /\ Len([k \in DOMAIN connections |-> told(k)]) = n
    BY <2>2, <2>3
  <2>5. QED
    BY <1>1, <2>2, <2>4 DEF D
<1>11. /\ channel' \in Seq(DOMAIN log') /\ fanned' \in 0..Len(channel') /\ memory' \in Document
       /\ nonces' \subseteq Nonce /\ expired' \subseteq Nonce /\ gap' \in BOOLEAN /\ failed' \in BOOLEAN
       /\ drops' \in 0..MaxDrops /\ incidents' \in 0..MaxIncidents
  BY <1>1, <1>2, <1>3 DEF TypeOK
<1>12. UNCHANGED clientVars
  BY <1>1
<1>13. TypeOK'
  BY <1>8, <1>10, <1>11, <1>12, ServerStepTypes
<1>14. QED
  BY <1>3, <1>6, <1>13 DEF told

\* A client's connection, and the message it receives from it.
LEMMA ConnParts ==
    ASSUME TypeOK, NEW c \in Clients, conn[c] # 0
    PROVE  conn[c] \in DOMAIN connections /\ connections[conn[c]] \in Connection
<1> DEFINE C == Connection
<1>1. connections \in Seq(C) /\ conn[c] \in 0..Len(connections)
  BY DEF TypeOK
<1> HIDE DEF C
<1>2. conn[c] \in DOMAIN connections
  BY <1>1
<1>3. connections[conn[c]] \in C
  BY <1>1, <1>2
<1>4. QED
  BY <1>2, <1>3 DEF C

\* The next message to a client is one of the server's, and so are the rest.
LEMMA IncomingParts ==
    ASSUME TypeOK, NEW c \in Clients, conn[c] # 0, connections[conn[c]].out # << >>
    PROVE  /\ Incoming(c) \in ServerMessage
           /\ Tail(connections[conn[c]].out) \in Seq(ServerMessage)
           /\ ToSet(connections[conn[c]].out) =
                 {Incoming(c)} \cup ToSet(Tail(connections[conn[c]].out))
<1>1. connections[conn[c]].out \in Seq(ServerMessage)
  BY ConnParts, ConnectionParts
<1>2. QED
  BY <1>1, HeadAndTail DEF Incoming

\* connect(): one more connection.
LEMMA ConnectTyped ==
    ASSUME TypeOK, NEW c \in Clients, Connect(c)
    PROVE  /\ TypeOK' /\ Len(connections) + 1 \in DOMAIN connections'
           /\ connections'[Len(connections) + 1] = Opened(c, lastSeq[c])
           /\ \A k \in DOMAIN connections : k \in DOMAIN connections' /\ connections'[k] = connections[k]
           /\ \A k \in DOMAIN connections' : k \in DOMAIN connections \/ k = Len(connections) + 1
<1> DEFINE x == Opened(c, lastSeq[c])
           C == Connection
<1>1. /\ connections' = Append(connections, x) /\ conn' = [conn EXCEPT ![c] = Len(connections) + 1]
      /\ UNCHANGED <<pageVars, queue, gaveUp, typed, serverVars, boundVars>>
  BY DEF Connect
<1>2. lastSeq[c] \in 0..Len(log) /\ 0 \in 0..Len(log)
  BY DEF TypeOK
<1>3. x \in C
  <2>1. << >> \in Seq(Message) /\ << >> \in Seq(ServerMessage) /\ Idle \in Hand
    BY DEF Hand
  <2>2. /\ x = [client |-> c, socket |-> "open", stage |-> "join", since |-> lastSeq[c], upto |-> 0,
                whole |-> FALSE, inbox |-> << >>, out |-> << >>, hand |-> Idle]
    BY DEF Opened
  <2> HIDE DEF x
  <2>3. QED
    BY <1>2, <2>1, <2>2 DEF Connection
<1>4. connections \in Seq(C)
  BY DEF TypeOK
<1> HIDE DEF C, x
<1>5. /\ connections' \in Seq(C) /\ Len(connections) \in Nat /\ DOMAIN connections = 1..Len(connections)
      /\ DOMAIN connections' = 1..(Len(connections) + 1) /\ Len(connections') = Len(connections) + 1
      /\ connections'[Len(connections) + 1] = x /\ \A k \in 1..Len(connections) : connections'[k] = connections[k]
  BY <1>1, <1>3, <1>4
<1>6. conn' \in [Clients -> 0..Len(connections')]
  BY SMTT(60), <1>1, <1>5 DEF TypeOK
<1>7. /\ joined' \in [Clients -> BOOLEAN] /\ gaveUp' \in [Clients -> BOOLEAN]
      /\ doc' \in [Clients -> Document] /\ clientSeq' \in [Clients -> Nat]
      /\ queue' \in [Clients -> Seq(Message)] /\ lastSeq' \in [Clients -> 0..Len(log)]
      /\ typed' \in [Clients -> 0..MaxEdits]
      /\ drops' \in 0..MaxDrops /\ incidents' \in 0..MaxIncidents
  BY <1>1 DEF TypeOK, pageVars, boundVars
<1>8. connections' \in Seq(Connection) /\ UNCHANGED serverVars
  BY <1>1, <1>5 DEF C
<1>9. TypeOK'
  BY <1>6, <1>7, <1>8, ClientStepTypes
<1>10. QED
  BY <1>5, <1>9 DEF x

\* What an editor may type, and its number.
LEMMA EditsAreOperations ==
    ASSUME TypeOK, NEW c \in Clients, NEW op \in Edits(c)
    PROVE  op \in Operation
<1> DEFINE u == [clock |-> Clock(doc[c]) + 1, site |-> c]
<1>1. doc[c].list \in Seq(Uids) /\ VisibleUids(doc[c]) \subseteq Uids
  <2>1. doc[c] \in Document
    BY DEF TypeOK
  <2>2. doc[c].list \in Seq(Uids)
    BY <2>1 DEF Document
  <2>3. ToSet(doc[c].list) \subseteq Uids
    BY <2>2 DEF ToSet
  <2>4. QED
    BY <2>2, <2>3 DEF VisibleUids
<1>2. Clock(doc[c]) \in Nat
  <2>1. \A v \in Uids : v.clock \in Nat
    BY DEF Uids, UID
  <2>2. QED
    BY <1>1, <2>1, GreatestClock DEF Clock
<1>3. u \in Uids
  BY <1>2 DEF Uids, UID
<1>4. \/ \E a \in VisibleUids(doc[c]) \cup {Root} : op = InsertOp(u, a)
      \/ \E v \in VisibleUids(doc[c]) : op = DeleteOp(v)
  BY DEF Edits
<1> HIDE DEF u
<1>5. QED
  BY <1>1, <1>3, <1>4 DEF Operation, InsertOp, DeleteOp

\* The keystrokes of one client are counted among those of all.
LEMMA TypedBelowEdits ==
    ASSUME TypeOK, NEW c \in Clients, Keystrokes < MaxEdits
    PROVE  typed[c] \in Nat /\ typed[c] + 1 \in 0..MaxEdits
<1>1. typed \in [Clients -> Nat] /\ MaxEdits \in Nat
  BY BoundsAssumption DEF TypeOK
<1>2. FoldFunction(+, 0, typed) = Keystrokes
  BY Zenon DEF Keystrokes, FoldFunction, FoldFunctionOnSet, MapThenFoldSet
<1>3. typed[c] <= Keystrokes /\ Keystrokes \in Nat
  <2>1. typed[c] <= FoldFunction(+, 0, typed) /\ FoldFunction(+, 0, typed) \in Nat
    BY <1>1, ClientsAssumption, PartsAreBelow, SumIsNat
  <2>2. QED
    BY <1>2, <2>1
<1>4. QED
  BY <1>1, <1>3

\* localInsert and localDelete: what is typed, numbered and sent.
LEMMA TypeParts ==
    ASSUME TypeOK, NEW c \in Clients, Type(c)
    PROVE  \E msg \in Message :
               /\ msg.clientSeq = clientSeq[c] + 1 /\ msg.nonce = <<c, typed[c]>>
               /\ msg.op \in Edits(c)
               /\ doc' = [doc EXCEPT ![c] = Apply(@, msg.op)]
               /\ queue' = [queue EXCEPT ![c] = Append(@, msg)]
               /\ SentUp(conn[c], <<msg>>)
<1>1. PICK op \in Edits(c) :
         LET msg == [clientSeq |-> clientSeq[c] + 1, nonce |-> <<c, typed[c]>>, op |-> op]
         IN /\ doc' = [doc EXCEPT ![c] = Apply(@, op)]
            /\ queue' = [queue EXCEPT ![c] = Append(@, msg)]
            /\ SentUp(conn[c], <<msg>>)
  BY DEF Type
<1> DEFINE msg == [clientSeq |-> clientSeq[c] + 1, nonce |-> <<c, typed[c]>>, op |-> op]
<1>2. clientSeq[c] + 1 \in Nat /\ <<c, typed[c]>> \in Nonce /\ op \in Operation
  <2>1. clientSeq[c] \in Nat /\ typed[c] \in Nat
    BY DEF TypeOK
  <2>2. QED
    BY <2>1, EditsAreOperations DEF Nonce
<1>3. msg \in Message
  BY <1>2 DEF Message
<1>4. msg.clientSeq = clientSeq[c] + 1 /\ msg.nonce = <<c, typed[c]>> /\ msg.op = op
  OBVIOUS
<1>5. /\ doc' = [doc EXCEPT ![c] = Apply(@, op)]
      /\ queue' = [queue EXCEPT ![c] = Append(@, msg)]
      /\ SentUp(conn[c], <<msg>>)
  BY <1>1
<1> HIDE DEF msg
<1>6. QED
  BY <1>3, <1>4, <1>5

\* localInsert and localDelete.
LEMMA TypeTyped ==
    ASSUME TypeOK, NEW c \in Clients, Type(c)
    PROVE  TypeOK'
<1>1. PICK msg \in Message :
         /\ msg.op \in Edits(c)
         /\ doc' = [doc EXCEPT ![c] = Apply(@, msg.op)]
         /\ queue' = [queue EXCEPT ![c] = Append(@, msg)]
         /\ SentUp(conn[c], <<msg>>)
  BY TypeParts
<1>2. /\ clientSeq' = [clientSeq EXCEPT ![c] = @ + 1] /\ typed' = [typed EXCEPT ![c] = @ + 1]
      /\ UNCHANGED <<joined, lastSeq, conn, gaveUp, serverVars, boundVars>> /\ Keystrokes < MaxEdits
  BY DEF Type
<1>3. doc' \in [Clients -> Document]
  <2>1. doc[c] \in Document /\ msg.op \in Operation
    BY MessageParts DEF TypeOK
  <2>2. Apply(doc[c], msg.op) \in Document
    BY <2>1, OperationsStay DEF ApplyStaysIn
  <2>3. QED
    BY <1>1, <2>2 DEF TypeOK
<1>4. queue' \in [Clients -> Seq(Message)]
  <2>1. queue[c] \in Seq(Message)
    BY DEF TypeOK
  <2>2. Append(queue[c], msg) \in Seq(Message)
    BY <2>1, AppendElements
  <2>3. QED
    BY <1>1, <2>2 DEF TypeOK
<1>5. connections' \in Seq(Connection) /\ Len(connections') = Len(connections)
  <2>1. CASE conn[c] = 0
    BY <1>1, <2>1 DEF SentUp, TypeOK
  <2>2. CASE conn[c] # 0
    <3> DEFINE x == connections[conn[c]]
               r == [x EXCEPT !.inbox = @ \o <<msg>>]
    <3>1. x \in Connection
      BY <2>2, ConnParts
    <3>2. x.inbox \o <<msg>> \in Seq(Message)
      <4>1. x.inbox \in Seq(Message) /\ <<msg>> \in Seq(Message)
        BY <3>1, ConnectionParts
      <4>2. QED
        BY <4>1, ConcatElements
    <3>3. r \in Connection
      BY <3>1, <3>2, ConnectionParts DEF Connection
    <3>4. connections' = [connections EXCEPT ![conn[c]] = r]
      BY <1>1, <2>2 DEF SentUp
    <3> HIDE DEF r
    <3>5. connections \in Seq(Connection)
      BY DEF TypeOK
    <3> DEFINE C == Connection
               t == [connections EXCEPT ![conn[c]] = r]
    <3>6. connections \in Seq(C) /\ r \in C /\ C \subseteq C
      BY <3>3, <3>5
    <3> HIDE DEF C
    <3>7. t \in Seq(C) /\ Len(t) = Len(connections)
      BY <3>6, SeqExcept
    <3>8. QED
      BY <3>4, <3>7 DEF C
  <2>3. QED
    BY <2>1, <2>2
<1>6. typed' \in [Clients -> 0..MaxEdits]
  <2>1. typed[c] + 1 \in 0..MaxEdits
    BY <1>2, TypedBelowEdits
  <2>2. QED
    BY <1>2, <2>1 DEF TypeOK
<1>7. /\ joined' \in [Clients -> BOOLEAN] /\ gaveUp' \in [Clients -> BOOLEAN]
      /\ clientSeq' \in [Clients -> Nat] /\ lastSeq' \in [Clients -> 0..Len(log)]
      /\ conn' \in [Clients -> 0..Len(connections')]
      /\ drops' \in 0..MaxDrops /\ incidents' \in 0..MaxIncidents
  BY SMTT(60), <1>2, <1>5 DEF TypeOK, boundVars
<1>8. QED
  BY <1>2, <1>3, <1>4, <1>5, <1>6, <1>7, ClientStepTypes

\* A step of the editor over its own connection.
LEMMA OneConnTyped ==
    ASSUME TypeOK, NEW c \in Clients, conn[c] # 0, NEW r \in Connection,
           connections' = [connections EXCEPT ![conn[c]] = r]
    PROVE  /\ connections' \in Seq(Connection) /\ Len(connections') = Len(connections)
           /\ DOMAIN connections' = DOMAIN connections
           /\ \A k \in DOMAIN connections : connections'[k] = IF k = conn[c] THEN r ELSE connections[k]
<1> DEFINE C == Connection
           t == [connections EXCEPT ![conn[c]] = r]
<1>1. connections \in Seq(C) /\ r \in C /\ C \subseteq C
  BY DEF TypeOK
<1> HIDE DEF C
<1>2. LET s == [connections EXCEPT ![conn[c]] = r]
      IN /\ s \in Seq(C) /\ Len(s) = Len(connections) /\ DOMAIN s = DOMAIN connections
         /\ \A l \in DOMAIN connections : s[l] = IF l = conn[c] THEN r ELSE connections[l]
  BY <1>1, SeqExcept
<1>3. QED
  BY <1>2, Zenon DEF C

\* The missed operations of a JOIN_ACK, and the document made of them.
LEMMA RebuiltIsDocument ==
    ASSUME TypeOK, NEW d \in Document, NEW from \in 0..Len(log), NEW to \in 0..Len(log)
    PROVE  FoldLeft(Apply, d, Missed(from, to)) \in Document
<1>1. Len(log) \in Nat /\ \A i \in 1..Len(log) : log[i] \in Message
  <2> DEFINE M == Message
  <2>1. log \in Seq(M)
    BY DEF TypeOK
  <2> HIDE DEF M
  <2>2. QED
    BY <2>1 DEF M
<1>2. \A i \in 1..(to - from) : log[from + i].op \in Operation
  BY <1>1, MessageParts
<1>3. Missed(from, to) \in Seq(Operation)
  <2> DEFINE O == Operation
             f == Missed(from, to)
  <2>1. f = [i \in 1..(to - from) |-> log[from + i].op] /\ \A i \in 1..(to - from) : log[from + i].op \in O
    BY <1>2 DEF Missed
  <2> HIDE DEF O, f
  <2>2. CASE to - from \in Nat
    BY <2>1, <2>2 DEF O, f
  <2>3. CASE to - from \notin Nat
    <3>1. 1..(to - from) = {} /\ 1..0 = {}
      BY <1>1, <2>3
    <3>2. f \in [1..0 -> O]
      BY <2>1, <3>1
    <3>3. f \in Seq(O)
      BY <3>2
    <3>4. QED
      BY <3>3 DEF O, f
  <2>4. QED
    BY <2>2, <2>3
<1>4. Replayed(d, Missed(from, to)) \in Document
  BY <1>3, FoldApplyStays, OperationsStay
<1>5. QED
  BY <1>4, Zenon DEF Replayed

\* JOIN_ACK: the document is built anew and the queue sent.
LEMMA JoinAckTyped ==
    ASSUME TypeOK, NEW c \in Clients, ReceiveJoinAck(c)
    PROVE  TypeOK'
<1> DEFINE k == conn[c]
           x == connections[k]
           ack == Incoming(c)
           r == [x EXCEPT !.out = Tail(@), !.inbox = @ \o queue[c]]
<1>1. /\ k # 0 /\ x.out # << >> /\ ack.type = "JOIN_ACK"
      /\ joined' = [joined EXCEPT ![c] = TRUE]
      /\ doc' = [doc EXCEPT ![c] = FoldLeft(Apply, ack.nodes, Missed(ack.from, ack.to))]
      /\ lastSeq' = [lastSeq EXCEPT ![c] = IF ack.to > ack.from THEN LaterOf(@, ack.to) ELSE @]
      /\ connections' = [connections EXCEPT ![k] = r]
      /\ UNCHANGED <<clientSeq, queue, conn, gaveUp, typed, serverVars, boundVars>>
  BY DEF ReceiveJoinAck, HasMessage
<1>2. ack \in ServerMessage /\ Tail(x.out) \in Seq(ServerMessage) /\ x \in Connection
  BY <1>1, IncomingParts, ConnParts
<1>3. ack.nodes \in Document /\ ack.from \in 0..Len(log) /\ ack.to \in 0..Len(log)
  BY <1>1, <1>2 DEF ServerMessage, Close
<1>4. x.inbox \o queue[c] \in Seq(Message)
  <2>1. x.inbox \in Seq(Message) /\ queue[c] \in Seq(Message)
    BY <1>2, ConnectionParts DEF TypeOK
  <2>2. QED
    BY <2>1, ConcatElements
<1>5. r \in Connection
  BY <1>2, <1>4, ConnectionParts DEF Connection
<1>6. FoldLeft(Apply, ack.nodes, Missed(ack.from, ack.to)) \in Document
  BY <1>3, RebuiltIsDocument
<1>7. lastSeq[c] \in 0..Len(log)
  BY DEF TypeOK
<1>8. (IF ack.to > ack.from THEN LaterOf(lastSeq[c], ack.to) ELSE lastSeq[c]) \in 0..Len(log)
  BY <1>3, <1>7 DEF LaterOf
<1> HIDE DEF r, ack
<1>9. connections' \in Seq(Connection) /\ Len(connections') = Len(connections)
  BY <1>1, <1>5, OneConnTyped
<1>10. doc' \in [Clients -> Document]
  BY <1>1, <1>6 DEF TypeOK
<1>11. lastSeq' \in [Clients -> 0..Len(log)]
  BY <1>1, <1>8 DEF TypeOK
<1>12. /\ joined' \in [Clients -> BOOLEAN] /\ gaveUp' \in [Clients -> BOOLEAN]
       /\ clientSeq' \in [Clients -> Nat] /\ queue' \in [Clients -> Seq(Message)]
       /\ conn' \in [Clients -> 0..Len(connections')] /\ typed' \in [Clients -> 0..MaxEdits]
       /\ drops' \in 0..MaxDrops /\ incidents' \in 0..MaxIncidents
  BY <1>1, <1>9 DEF TypeOK, boundVars
<1>13. QED
  BY <1>1, <1>9, <1>10, <1>11, <1>12, ClientStepTypes

\* What a client removes from its connection it has received.
LEMMA ReceivedTyped ==
    ASSUME TypeOK, NEW c \in Clients, conn[c] # 0, connections[conn[c]].out # << >>, Received(c)
    PROVE  /\ connections' \in Seq(Connection) /\ Len(connections') = Len(connections)
           /\ DOMAIN connections' = DOMAIN connections
           /\ \A k \in DOMAIN connections :
                 connections'[k] = IF k = conn[c] THEN [connections[k] EXCEPT !.out = Tail(@)]
                                   ELSE connections[k]
<1> DEFINE x == connections[conn[c]]
           r == [x EXCEPT !.out = Tail(@)]
<1>1. x \in Connection /\ Tail(x.out) \in Seq(ServerMessage)
  BY IncomingParts, ConnParts
<1>2. r \in Connection
  BY <1>1, ConnectionParts DEF Connection
<1>3. connections' = [connections EXCEPT ![conn[c]] = r]
  BY DEF Received
<1> HIDE DEF r
<1>4. /\ connections' \in Seq(Connection) /\ Len(connections') = Len(connections)
      /\ DOMAIN connections' = DOMAIN connections
      /\ \A k \in DOMAIN connections : connections'[k] = IF k = conn[c] THEN r ELSE connections[k]
  BY <1>2, <1>3, OneConnTyped
<1>5. QED
  BY <1>4 DEF r

\* OP_ACK and BROADCAST.
LEMMA ReceiveTyped ==
    ASSUME TypeOK, NEW c \in Clients, ReceiveAck(c) \/ ReceiveBroadcast(c)
    PROVE  TypeOK'
<1> DEFINE seq == Incoming(c).serverSeq
<1>1. /\ conn[c] # 0 /\ connections[conn[c]].out # << >> /\ Incoming(c).type \in {"OP_ACK", "BROADCAST"}
      /\ lastSeq' = [lastSeq EXCEPT ![c] = LaterOf(@, seq)] /\ Received(c)
      /\ UNCHANGED <<joined, clientSeq, conn, gaveUp, typed, serverVars, boundVars>>
  BY DEF ReceiveAck, ReceiveBroadcast, HasMessage
<1>2. connections' \in Seq(Connection) /\ Len(connections') = Len(connections)
  BY <1>1, ReceivedTyped
<1>3. seq \in DOMAIN log
  <2>1. Incoming(c) \in ServerMessage
    BY <1>1, IncomingParts
  <2>2. QED
    BY <1>1, <2>1 DEF ServerMessage, Close
<1>4. Len(log) \in Nat /\ seq \in 1..Len(log) /\ log[seq] \in Message
  <2> DEFINE M == Message
  <2>1. log \in Seq(M)
    BY DEF TypeOK
  <2> HIDE DEF M
  <2>2. QED
    BY <1>3, <2>1 DEF M
<1>5. lastSeq' \in [Clients -> 0..Len(log)]
  <2>1. lastSeq[c] \in 0..Len(log)
    BY DEF TypeOK
  <2>2. LaterOf(lastSeq[c], seq) \in 0..Len(log)
    BY <1>4, <2>1 DEF LaterOf
  <2>3. QED
    BY <1>1, <2>2 DEF TypeOK
<1>6. doc' \in [Clients -> Document] /\ queue' \in [Clients -> Seq(Message)]
  <2>1. CASE ReceiveAck(c)
    <3>1. queue[c] \in Seq(Message)
      BY DEF TypeOK
    <3>2. Without(queue[c], Incoming(c).clientSeq) \in Seq(Message)
      BY <3>1, OmitElements DEF Without
    <3>3. queue' = [queue EXCEPT ![c] = Without(@, Incoming(c).clientSeq)] /\ doc' = doc
      BY <2>1 DEF ReceiveAck
    <3>4. QED
      BY <3>2, <3>3 DEF TypeOK
  <2>2. CASE ReceiveBroadcast(c)
    <3>1. Apply(doc[c], log[seq].op) \in Document
      BY <1>4, MessageParts, OperationsStay DEF ApplyStaysIn, TypeOK
    <3>2. doc' = (IF joined[c] THEN [doc EXCEPT ![c] = Apply(@, log[seq].op)] ELSE doc) /\ queue' = queue
      BY <2>2 DEF ReceiveBroadcast
    <3>3. QED
      BY <3>1, <3>2 DEF TypeOK
  <2>3. QED
    BY <2>1, <2>2
<1>7. /\ joined' \in [Clients -> BOOLEAN] /\ gaveUp' \in [Clients -> BOOLEAN]
      /\ clientSeq' \in [Clients -> Nat] /\ conn' \in [Clients -> 0..Len(connections')]
      /\ typed' \in [Clients -> 0..MaxEdits] /\ drops' \in 0..MaxDrops /\ incidents' \in 0..MaxIncidents
  BY <1>1, <1>2 DEF TypeOK, boundVars
<1>8. QED
  BY <1>1, <1>2, <1>5, <1>6, <1>7, ClientStepTypes

\* The end of a client's connection.
LEMMA CutTyped ==
    ASSUME TypeOK, NEW c \in Clients, conn[c] # 0, NEW n \in Arrived(conn[c]), Cut(conn[c], n)
    PROVE  /\ connections' \in Seq(Connection) /\ Len(connections') = Len(connections)
           /\ DOMAIN connections' = DOMAIN connections
           /\ \A k \in DOMAIN connections : k # conn[c] => connections'[k] = connections[k]
           /\ connections'[conn[c]].hand = connections[conn[c]].hand
<1> DEFINE k == conn[c]
           x == connections[k]
           r == [x EXCEPT !.socket = "gone", !.stage = IF Registered(k) THEN "live" ELSE "join",
                          !.since = 0, !.upto = 0, !.whole = FALSE,
                          !.inbox = SubSeq(@, 1, n), !.out = << >>]
<1>1. x \in Connection /\ k \in DOMAIN connections
  BY ConnParts
<1>2. x.inbox \in Seq(Message) /\ x.hand \in Hand /\ x.client \in Clients
  BY <1>1, ConnectionParts
<1>3. n \in 0..Len(x.inbox)
  BY <1>2 DEF Arrived
<1>4. SubSeq(x.inbox, 1, n) \in Seq(Message)
  <2> DEFINE M == Message
  <2>1. x.inbox \in Seq(M)
    BY <1>2
  <2> HIDE DEF M, x
  <2>2. SubSeq(x.inbox, 1, n) \in Seq(M)
    BY <1>3, <2>1
  <2>3. QED
    BY <2>2 DEF M, x
<1>5. DOMAIN r = DOMAIN x /\ r = [f \in DOMAIN x |-> r[f]]
  OBVIOUS
<1>6. /\ r.client = x.client /\ r.socket = "gone" /\ r.stage \in {"live", "join"}
      /\ r.since = 0 /\ r.upto = 0 /\ r.whole = FALSE /\ r.inbox = SubSeq(x.inbox, 1, n)
      /\ r.out = << >> /\ r.hand = x.hand
  BY ZenonT(60), <1>1, ConnectionParts
<1>7. 0 \in 0..Len(log) /\ << >> \in Seq(ServerMessage)
  BY DEF TypeOK
<1>8. connections' = [connections EXCEPT ![k] = r]
  BY DEF Cut
<1> HIDE DEF r
<1>9. r \in Connection
  BY <1>1, <1>2, <1>4, <1>5, <1>6, <1>7, ConnectionOf
<1>10. QED
  BY <1>1, <1>6, <1>8, <1>9, OneConnTyped

\* A connection that ends, and a new page.
LEMMA LeavingTyped ==
    ASSUME TypeOK, NEW c \in Clients, ReceiveClose(c) \/ Drop(c) \/ Reload(c)
    PROVE  TypeOK'
<1>1. connections' \in Seq(Connection) /\ Len(connections') = Len(connections)
  <2>1. CASE ReceiveClose(c)
    BY <2>1, CutTyped DEF ReceiveClose, HasMessage
  <2>2. CASE Drop(c)
    BY <2>2, CutTyped DEF Drop
  <2>3. CASE Reload(c)
    BY <2>3 DEF Reload, TypeOK
  <2>4. QED
    BY <2>1, <2>2, <2>3
<1>2. EmptyDoc \in Document
  BY DEF EmptyDoc, Document
<1>3. /\ joined' \in [Clients -> BOOLEAN] /\ gaveUp' \in [Clients -> BOOLEAN]
      /\ doc' \in [Clients -> Document] /\ clientSeq' \in [Clients -> Nat]
      /\ queue' \in [Clients -> Seq(Message)] /\ lastSeq' \in [Clients -> 0..Len(log)]
      /\ typed' \in [Clients -> 0..MaxEdits]
  <2>1. Len(log) \in Nat /\ 0 \in 0..Len(log)
    BY DEF TypeOK
  <2>2. CASE ReceiveClose(c)
    BY <2>2 DEF ReceiveClose, pageVars, TypeOK
  <2>3. CASE Drop(c)
    BY <2>3 DEF Drop, pageVars, TypeOK
  <2>4. CASE Reload(c)
    BY <1>2, <2>1, <2>4 DEF Reload, TypeOK
  <2>5. QED
    BY <2>2, <2>3, <2>4
<1>4. conn' \in [Clients -> 0..Len(connections')]
  <2>1. conn' = [conn EXCEPT ![c] = 0] \/ conn' = conn
    BY DEF ReceiveClose, Drop, Reload
  <2>2. conn \in [Clients -> 0..Len(connections)] /\ 0 \in 0..Len(connections)
    BY DEF TypeOK
  <2>3. QED
    BY <1>1, <2>1, <2>2
<1>5. drops' \in 0..MaxDrops /\ incidents' \in 0..MaxIncidents
  <2>1. drops \in 0..MaxDrops /\ incidents \in 0..MaxIncidents
    BY DEF TypeOK
  <2>2. QED
    BY <2>1, BoundsAssumption DEF ReceiveClose, Drop, Reload, boundVars
<1>6. UNCHANGED serverVars
  BY DEF ReceiveClose, Drop, Reload
<1>7. QED
  BY <1>1, <1>3, <1>4, <1>5, <1>6, ClientStepTypes

\* Redis forgets a nonce.
LEMMA ExpireTyped ==
    ASSUME TypeOK, Expire
    PROVE  TypeOK'
<1>1. /\ UNCHANGED <<clientVars, connections, memory, log, channel, fanned, gap, failed, drops>>
      /\ nonces' \subseteq nonces /\ expired' \subseteq expired \cup nonces
      /\ incidents' = incidents + 1 /\ incidents < MaxIncidents
  BY DEF Expire, storeVars
<1>2. nonces' \subseteq Nonce /\ expired' \subseteq Nonce
  BY <1>1 DEF TypeOK
<1>3. incidents' \in 0..MaxIncidents
  BY <1>1, BoundsAssumption DEF TypeOK
<1>4. /\ connections' = connections /\ log' = log /\ connections \in Seq(Connection)
      /\ log \in Seq(Message) /\ Len(log) \in Nat
  BY <1>1 DEF TypeOK
<1>5. Connection \subseteq Connection' /\ Len(log) <= Len(log') /\ log' \in Seq(Message)
  <2>1. Len(log) <= Len(log') /\ log' \in Seq(Message)
    BY <1>4
  <2>2. QED
    BY <1>4, <2>1, TypesGrow
<1>6. connections' \in Seq(Connection') /\ Len(connections') = Len(connections)
  BY <1>4, <1>5, SeqsGrow
<1>7. /\ channel' \in Seq(DOMAIN log') /\ fanned' \in 0..Len(channel') /\ memory' \in Document
      /\ gap' \in BOOLEAN /\ failed' \in BOOLEAN /\ drops' \in 0..MaxDrops
  BY <1>1 DEF TypeOK
<1>8. UNCHANGED clientVars
  BY <1>1
<1>9. QED
  BY <1>2, <1>3, <1>5, <1>6, <1>7, <1>8, ServerStepTypes

\* Nothing happens.
LEMMA StutterTyped ==
    ASSUME TypeOK, UNCHANGED vars
    PROVE  TypeOK'
<1>1. UNCHANGED serverVars /\ UNCHANGED clientVars /\ connections' = connections /\ UNCHANGED boundVars
  BY DEF vars
<1>2. /\ joined' \in [Clients -> BOOLEAN] /\ gaveUp' \in [Clients -> BOOLEAN]
      /\ doc' \in [Clients -> Document] /\ clientSeq' \in [Clients -> Nat]
      /\ queue' \in [Clients -> Seq(Message)] /\ lastSeq' \in [Clients -> 0..Len(log)]
      /\ conn' \in [Clients -> 0..Len(connections')] /\ typed' \in [Clients -> 0..MaxEdits]
      /\ drops' \in 0..MaxDrops /\ incidents' \in 0..MaxIncidents
  BY <1>1 DEF TypeOK, clientVars, pageVars, boundVars
<1>3. connections' \in Seq(Connection)
  BY <1>1 DEF TypeOK
<1>4. QED
  BY <1>1, <1>2, <1>3, ClientStepTypes

\* Every client has a place in the sequence of all, and nobody else has one.
LEMMA ClientsInSequence ==
    /\ Cardinality(Clients) \in Nat
    /\ \A k \in 1..Cardinality(Clients) : SetToSeq(Clients)[k] \in Clients
    /\ \A c \in Clients : \E k \in 1..Cardinality(Clients) : SetToSeq(Clients)[k] = c
<1> DEFINE n == Cardinality(Clients)
<1>1. n \in Nat
  BY ClientsAssumption, FS_CardinalityType
<1>2. \E f \in [1..n -> Clients] : IsInjective(f)
  <2>1. PICK f : f \in Bijection(1..n, Clients)
    <3>1. PICK m \in Nat : ExistsBijection(1..m, Clients)
      BY ClientsAssumption, FS_NatBijection
    <3>2. n = m
      BY <3>1, FS_CountingElements
    <3>3. QED
      BY <3>1, <3>2 DEF ExistsBijection
  <2>2. f \in [1..n -> Clients] /\ IsInjective(f)
    BY <2>1 DEF Bijection, Injection, IsInjective
  <2>3. QED
    BY <2>2
<1> DEFINE s == SetToSeq(Clients)
<1>3. s \in [1..n -> Clients] /\ IsInjective(s)
  BY <1>2 DEF SetToSeq
<1> HIDE DEF s
<1>4. \A c \in Clients : \E k \in 1..n : s[k] = c
  <2>1. s \in Injection(1..n, Clients)
    BY <1>3 DEF IsInjective, Injection
  <2>2. IsFiniteSet(1..n) /\ Cardinality(1..n) = n
    BY <1>1, FS_Interval
  <2>3. s \in Surjection(1..n, Clients)
    BY <2>1, <2>2, ClientsAssumption, FS_Injection
  <2>4. QED
    BY <2>3 DEF Surjection
<1>5. QED
  BY <1>1, <1>3, <1>4 DEF s

\* Everybody has opened one connection.
LEMMA InitParts ==
    ASSUME Init
    PROVE  /\ connections \in Seq(Connection) /\ Len(connections) = Cardinality(Clients)
           /\ \A k \in DOMAIN connections :
                 /\ connections[k].inbox = << >> /\ connections[k].out = << >>
                 /\ connections[k].hand = Idle /\ connections[k].socket = "open"
                 /\ connections[k].stage \in {"join", "live"}
           /\ \A c \in Clients : conn[c] \in DOMAIN connections /\ connections[conn[c]].client = c
           /\ \A c \in Clients : conn[c] \in 0..Len(connections)
<1> DEFINE n == Cardinality(Clients)
           start(k) == LET c == SetToSeq(Clients)[k]
                       IN IF c \in Roaming THEN Opened(c, 0) ELSE Joined(c)
           C == Connection
<1>1. n \in Nat
  BY ClientsInSequence
<1>2. connections = [k \in 1..n |-> start(k)] /\ Len(log) = 0
  BY DEF Init
<1>3. \A c \in Clients : Opened(c, 0) \in C /\ Joined(c) \in C
  <2> TAKE c \in Clients
  <2>1. << >> \in Seq(Message) /\ << >> \in Seq(ServerMessage) /\ Idle \in Hand /\ 0 \in 0..Len(log)
    BY <1>2 DEF Hand
  <2>2. Opened(c, 0) \in C
    BY <2>1 DEF Opened, Connection
  <2>3. Joined(c) \in C
    BY <2>2, ConnectionParts DEF Joined, Connection
  <2>4. QED
    BY <2>2, <2>3
<1>4. \A k \in 1..n : /\ start(k) \in C /\ start(k).client = SetToSeq(Clients)[k]
                      /\ start(k).inbox = << >> /\ start(k).out = << >>
                      /\ start(k).hand = Idle /\ start(k).socket = "open"
                      /\ start(k).stage \in {"join", "live"}
  BY <1>3, ClientsInSequence DEF Opened, Joined
<1> HIDE DEF C, start, n
<1>5. connections \in Seq(C) /\ Len(connections) = n /\ DOMAIN connections = 1..n
      /\ \A k \in 1..n : connections[k] = start(k)
  <2>1. connections \in [1..n -> C]
    BY <1>2, <1>4
  <2>2. QED
    BY <1>1, <1>2, <2>1
<1>6. \A c \in Clients : conn[c] \in 1..n /\ connections[conn[c]].client = c
  <2> TAKE c \in Clients
  <2>1. conn[c] = CHOOSE k \in 1..n : SetToSeq(Clients)[k] = c
    BY DEF Init, n
  <2>2. \E k \in 1..n : SetToSeq(Clients)[k] = c
    BY ClientsInSequence DEF n
  <2>3. conn[c] \in 1..n /\ SetToSeq(Clients)[conn[c]] = c
    BY <2>1, <2>2
  <2>4. QED
    BY <1>4, <1>5, <2>3
<1>7. \A c \in Clients : conn[c] \in 0..Len(connections)
  BY <1>1, <1>5, <1>6
<1>8. QED
  BY <1>4, <1>5, <1>6, <1>7 DEF C, n

\* The start is of its type.
LEMMA InitTyped == Init => TypeOK
<1> SUFFICES ASSUME Init PROVE TypeOK
  OBVIOUS
<1>1. connections \in Seq(Connection) /\ \A c \in Clients : conn[c] \in 0..Len(connections)
  BY InitParts
<1>2. conn \in [Clients -> 0..Len(connections)]
  <2>1. DOMAIN conn = Clients /\ conn = [c \in Clients |-> conn[c]]
    BY DEF Init
  <2>2. QED
    BY <1>1, <2>1
<1>3. EmptyDoc \in Document /\ << >> \in Seq(Message)
  BY DEF EmptyDoc, Document
<1>4. log = << >> /\ Len(log) = 0 /\ 0 \in 0..Len(log)
  BY DEF Init
<1>5. /\ joined \in [Clients -> BOOLEAN] /\ gaveUp \in [Clients -> BOOLEAN]
      /\ doc \in [Clients -> Document] /\ clientSeq \in [Clients -> Nat]
      /\ queue \in [Clients -> Seq(Message)]
  BY <1>3 DEF Init
<1>6. lastSeq \in [Clients -> 0..Len(log)] /\ typed \in [Clients -> 0..MaxEdits]
  BY <1>4, BoundsAssumption DEF Init
<1>7. /\ memory \in Document /\ log \in Seq(Message)
      /\ nonces \subseteq Nonce /\ expired \subseteq Nonce /\ gap \in BOOLEAN /\ failed \in BOOLEAN
  BY <1>3 DEF Init
<1>8. channel \in Seq(DOMAIN log) /\ fanned \in 0..Len(channel)
  <2>1. channel = << >> /\ fanned = 0
    BY DEF Init
  <2>2. << >> \in Seq(DOMAIN log) /\ Len(<< >>) = 0
    OBVIOUS
  <2>3. QED
    BY <2>1, <2>2
<1>9. drops \in 0..MaxDrops /\ incidents \in 0..MaxIncidents
  BY BoundsAssumption DEF Init
<1>10. QED
  BY <1>1, <1>2, <1>5, <1>6, <1>7, <1>8, <1>9 DEF TypeOK

\* Every step leaves the state of its type.
LEMMA NextTyped == TypeOK /\ [Next]_vars => TypeOK'
<1> SUFFICES ASSUME TypeOK, [Next]_vars PROVE TypeOK'
  OBVIOUS
<1>1. CASE UNCHANGED vars
  BY <1>1, StutterTyped
<1>2. ASSUME NEW c \in Clients, Connect(c) \/ Type(c) \/ Receive(c) \/ Drop(c) \/ Reload(c)
      PROVE  TypeOK'
  BY <1>2, ConnectTyped, TypeTyped, JoinAckTyped, ReceiveTyped, LeavingTyped DEF Receive
<1>3. ASSUME NEW k \in DOMAIN connections, Joining(k) \/ RejectEarly(k)
      PROVE  TypeOK'
  BY <1>3, JoiningTyped
<1>4. ASSUME NEW k \in DOMAIN connections, Handle(k) \/ Refuse(k) \/ HandlerFails(k)
      PROVE  TypeOK'
  BY <1>4, TakeTyped, PersistTyped, HandleTyped DEF Handle
<1>5. CASE FanOut
  BY <1>5, FanOutTyped
<1>6. CASE Expire
  BY <1>6, ExpireTyped
<1>7. CASE Rest
  BY <1>7, StutterTyped DEF Rest
<1>8. QED
  BY <1>1, <1>2, <1>3, <1>4, <1>5, <1>6, <1>7 DEF Next

\* Clients, connections with their handlers, memory, table and channel stay what
\* they are: no message speaks of a seq the table does not have, and a handler
\* knows a row only once it is stored (websocket-server.ts, useSyncedEditor).
THEOREM SyncTypeCorrect == Spec => []TypeOK
<1>1. QED
  BY InitTyped, NextTyped, PTL DEF Spec

----------------------------------------------------------------------------
(* Operations are stored once. *)

\* A connection as far as these proofs look into it: it has a hand, with a
\* stage and a message.
HasHand(connection) ==
    /\ "hand" \in DOMAIN connection
    /\ "stage" \in DOMAIN connection.hand /\ "msg" \in DOMAIN connection.hand

ConnectionsHaveHands ==
    /\ \E S : connections \in Seq(S)
    /\ \A k \in DOMAIN connections : HasHand(connections[k])

LogIsSequence == \E S : log \in Seq(S)

\* The handler of the session k is between the replay guard and the table.
Storing(k) == connections[k].hand.stage = "append"

NonceInHand(k) == connections[k].hand.msg.nonce

\* Who got past the guard left a nonce there, remembered or expired.
NoncesAreKept ==
    /\ \A i \in DOMAIN log : log[i].nonce \in nonces \cup expired
    /\ \A k \in DOMAIN connections : Storing(k) => NonceInHand(k) \in nonces \cup expired

\* No two handlers are about to store the same operation, nor one what the
\* table has, but for a nonce that expired.
StoringOnce ==
    /\ \A k, l \in DOMAIN connections :
          Storing(k) /\ Storing(l) /\ NonceInHand(k) = NonceInHand(l)
              => k = l \/ NonceInHand(k) \in expired
    /\ \A i \in DOMAIN log, k \in DOMAIN connections :
          Storing(k) /\ log[i].nonce = NonceInHand(k) => NonceInHand(k) \in expired

IInv ==
    /\ ConnectionsHaveHands /\ LogIsSequence
    /\ NoncesAreKept /\ StoringOnce /\ StoredOnce

----------------------------------------------------------------------------
(* Steps that store nothing. *)

\* A connection that had something to store in its hand before a step has it
\* still, or lets go of it; none gets anything.
HandsLetGo ==
    \A k \in DOMAIN connections' :
        Storing(k)' => /\ k \in DOMAIN connections /\ Storing(k)
                       /\ NonceInHand(k)' = NonceInHand(k)

\* Nothing is stored, no hand is filled, and no nonce is lost: the invariant
\* stays (everything but isReplay's registration and appendOperation).
LEMMA LettingGoKeepsIInv ==
    ASSUME IInv, ConnectionsHaveHands', HandsLetGo, log' = log,
           nonces \cup expired \subseteq nonces' \cup expired', expired \subseteq expired'
    PROVE  IInv'
<1>1. LogIsSequence'
  BY DEF IInv, LogIsSequence
<1>2. NoncesAreKept'
  BY DEF IInv, NoncesAreKept, HandsLetGo
<1>3. StoringOnce'
  BY DEF IInv, StoringOnce, HandsLetGo
<1>4. StoredOnce'
  BY DEF IInv, StoredOnce
<1>5. QED
  BY <1>1, <1>2, <1>3, <1>4 DEF IInv

\* One connection becomes another record, which has a hand.
LEMMA OneConnection ==
    ASSUME ConnectionsHaveHands, NEW k, NEW r, k \in DOMAIN connections => HasHand(r),
           connections' = [connections EXCEPT ![k] = r]
    PROVE  /\ ConnectionsHaveHands'
           /\ DOMAIN connections' = DOMAIN connections
           /\ \A l \in DOMAIN connections : connections'[l] = IF l = k THEN r ELSE connections[l]
<1>1. PICK S : connections \in Seq(S)
  BY DEF ConnectionsHaveHands
<1>2. connections' \in Seq(S \cup {r})
  <2>1. PICK n \in Nat : connections \in [1..n -> S]
    BY <1>1
  <2>2. connections' \in [1..n -> S \cup {r}]
    BY <2>1
  <2>3. QED
    BY <2>1, <2>2
<1>3. DOMAIN connections' = DOMAIN connections
  OBVIOUS
<1>4. \A l \in DOMAIN connections : connections'[l] = IF l = k THEN r ELSE connections[l]
  OBVIOUS
<1>5. \A l \in DOMAIN connections' : HasHand(connections'[l])
  BY <1>3, <1>4 DEF ConnectionsHaveHands
<1>6. QED
  BY <1>2, <1>3, <1>4, <1>5 DEF ConnectionsHaveHands

\* One connection changes and neither gets anything to store nor is anything
\* stored: sending, receiving and joining are such steps.
LEMMA OneConnectionLetsGo ==
    ASSUME IInv, NEW k, NEW r, connections' = [connections EXCEPT ![k] = r],
           k \in DOMAIN connections =>
               /\ HasHand(r)
               /\ r.hand.stage = "append" => r.hand = connections[k].hand,
           UNCHANGED <<log, nonces, expired>>
    PROVE  IInv'
<1>1. /\ ConnectionsHaveHands' /\ DOMAIN connections' = DOMAIN connections
      /\ \A l \in DOMAIN connections : connections'[l] = IF l = k THEN r ELSE connections[l]
  BY OneConnection DEF IInv
<1>2. HandsLetGo
  BY <1>1 DEF HandsLetGo, Storing, NonceInHand
<1>3. QED
  BY <1>1, <1>2, LettingGoKeepsIInv

\* sendToSession adds to what goes out, or does nothing.
LEMMA ToldKeepsHand ==
    ASSUME NEW connection, HasHand(connection), NEW msg
    PROVE  HasHand(Told(connection, msg)) /\ Told(connection, msg).hand = connection.hand
BY DEF HasHand, Told

\* connect(): a new connection has nothing in hand.
LEMMA ConnectKeepsIInv ==
    ASSUME IInv, NEW c \in Clients, Connect(c)
    PROVE  IInv'
<1> DEFINE new == Opened(c, lastSeq[c])
<1>1. connections' = Append(connections, new) /\ UNCHANGED <<log, nonces, expired>>
  BY DEF Connect, serverVars, storeVars, guardVars
<1>2. HasHand(new) /\ new.hand.stage # "append"
  BY DEF HasHand, Opened, Idle
<1> HIDE DEF new
<1>3. PICK S : connections \in Seq(S)
  BY DEF IInv, ConnectionsHaveHands
<1>4. connections' \in Seq(S \cup {new})
  <2>1. connections \in Seq(S \cup {new})
    <3>1. PICK n \in Nat : connections \in [1..n -> S]
      BY <1>3
    <3>2. connections \in [1..n -> S \cup {new}]
      BY <3>1
    <3>3. QED
      BY <3>1, <3>2
  <2>2. QED
    BY <1>1, <2>1
<1>5. \A l \in DOMAIN connections' :
         \/ l \in DOMAIN connections /\ connections'[l] = connections[l]
         \/ connections'[l] = new
  BY <1>1, <1>3
<1>6. ConnectionsHaveHands'
  BY <1>2, <1>4, <1>5 DEF IInv, ConnectionsHaveHands
<1>7. HandsLetGo
  BY <1>2, <1>5 DEF HandsLetGo, Storing, NonceInHand
<1>8. QED
  BY <1>1, <1>6, <1>7, LettingGoKeepsIInv

\* The steps of the JOIN handler to JOIN_ACK leave hands alone.
LEMMA JoiningKeepsIInv ==
    ASSUME IInv, NEW k \in DOMAIN connections, Joining(k) \/ RejectEarly(k)
    PROVE  IInv'
<1>1. HasHand(connections[k])
  BY DEF IInv, ConnectionsHaveHands
<1>2. CASE ReadMissed(k)
  <2> DEFINE r == [connections[k] EXCEPT !.stage = "missed", !.upto = Len(log)]
  <2>1. HasHand(r) /\ r.hand = connections[k].hand
    BY <1>1 DEF HasHand
  <2>2. connections' = [connections EXCEPT ![k] = r] /\ UNCHANGED <<log, nonces, expired>>
    BY <1>2 DEF ReadMissed, serverVars, storeVars, guardVars
  <2> HIDE DEF r
  <2>3. QED
    BY <2>1, <2>2, OneConnectionLetsGo
<1>3. CASE Register(k)
  <2> DEFINE r == [connections[k] EXCEPT !.stage = "registered"]
  <2>1. HasHand(r) /\ r.hand = connections[k].hand
    BY <1>1 DEF HasHand
  <2>2. connections' = [connections EXCEPT ![k] = r] /\ UNCHANGED <<log, nonces, expired>>
    BY <1>3 DEF Register, serverVars, storeVars, guardVars
  <2> HIDE DEF r
  <2>3. QED
    BY <2>1, <2>2, OneConnectionLetsGo
<1>4. CASE SendAck(k)
  <2>1. PICK ack, whole :
           /\ connections' = [connections EXCEPT
                 ![k] = [Told(@, ack) EXCEPT !.stage = "live", !.whole = whole]]
           /\ UNCHANGED <<log, nonces, expired>>
    BY <1>4 DEF SendAck, serverVars, storeVars, guardVars
  <2> DEFINE r == [Told(connections[k], ack) EXCEPT !.stage = "live", !.whole = whole]
  <2>2. HasHand(r) /\ r.hand = connections[k].hand
    BY <1>1, ToldKeepsHand DEF HasHand
  <2>3. connections' = [connections EXCEPT ![k] = r]
    BY <2>1
  <2> HIDE DEF r
  <2>4. QED
    BY <2>1, <2>2, <2>3, OneConnectionLetsGo
<1>5. CASE RejectEarly(k)
  <2> DEFINE r == [Told(connections[k], Close) EXCEPT !.inbox = Tail(@), !.socket = "closing"]
  <2>1. HasHand(r) /\ r.hand = connections[k].hand
    BY <1>1, ToldKeepsHand DEF HasHand
  <2>2. connections' = [connections EXCEPT ![k] = r] /\ UNCHANGED <<log, nonces, expired>>
    BY <1>5 DEF RejectEarly, serverVars, storeVars, guardVars
  <2> HIDE DEF r
  <2>3. QED
    BY <2>1, <2>2, OneConnectionLetsGo
<1>6. QED
  BY <1>2, <1>3, <1>4, <1>5 DEF Joining

\* What a connection has in its hand is the server's: messages that clients
\* send or receive go to inbox and from out.
LEMMA ClientsLeaveHands ==
    ASSUME IInv, NEW k, NEW r,
           connections' = [connections EXCEPT ![k] = r],
           k \in DOMAIN connections => DOMAIN r = DOMAIN connections[k] /\ r.hand = connections[k].hand,
           UNCHANGED serverVars
    PROVE  IInv'
<1>1. k \in DOMAIN connections => HasHand(connections[k])
  BY DEF IInv, ConnectionsHaveHands
<1>2. k \in DOMAIN connections => HasHand(r)
  BY <1>1 DEF HasHand
<1>3. QED
  BY <1>2, OneConnectionLetsGo DEF serverVars, storeVars, guardVars

\* Nothing changes but on pages.
LEMMA PagesLeaveHands ==
    ASSUME IInv, UNCHANGED <<connections, serverVars>>
    PROVE  IInv'
BY DEF IInv, ConnectionsHaveHands, LogIsSequence, NoncesAreKept, StoringOnce, StoredOnce,
       Storing, NonceInHand, serverVars, storeVars, guardVars

\* The editor's steps, the end of its connection and a new page included.
LEMMA ClientKeepsIInv ==
    ASSUME IInv, NEW c \in Clients, Type(c) \/ Receive(c) \/ Drop(c) \/ Reload(c)
    PROVE  IInv'
<1> DEFINE k == conn[c]
<1>1. k \in DOMAIN connections => HasHand(connections[k])
  BY DEF IInv, ConnectionsHaveHands
<1>2. ASSUME NEW messages, SentUp(k, messages), UNCHANGED serverVars
      PROVE  IInv'
  <2> DEFINE r == [connections[k] EXCEPT !.inbox = @ \o messages]
  <2>1. CASE k = 0
    BY <1>2, <2>1, PagesLeaveHands DEF SentUp
  <2>2. CASE k # 0
    <3>1. connections' = [connections EXCEPT ![k] = r]
      BY <1>2, <2>2 DEF SentUp
    <3>2. k \in DOMAIN connections => DOMAIN r = DOMAIN connections[k] /\ r.hand = connections[k].hand
      BY <1>1 DEF HasHand
    <3> HIDE DEF k, r
    <3>3. QED
      BY <1>2, <3>1, <3>2, ClientsLeaveHands
  <2>3. QED
    BY <2>1, <2>2
<1>3. ASSUME Received(c), UNCHANGED serverVars
      PROVE  IInv'
  <2> DEFINE r == [connections[k] EXCEPT !.out = Tail(@)]
  <2>1. connections' = [connections EXCEPT ![k] = r]
    BY <1>3 DEF Received
  <2>2. k \in DOMAIN connections => DOMAIN r = DOMAIN connections[k] /\ r.hand = connections[k].hand
    BY <1>1 DEF HasHand
  <2> HIDE DEF k, r
  <2>3. QED
    BY <1>3, <2>1, <2>2, ClientsLeaveHands
<1>4. ASSUME NEW n, Cut(k, n), UNCHANGED serverVars
      PROVE  IInv'
  <2> DEFINE r == [connections[k] EXCEPT
                      !.socket = "gone", !.stage = IF Registered(k) THEN "live" ELSE "join",
                      !.since = 0, !.upto = 0, !.whole = FALSE,
                      !.inbox = SubSeq(@, 1, n), !.out = << >>]
  <2>1. connections' = [connections EXCEPT ![k] = r]
    BY <1>4 DEF Cut
  <2>2. k \in DOMAIN connections => DOMAIN r = DOMAIN connections[k] /\ r.hand = connections[k].hand
    BY <1>1 DEF HasHand
  <2> HIDE DEF k, r
  <2>3. QED
    BY <1>4, <2>1, <2>2, ClientsLeaveHands
<1>5. CASE Type(c)
  BY <1>2, <1>5 DEF Type
<1>6. CASE ReceiveJoinAck(c)
  <2> DEFINE r == [connections[k] EXCEPT !.out = Tail(@), !.inbox = @ \o queue[c]]
  <2>1. connections' = [connections EXCEPT ![k] = r] /\ UNCHANGED serverVars
    BY <1>6 DEF ReceiveJoinAck
  <2>2. k \in DOMAIN connections => DOMAIN r = DOMAIN connections[k] /\ r.hand = connections[k].hand
    BY <1>1 DEF HasHand
  <2> HIDE DEF k, r
  <2>3. QED
    BY <2>1, <2>2, ClientsLeaveHands
<1>7. CASE ReceiveAck(c)
  BY <1>3, <1>7 DEF ReceiveAck
<1>8. CASE ReceiveBroadcast(c)
  BY <1>3, <1>8 DEF ReceiveBroadcast
<1>9. CASE ReceiveClose(c)
  BY <1>4, <1>9 DEF ReceiveClose
<1>10. CASE Drop(c)
  BY <1>4, <1>10 DEF Drop
<1>11. CASE Reload(c)
  BY <1>11, PagesLeaveHands DEF Reload
<1>12. QED
  BY <1>5, <1>6, <1>7, <1>8, <1>9, <1>10, <1>11 DEF Receive

----------------------------------------------------------------------------
(* The handler. *)

\* isReplay lets an operation pass whose nonce it does not remember: either
\* nobody stored nor is storing it, or the nonce was there and expired.
LEMMA TakeKeepsIInv ==
    ASSUME IInv, NEW k \in DOMAIN connections, Take(k)
    PROVE  IInv'
<1> DEFINE msg == Head(connections[k].inbox)
           r == [connections[k] EXCEPT !.inbox = Tail(@),
                                       !.hand = [Idle EXCEPT !.stage = "append", !.msg = msg]]
<1>1. HasHand(connections[k])
  BY DEF IInv, ConnectionsHaveHands
<1>2. HasHand(r) /\ r.hand.stage = "append" /\ r.hand.msg = msg
  BY <1>1 DEF HasHand, Idle
<1>3. /\ connections' = [connections EXCEPT ![k] = r]
      /\ msg.nonce \notin nonces /\ nonces' = nonces \cup {msg.nonce}
      /\ UNCHANGED <<log, expired>>
  BY DEF Take, Accept, storeVars
<1> HIDE DEF msg, r
<1>4. /\ ConnectionsHaveHands' /\ DOMAIN connections' = DOMAIN connections
      /\ \A l \in DOMAIN connections : connections'[l] = IF l = k THEN r ELSE connections[l]
  BY <1>2, <1>3, OneConnection DEF IInv
<1>5. \A l \in DOMAIN connections' :
         IF l = k THEN Storing(l)' /\ NonceInHand(l)' = msg.nonce
         ELSE (Storing(l)' <=> Storing(l)) /\ NonceInHand(l)' = NonceInHand(l)
  BY <1>2, <1>4 DEF Storing, NonceInHand
<1>6. msg.nonce \in expired \/ msg.nonce \notin nonces \cup expired
  BY <1>3
<1>7. LogIsSequence' /\ StoredOnce'
  BY <1>3 DEF IInv, LogIsSequence, StoredOnce
<1>8. NoncesAreKept'
  BY <1>3, <1>4, <1>5 DEF IInv, NoncesAreKept
<1>9. StoringOnce'
  BY <1>3, <1>4, <1>5, <1>6 DEF IInv, StoringOnce, NoncesAreKept
<1>10. QED
  BY <1>4, <1>7, <1>8, <1>9 DEF IInv

\* appendOperation: what it adds nobody else stored, nor is going to.
LEMMA PersistKeepsIInv ==
    ASSUME IInv, NEW k \in DOMAIN connections, Persist(k)
    PROVE  IInv'
<1> DEFINE msg == connections[k].hand.msg
           hand == [connections[k].hand EXCEPT !.stage = "publish", !.seq = Len(log) + 1]
           r == [connections[k] EXCEPT !.hand = hand]
<1>1. HasHand(connections[k])
  BY DEF IInv, ConnectionsHaveHands
<1>2. HasHand(r) /\ r.hand.stage # "append"
  BY <1>1 DEF HasHand
<1>3. /\ Storing(k) /\ NonceInHand(k) = msg.nonce
      /\ log' = Append(log, msg) /\ UNCHANGED <<nonces, expired>>
  BY DEF Persist, guardVars, Storing, NonceInHand
<1>4. connections' = [connections EXCEPT ![k] = r]
  BY <1>1 DEF Persist, HasHand
<1> HIDE DEF msg, hand, r
<1>5. /\ ConnectionsHaveHands' /\ DOMAIN connections' = DOMAIN connections
      /\ \A l \in DOMAIN connections : connections'[l] = IF l = k THEN r ELSE connections[l]
  BY <1>2, <1>4, OneConnection DEF IInv
<1>6. \A l \in DOMAIN connections' :
         Storing(l)' => l # k /\ Storing(l) /\ NonceInHand(l)' = NonceInHand(l)
  BY <1>2, <1>5 DEF Storing, NonceInHand
<1>7. PICK S : log \in Seq(S)
  BY DEF IInv, LogIsSequence
<1>8. log \in Seq(S \cup {msg})
  <2>1. PICK n \in Nat : log \in [1..n -> S]
    BY <1>7
  <2>2. log \in [1..n -> S \cup {msg}]
    BY <2>1
  <2>3. QED
    BY <2>1, <2>2
<1>9. LogIsSequence'
  BY <1>3, <1>8 DEF LogIsSequence
<1>10. /\ \A i \in DOMAIN log : log'[i] = log[i]
       /\ \A i \in DOMAIN log' : i \in DOMAIN log \/ (i = Len(log) + 1 /\ log'[i] = msg)
  BY <1>3, <1>7
<1>11. \A i \in DOMAIN log : log[i].nonce = msg.nonce => msg.nonce \in expired
  BY <1>3 DEF IInv, StoringOnce
<1>12. StoredOnce'
  <2> SUFFICES ASSUME NEW i \in DOMAIN log', NEW j \in DOMAIN log',
                      log'[i].nonce = log'[j].nonce, i # j
               PROVE  log'[i].nonce \in expired
    BY <1>3 DEF StoredOnce
  <2>1. CASE i \in DOMAIN log /\ j \in DOMAIN log
    BY <1>10, <2>1 DEF IInv, StoredOnce
  <2>2. CASE i \in DOMAIN log /\ j = Len(log) + 1 /\ log'[j] = msg
    BY <1>10, <1>11, <2>2
  <2>3. CASE j \in DOMAIN log /\ i = Len(log) + 1 /\ log'[i] = msg
    BY <1>10, <1>11, <2>3
  <2>4. QED
    BY <1>10, <2>1, <2>2, <2>3
<1>13. NoncesAreKept'
  <2>1. msg.nonce \in nonces \cup expired
    BY <1>3 DEF IInv, NoncesAreKept
  <2>2. \A i \in DOMAIN log' : log'[i].nonce \in nonces' \cup expired'
    BY <1>3, <1>10, <2>1 DEF IInv, NoncesAreKept
  <2>3. QED
    BY <1>3, <1>5, <1>6, <2>2 DEF IInv, NoncesAreKept
<1>14. StoringOnce'
  <2>1. ASSUME NEW i \in DOMAIN log', NEW l \in DOMAIN connections',
               Storing(l)', log'[i].nonce = NonceInHand(l)'
        PROVE  NonceInHand(l)' \in expired'
    <3>1. l \in DOMAIN connections /\ l # k /\ Storing(l) /\ NonceInHand(l)' = NonceInHand(l)
      BY <1>5, <1>6, <2>1
    <3>2. CASE i \in DOMAIN log
      BY <1>3, <1>10, <2>1, <3>1, <3>2 DEF IInv, StoringOnce
    <3>3. CASE log'[i] = msg
      <4>1. NonceInHand(l) = NonceInHand(k)
        BY <1>3, <2>1, <3>1, <3>3
      <4>2. QED
        BY <1>3, <3>1, <4>1 DEF IInv, StoringOnce
    <3>4. QED
      BY <1>10, <3>2, <3>3
  <2>2. \A l, m \in DOMAIN connections' :
           Storing(l)' /\ Storing(m)' /\ NonceInHand(l)' = NonceInHand(m)'
               => l = m \/ NonceInHand(l)' \in expired'
    BY <1>3, <1>5, <1>6 DEF IInv, StoringOnce
  <2>3. QED
    BY <2>1, <2>2 DEF StoringOnce
<1>15. QED
  BY <1>5, <1>9, <1>12, <1>13, <1>14 DEF IInv

\* Refusing takes a message away; publishing, acknowledging and failing leave
\* nothing in hand that is still to be stored.
LEMMA HandleKeepsIInv ==
    ASSUME IInv, NEW k \in DOMAIN connections, Handle(k) \/ Refuse(k) \/ HandlerFails(k)
    PROVE  IInv'
<1>1. HasHand(connections[k])
  BY DEF IInv, ConnectionsHaveHands
<1>2. ASSUME Discard(k), UNCHANGED <<log, nonces, expired>>
      PROVE  IInv'
  <2> DEFINE r == [connections[k] EXCEPT !.inbox = Tail(@)]
  <2>1. HasHand(r) /\ r.hand = connections[k].hand
    BY <1>1 DEF HasHand
  <2>2. connections' = [connections EXCEPT ![k] = r]
    BY <1>2 DEF Discard
  <2> HIDE DEF r
  <2>3. QED
    BY <1>2, <2>1, <2>2, OneConnectionLetsGo
<1>3. CASE RefuseReplay(k)
  BY <1>2, <1>3 DEF RefuseReplay, serverVars, storeVars, guardVars
<1>4. CASE Refuse(k)
  BY <1>2, <1>4 DEF Refuse, storeVars, guardVars
<1>5. CASE Publish(k)
  <2> DEFINE hand == [connections[k].hand EXCEPT !.stage = "acknowledge"]
             r == [connections[k] EXCEPT !.hand = hand]
  <2>1. HasHand(r) /\ r.hand.stage # "append"
    BY <1>1 DEF HasHand
  <2>2. connections' = [connections EXCEPT ![k] = r] /\ UNCHANGED <<log, nonces, expired>>
    BY <1>5 DEF Publish, guardVars
  <2> HIDE DEF r
  <2>3. QED
    BY <2>1, <2>2, OneConnectionLetsGo
<1>6. CASE Acknowledge(k)
  <2>1. PICK ack : /\ connections' = [connections EXCEPT ![k] = [Told(@, ack) EXCEPT !.hand = Idle]]
                   /\ UNCHANGED <<log, nonces, expired>>
    BY <1>6 DEF Acknowledge, serverVars, storeVars, guardVars
  <2> DEFINE r == [Told(connections[k], ack) EXCEPT !.hand = Idle]
  <2>2. HasHand(r) /\ r.hand.stage # "append"
    BY <1>1, ToldKeepsHand DEF HasHand, Idle
  <2>3. connections' = [connections EXCEPT ![k] = r]
    BY <2>1
  <2> HIDE DEF r
  <2>4. QED
    BY <2>1, <2>2, <2>3, OneConnectionLetsGo
<1>7. CASE HandlerFails(k)
  <2> DEFINE r == [connections[k] EXCEPT !.hand = Idle]
  <2>1. HasHand(r) /\ r.hand.stage # "append"
    BY <1>1 DEF HasHand, Idle
  <2>2. connections' = [connections EXCEPT ![k] = r] /\ UNCHANGED <<log, nonces, expired>>
    BY <1>7 DEF HandlerFails, guardVars
  <2> HIDE DEF r
  <2>3. QED
    BY <2>1, <2>2, OneConnectionLetsGo
<1>8. QED
  BY <1>3, <1>4, <1>5, <1>6, <1>7, TakeKeepsIInv, PersistKeepsIInv DEF Handle

\* The fan-out sends, to all sessions at once.
LEMMA FanOutKeepsIInv ==
    ASSUME IInv, FanOut
    PROVE  IInv'
<1> DEFINE msg == Broadcast(channel[fanned + 1])
           told(k) == IF Registered(k) THEN Told(connections[k], msg) ELSE connections[k]
<1>1. /\ connections' = [k \in DOMAIN connections |-> told(k)]
      /\ UNCHANGED <<log, nonces, expired>>
  BY DEF FanOut, guardVars
<1>2. \A k \in DOMAIN connections : HasHand(told(k)) /\ told(k).hand = connections[k].hand
  BY ToldKeepsHand DEF IInv, ConnectionsHaveHands
<1> HIDE DEF told
<1>3. /\ DOMAIN connections' = DOMAIN connections
      /\ \A k \in DOMAIN connections : connections'[k] = told(k)
  BY <1>1
<1>4. PICK S : connections \in Seq(S)
  BY DEF IInv, ConnectionsHaveHands
<1>5. \E T : connections' \in Seq(T)
  <2> DEFINE T == {told(k) : k \in DOMAIN connections}
  <2>1. PICK n \in Nat : DOMAIN connections = 1..n
    BY <1>4
  <2>2. connections' \in [1..n -> T]
    BY <1>1, <2>1
  <2>3. connections' \in Seq(T)
    BY <2>1, <2>2
  <2>4. QED
    BY <2>3
<1>6. ConnectionsHaveHands'
  BY <1>2, <1>3, <1>5 DEF ConnectionsHaveHands
<1>7. HandsLetGo
  BY <1>2, <1>3 DEF HandsLetGo, Storing, NonceInHand
<1>8. QED
  BY <1>1, <1>6, <1>7, LettingGoKeepsIInv

----------------------------------------------------------------------------
\* Everybody has one connection, with nothing in hand, and nothing is stored.
LEMMA InitIInv == Init => IInv
<1> SUFFICES ASSUME Init PROVE IInv
  OBVIOUS
<1> DEFINE n == Cardinality(Clients)
           start(k) == LET c == SetToSeq(Clients)[k]
                       IN IF c \in Roaming THEN Opened(c, 0) ELSE Joined(c)
<1>1. n \in Nat
  BY ClientsAssumption, FS_CardinalityType
<1>2. connections = [k \in 1..n |-> start(k)] /\ log = << >>
  BY DEF Init
<1>3. \A k \in 1..n : HasHand(start(k)) /\ start(k).hand.stage # "append"
  BY DEF HasHand, Opened, Joined, Idle
<1> HIDE DEF start, n
<1>4. DOMAIN connections = 1..n /\ \A k \in 1..n : connections[k] = start(k)
  BY <1>2
<1>5. connections \in Seq({start(k) : k \in 1..n})
  <2> DEFINE T == {start(k) : k \in 1..n}
  <2>1. connections \in [1..n -> T]
    BY <1>2
  <2> HIDE DEF T
  <2>2. connections \in Seq(T)
    BY <1>1, <2>1
  <2>3. QED
    BY <2>2 DEF T
<1>6. ConnectionsHaveHands
  BY <1>3, <1>4, <1>5 DEF ConnectionsHaveHands
<1>7. \A k \in DOMAIN connections : ~Storing(k)
  BY <1>3, <1>4 DEF Storing
<1>8. DOMAIN log = {} /\ LogIsSequence
  BY <1>2 DEF LogIsSequence
<1>9. QED
  BY <1>6, <1>7, <1>8 DEF IInv, NoncesAreKept, StoringOnce, StoredOnce

\* Every step keeps the invariant; forgetting a nonce makes it an expired one.
LEMMA NextKeepsIInv == IInv /\ [Next]_vars => IInv'
<1> SUFFICES ASSUME IInv, [Next]_vars PROVE IInv'
  OBVIOUS
<1>1. CASE UNCHANGED vars
  BY <1>1, PagesLeaveHands DEF vars
<1>2. ASSUME NEW c \in Clients, Connect(c)
      PROVE  IInv'
  BY <1>2, ConnectKeepsIInv
<1>3. ASSUME NEW c \in Clients, Type(c) \/ Receive(c) \/ Drop(c) \/ Reload(c)
      PROVE  IInv'
  BY <1>3, ClientKeepsIInv
<1>4. ASSUME NEW k \in DOMAIN connections, Joining(k) \/ RejectEarly(k)
      PROVE  IInv'
  BY <1>4, JoiningKeepsIInv
<1>5. ASSUME NEW k \in DOMAIN connections, Handle(k) \/ Refuse(k) \/ HandlerFails(k)
      PROVE  IInv'
  BY <1>5, HandleKeepsIInv
<1>6. CASE FanOut
  BY <1>6, FanOutKeepsIInv
<1>7. CASE Expire
  <2>1. /\ connections' = connections /\ log' = log
        /\ nonces \cup expired \subseteq nonces' \cup expired' /\ expired \subseteq expired'
    BY <1>7 DEF Expire, storeVars
  <2>2. ConnectionsHaveHands' /\ HandsLetGo
    BY <2>1 DEF IInv, ConnectionsHaveHands, HandsLetGo, Storing, NonceInHand
  <2>3. QED
    BY <2>1, <2>2, LettingGoKeepsIInv
<1>8. CASE Rest
  BY <1>8, PagesLeaveHands DEF Rest, vars
<1>9. QED
  BY <1>1, <1>2, <1>3, <1>4, <1>5, <1>6, <1>7, <1>8 DEF Next

----------------------------------------------------------------------------
\* Operations that were let through the replay guard are different, unless
\* nonces expired (isReplay, handleOperation, appendOperation).
THEOREM GuardInvariance == Spec => []IInv
<1>1. QED
  BY InitIInv, NextKeepsIInv, PTL DEF Spec

\* An operation is stored once, however often connections are lost and queued
\* operations sent again, next to handlers of the lost connections that go on
\* (useSyncedEditor's onReconnect, isReplay, appendOperation).
THEOREM OperationsAreStoredOnce == Spec => []StoredOnce
<1>1. IInv => StoredOnce
  BY DEF IInv
<1>2. QED
  BY <1>1, GuardInvariance, PTL

----------------------------------------------------------------------------
(* What the offline queue rests on.                                        *)

\* A client is at one end of its connection; the server closes it only with a
\* close frame, which is still on its way.
AtOneEnd(c) ==
    conn[c] # 0 =>
        /\ connections[conn[c]].client = c
        /\ connections[conn[c]].socket # "gone"
        /\ connections[conn[c]].socket = "closing" => Close \in ToSet(connections[conn[c]].out)

Connected == \A c \in Clients : AtOneEnd(c)

\* After the table a handler knows its row.
HandsHoldStored ==
    \A k \in DOMAIN connections :
        connections[k].hand.stage \in {"publish", "acknowledge"} =>
            log[connections[k].hand.seq] = connections[k].hand.msg

\* The nonce that goes with the number n on the page c has open: keystrokes of
\* one page are numbered as they are counted.
PageNonce(c, n) == <<c, n - 1 + typed[c] - clientSeq[c]>>

\* Numbers in the queue, on the way to the session, in its handler, and in the
\* acknowledgements on the way back are those of one page.
Numbered(c) ==
    /\ \A msg \in ToSet(queue[c]) : msg.nonce = PageNonce(c, msg.clientSeq)
    /\ conn[c] # 0 =>
          /\ \A msg \in ToSet(connections[conn[c]].inbox) : msg.nonce = PageNonce(c, msg.clientSeq)
          /\ connections[conn[c]].hand.stage # "idle" =>
                connections[conn[c]].hand.msg.nonce = PageNonce(c, connections[conn[c]].hand.msg.clientSeq)
          /\ \A msg \in ToSet(connections[conn[c]].out) : msg.type = "OP_ACK" =>
                log[msg.serverSeq].nonce = PageNonce(c, msg.clientSeq)

NumbersNameNonces == ReloadQueued \/ \A c \in Clients : Numbered(c)

HasStored(nonce) == \E i \in DOMAIN log : log[i].nonce = nonce

\* The operation of this nonce is stored, or a handler is about to store it.
Stands(nonce) ==
    \/ HasStored(nonce)
    \/ \E k \in DOMAIN connections : Storing(k) /\ NonceInHand(k) = nonce

\* A JOIN_ACK or a close frame is on its way.
Announced(k) == \E msg \in ToSet(connections[k].out) : msg.type \in {"JOIN_ACK", "CLOSE"}

\* The queue will be sent again, or all of it was sent and what is no longer
\* under way was taken up.
Looked(c) ==
    conn[c] # 0 =>
        \/ connections[conn[c]].stage # "live"
        \/ Announced(conn[c])
        \/ \A msg \in ToSet(queue[c]) :
              msg \in ToSet(connections[conn[c]].inbox) \/ Stands(msg.nonce)

NothingForgotten ==
    ~failed => /\ \A nonce \in nonces : Stands(nonce)
               /\ \A c \in Clients : Looked(c)

SyncInv == Connected /\ HandsHoldStored /\ NumbersNameNonces /\ NothingForgotten

----------------------------------------------------------------------------
(* Steps of the server. *)

\* How a connection looks after a step of the server: messages come to the
\* inbox from clients only, what is sent is not taken back, and what leaves the
\* inbox is remembered, or the client is told that it is over.
Served(k) ==
    LET x == connections[k]
        y == connections'[k]
    IN /\ y.client = x.client
       /\ y.socket = x.socket \/ (y.socket = "closing" /\ Close \in ToSet(y.out))
       /\ ToSet(x.out) \subseteq ToSet(y.out)
       /\ ToSet(y.inbox) \subseteq ToSet(x.inbox)
       /\ \A msg \in ToSet(y.out) \ ToSet(x.out) : msg.type = "OP_ACK" =>
             /\ x.hand.stage = "acknowledge"
             /\ msg.clientSeq = x.hand.msg.clientSeq /\ msg.serverSeq = x.hand.seq
       /\ y.hand.stage # "idle" =>
             \/ x.hand.stage # "idle" /\ y.hand.msg = x.hand.msg
             \/ y.hand.msg \in ToSet(x.inbox)
       /\ y.hand.stage \in {"publish", "acknowledge"} => log'[y.hand.seq] = y.hand.msg
       /\ y.stage = "live" /\ x.stage # "live" => x.socket = "closing" \/ Announced(k)'
       /\ ~failed' =>
             /\ \A msg \in ToSet(x.inbox) \ ToSet(y.inbox) :
                   msg.nonce \in nonces' \/ x.socket = "closing" \/ Announced(k)'
             /\ x.hand.stage = "append" =>
                   y.hand = x.hand \/ \E i \in DOMAIN log' : log'[i].nonce = x.hand.msg.nonce

\* A step of the server: the table grows at its end, and who got past the
\* replay guard is about to store.
ServerStep ==
    /\ UNCHANGED clientVars
    /\ DOMAIN connections' = DOMAIN connections
    /\ \A i \in DOMAIN log : i \in DOMAIN log' /\ log'[i] = log[i]
    /\ failed => failed'
    /\ ~failed' => \A nonce \in nonces' : nonce \in nonces \/ Stands(nonce)'
    /\ \A k \in DOMAIN connections : Served(k)

\* What is stored or about to be stays so, unless a handler fails.
LEMMA ServerKeepsStanding ==
    ASSUME ServerStep, ~failed', NEW nonce, Stands(nonce)
    PROVE  Stands(nonce)'
<1>1. CASE HasStored(nonce)
  BY <1>1 DEF HasStored, Stands, ServerStep
<1>2. CASE \E k \in DOMAIN connections : Storing(k) /\ NonceInHand(k) = nonce
  <2>1. PICK k \in DOMAIN connections : Storing(k) /\ NonceInHand(k) = nonce
    BY <1>2
  <2>2. k \in DOMAIN connections' /\ (connections'[k].hand = connections[k].hand \/ HasStored(nonce)')
    BY <2>1 DEF ServerStep, Served, Storing, NonceInHand, HasStored
  <2>3. QED
    BY <2>1, <2>2 DEF Stands, Storing, NonceInHand
<1>3. QED
  BY <1>1, <1>2 DEF Stands

\* Told of the end, or of the document, a client stays told.
LEMMA ServerKeepsAnnounced ==
    ASSUME ServerStep, NEW k \in DOMAIN connections, Announced(k)
    PROVE  Announced(k)'
BY DEF Announced, ServerStep, Served

\* A step of the server leaves to the clients what their queues rest on.
LEMMA ServerStepKeepsSync ==
    ASSUME TypeOK, TypeOK', SyncInv, ServerStep
    PROVE  SyncInv'
<1>1. /\ conn' = conn /\ queue' = queue /\ typed' = typed /\ clientSeq' = clientSeq
      /\ DOMAIN connections' = DOMAIN connections
  BY DEF ServerStep, clientVars, pageVars
<1>2. \A c \in Clients : conn[c] # 0 => conn[c] \in DOMAIN connections /\ Served(conn[c])
  BY ConnParts DEF ServerStep
<1>3. Connected'
  BY <1>1, <1>2 DEF SyncInv, Connected, AtOneEnd, Served
<1>4. HandsHoldStored'
  BY <1>1 DEF HandsHoldStored, ServerStep, Served
<1>5. NumbersNameNonces'
  <2> SUFFICES ASSUME ~ReloadQueued, NEW c \in Clients PROVE Numbered(c)'
    BY DEF NumbersNameNonces
  <2> DEFINE x == connections[conn[c]]
             y == connections'[conn[c]]
  <2>1. Numbered(c)
    BY DEF SyncInv, NumbersNameNonces
  <2>2. \A n : PageNonce(c, n)' = PageNonce(c, n)
    BY <1>1 DEF PageNonce
  <2>3. CASE conn[c] = 0
    BY <1>1, <2>1, <2>2, <2>3 DEF Numbered
  <2>4. CASE conn[c] # 0
    <3>1. Served(conn[c]) /\ conn[c] \in DOMAIN connections /\ x \in Connection
      BY <1>2, <2>4, ConnParts
    <3>2. \A msg \in ToSet(y.inbox) : msg.nonce = PageNonce(c, msg.clientSeq)
      BY <2>1, <2>4, <3>1 DEF Numbered, Served
    <3>3. y.hand.stage # "idle" => y.hand.msg.nonce = PageNonce(c, y.hand.msg.clientSeq)
      BY <2>1, <2>4, <3>1 DEF Numbered, Served
    <3>4. ASSUME NEW msg \in ToSet(y.out), msg.type = "OP_ACK"
          PROVE  log'[msg.serverSeq].nonce = PageNonce(c, msg.clientSeq)
      <4>1. CASE msg \in ToSet(x.out)
        <5>1. x.out \in Seq(ServerMessage)
          BY <3>1, ConnectionParts
        <5>2. msg \in ServerMessage
          BY <4>1, <5>1 DEF ToSet
        <5>3. msg.serverSeq \in DOMAIN log
          BY <3>4, <5>2 DEF ServerMessage, Close
        <5>4. log'[msg.serverSeq] = log[msg.serverSeq]
          BY <5>3 DEF ServerStep
        <5>5. QED
          BY <2>1, <2>4, <3>4, <4>1, <5>4 DEF Numbered
      <4>2. CASE msg \notin ToSet(x.out)
        <5>1. /\ x.hand.stage = "acknowledge"
              /\ msg.clientSeq = x.hand.msg.clientSeq /\ msg.serverSeq = x.hand.seq
          BY <3>1, <3>4, <4>2 DEF Served
        <5>2. x.hand.seq \in DOMAIN log
          BY <3>1, <5>1, ConnectionParts, HandParts
        <5>3. log'[x.hand.seq] = x.hand.msg
          BY <3>1, <5>1, <5>2 DEF SyncInv, HandsHoldStored, ServerStep
        <5>4. QED
          BY <2>1, <2>4, <5>1, <5>3 DEF Numbered
      <4>3. QED
        BY <4>1, <4>2
    <3>5. QED
      BY <1>1, <2>1, <2>2, <3>2, <3>3, <3>4 DEF Numbered
  <2>5. QED
    BY <2>3, <2>4
<1>6. NothingForgotten'
  <2> SUFFICES ASSUME ~failed'
               PROVE  /\ \A nonce \in nonces' : Stands(nonce)'
                      /\ \A c \in Clients : Looked(c)'
    BY DEF NothingForgotten
  <2>1. ~failed
    BY DEF ServerStep
  <2>2. \A nonce \in nonces' : Stands(nonce)'
    BY <2>1, ServerKeepsStanding DEF ServerStep, SyncInv, NothingForgotten
  <2>3. ASSUME NEW c \in Clients PROVE Looked(c)'
    <3> DEFINE x == connections[conn[c]]
               y == connections'[conn[c]]
    <3> SUFFICES ASSUME conn[c] # 0, y.stage = "live", ~Announced(conn[c])',
                        NEW msg \in ToSet(queue[c])
                 PROVE  msg \in ToSet(y.inbox) \/ Stands(msg.nonce)'
      BY <1>1 DEF Looked
    <3>1. Served(conn[c]) /\ conn[c] \in DOMAIN connections
      BY <1>2
    <3>2. PICK k \in DOMAIN connections : k = conn[c]
      BY <3>1
    <3>3. ~Announced(conn[c]) /\ ~Announced(k)'
      BY <1>1, <3>2, ServerKeepsAnnounced
    <3>4. x.socket # "closing"
      <4>1. Close.type = "CLOSE"
        BY DEF Close
      <4>2. QED
        BY <3>1, <3>3, <4>1 DEF SyncInv, Connected, AtOneEnd, Announced
    <3>5. x.stage = "live"
      BY <3>1, <3>2, <3>3, <3>4 DEF Served
    <3>6. msg \in ToSet(x.inbox) \/ Stands(msg.nonce)
      BY <2>1, <3>3, <3>5 DEF SyncInv, NothingForgotten, Looked
    <3>7. CASE Stands(msg.nonce)
      BY <3>7, ServerKeepsStanding
    <3>8. CASE msg \in ToSet(x.inbox)
      BY <2>2, <3>1, <3>2, <3>3, <3>4, <3>8 DEF Served
    <3>9. QED
      BY <3>6, <3>7, <3>8
  <2>4. QED
    BY <2>2, <2>3
<1>7. QED
  BY <1>3, <1>4, <1>5, <1>6 DEF SyncInv

\* What a connection looks like that was sent something.
LEMMA ToldSets ==
    ASSUME NEW x \in Connection, NEW m \in ServerMessage
    PROVE  /\ DOMAIN Told(x, m) = DOMAIN x
           /\ Told(x, m).client = x.client /\ Told(x, m).socket = x.socket
           /\ Told(x, m).stage = x.stage /\ Told(x, m).inbox = x.inbox /\ Told(x, m).hand = x.hand
           /\ ToSet(x.out) \subseteq ToSet(Told(x, m).out)
           /\ ToSet(Told(x, m).out) \subseteq ToSet(x.out) \cup {m}
           /\ x.socket = "open" => m \in ToSet(Told(x, m).out)
<1>1. Told(x, m) = [x EXCEPT !.out = IF x.socket = "open" THEN Append(@, m) ELSE @]
  BY ToldParts
<1>2. ToSet(Append(x.out, m)) = ToSet(x.out) \cup {m}
  BY ConnectionParts, AppendElements
<1>3. Told(x, m).out = IF x.socket = "open" THEN Append(x.out, m) ELSE x.out
  BY <1>1, ConnectionParts
<1>4. /\ DOMAIN Told(x, m) = DOMAIN x
      /\ Told(x, m).client = x.client /\ Told(x, m).socket = x.socket
      /\ Told(x, m).stage = x.stage /\ Told(x, m).inbox = x.inbox /\ Told(x, m).hand = x.hand
  BY <1>1, ConnectionParts
<1>5. QED
  BY <1>2, <1>3, <1>4

\* A connection that nothing happens to, when the table grows.
LEMMA UntouchedServed ==
    ASSUME TypeOK, SyncInv, NEW k \in DOMAIN connections, connections'[k] = connections[k],
           \A i \in DOMAIN log : log'[i] = log[i]
    PROVE  Served(k)
<1>1. connections[k] \in Connection
  BY DEF TypeOK
<1>2. connections[k].hand \in Hand
  BY <1>1, ConnectionParts
<1>3. connections[k].hand.stage \in {"publish", "acknowledge"} =>
          /\ connections[k].hand.seq \in DOMAIN log
          /\ log[connections[k].hand.seq] = connections[k].hand.msg
  BY <1>2, HandParts DEF SyncInv, HandsHoldStored
<1>4. QED
  BY <1>3 DEF Served

\* One connection changes.
LEMMA OneServed ==
    ASSUME TypeOK, SyncInv, NEW k \in DOMAIN connections, NEW r,
           connections' = [connections EXCEPT ![k] = r], Served(k),
           UNCHANGED clientVars,
           \A i \in DOMAIN log : i \in DOMAIN log' /\ log'[i] = log[i],
           failed => failed',
           ~failed' => \A nonce \in nonces' : nonce \in nonces \/ Stands(nonce)'
    PROVE  ServerStep
<1>1. DOMAIN connections' = DOMAIN connections
  OBVIOUS
<1>2. ASSUME NEW l \in DOMAIN connections PROVE Served(l)
  <2>1. CASE l = k
    BY <2>1
  <2>2. CASE l # k
    <3>1. connections'[l] = connections[l]
      BY <2>2
    <3>2. QED
      BY <3>1, UntouchedServed
  <2>3. QED
    BY <2>1, <2>2
<1>3. QED
  BY <1>1, <1>2 DEF ServerStep

\* One connection changes and neither guard, table nor hand.
LEMMA OneServedStep ==
    ASSUME TypeOK, SyncInv, NEW k \in DOMAIN connections, NEW r,
           connections' = [connections EXCEPT ![k] = r],
           UNCHANGED <<clientVars, log, nonces>>, failed => failed',
           r.client = connections[k].client,
           r.hand = connections[k].hand,
           r.socket = connections[k].socket \/ (r.socket = "closing" /\ Close \in ToSet(r.out)),
           ToSet(connections[k].out) \subseteq ToSet(r.out),
           ToSet(r.inbox) \subseteq ToSet(connections[k].inbox),
           \A msg \in ToSet(r.out) \ ToSet(connections[k].out) : msg.type # "OP_ACK",
           r.stage = "live" /\ connections[k].stage # "live" =>
               \/ connections[k].socket = "closing"
               \/ \E msg \in ToSet(r.out) : msg.type \in {"JOIN_ACK", "CLOSE"},
           ~failed' => \A msg \in ToSet(connections[k].inbox) \ ToSet(r.inbox) :
               \/ msg.nonce \in nonces \/ connections[k].socket = "closing"
               \/ \E told \in ToSet(r.out) : told.type \in {"JOIN_ACK", "CLOSE"}
    PROVE  ServerStep
<1>1. connections[k].hand \in Hand
  BY ConnectionParts DEF TypeOK
<1>2. connections[k].hand.stage \in {"publish", "acknowledge"} =>
          /\ connections[k].hand.seq \in DOMAIN log
          /\ log[connections[k].hand.seq] = connections[k].hand.msg
  BY <1>1, HandParts DEF SyncInv, HandsHoldStored
<1>3. connections'[k] = r
  OBVIOUS
<1>4. Announced(k)' <=> \E msg \in ToSet(r.out) : msg.type \in {"JOIN_ACK", "CLOSE"}
  BY <1>3 DEF Announced
<1>5. Served(k)
  BY <1>2, <1>3, <1>4 DEF Served
<1>6. QED
  BY <1>5, OneServed

\* The JOIN's steps: who becomes live is sent JOIN_ACK, unless the socket is
\* closing; an operation that comes too early is answered with a close frame.
LEMMA JoiningServes ==
    ASSUME TypeOK, SyncInv, NEW k \in DOMAIN connections, Joining(k) \/ RejectEarly(k)
    PROVE  ServerStep
<1> DEFINE x == connections[k]
<1>1. x \in Connection
  BY DEF TypeOK
<1>2. UNCHANGED <<clientVars, log, nonces>> /\ failed' = failed
  BY DEF Joining, ReadMissed, Register, SendAck, RejectEarly, serverVars, storeVars, guardVars
<1>3. CASE ReadMissed(k)
  <2> DEFINE r == [x EXCEPT !.stage = "missed", !.upto = Len(log)]
  <2>1. r.client = x.client /\ r.hand = x.hand /\ r.socket = x.socket /\ r.out = x.out
        /\ r.inbox = x.inbox /\ r.stage # "live"
    BY <1>1, ConnectionParts
  <2>2. connections' = [connections EXCEPT ![k] = r]
    BY <1>3 DEF ReadMissed
  <2> HIDE DEF r
  <2>3. QED
    BY <1>2, <2>1, <2>2, OneServedStep
<1>4. CASE Register(k)
  <2> DEFINE r == [x EXCEPT !.stage = "registered"]
  <2>1. r.client = x.client /\ r.hand = x.hand /\ r.socket = x.socket /\ r.out = x.out
        /\ r.inbox = x.inbox /\ r.stage # "live"
    BY <1>1, ConnectionParts
  <2>2. connections' = [connections EXCEPT ![k] = r]
    BY <1>4 DEF Register
  <2> HIDE DEF r
  <2>3. QED
    BY <1>2, <2>1, <2>2, OneServedStep
<1>5. CASE SendAck(k)
  <2> DEFINE whole == x.since = 0 \/ Oversized(Missed(x.since, x.upto))
             ack == IF whole THEN JoinAck(memory, 0, 0) ELSE JoinAck(EmptyDoc, x.since, x.upto)
             r == [Told(x, ack) EXCEPT !.stage = "live", !.whole = whole]
  <2>1. memory \in Document /\ EmptyDoc \in Document /\ 0 \in 0..Len(log)
    BY DEF TypeOK, EmptyDoc, Document
  <2>2. connections' = [connections EXCEPT ![k] = r] /\ x.socket # "gone"
    BY <1>5 DEF SendAck, Socket
  <2> HIDE DEF whole
  <2>3. ack \in ServerMessage /\ ack.type = "JOIN_ACK"
    BY <1>1, <2>1, ConnectionParts DEF JoinAck, ServerMessage
  <2> HIDE DEF ack
  <2>4. /\ DOMAIN Told(x, ack) = DOMAIN x
        /\ Told(x, ack).client = x.client /\ Told(x, ack).socket = x.socket
        /\ Told(x, ack).inbox = x.inbox /\ Told(x, ack).hand = x.hand
        /\ ToSet(x.out) \subseteq ToSet(Told(x, ack).out)
        /\ ToSet(Told(x, ack).out) \subseteq ToSet(x.out) \cup {ack}
        /\ x.socket = "open" => ack \in ToSet(Told(x, ack).out)
    BY <1>1, <2>3, ToldSets
  <2>5. r.client = x.client /\ r.hand = x.hand /\ r.socket = x.socket /\ r.inbox = x.inbox
        /\ r.out = Told(x, ack).out
    BY <1>1, <2>4, ConnectionParts
  <2>6. x.socket \in {"open", "closing"}
    BY <1>1, <2>2, ConnectionParts
  <2> HIDE DEF r
  <2>7. QED
    BY <1>2, <2>2, <2>3, <2>4, <2>5, <2>6, OneServedStep
<1>6. CASE RejectEarly(k)
  <2> DEFINE r == [Told(x, Close) EXCEPT !.inbox = Tail(@), !.socket = "closing"]
  <2>1. Close \in ServerMessage /\ Close.type = "CLOSE"
    BY DEF ServerMessage, Close
  <2>2. /\ DOMAIN Told(x, Close) = DOMAIN x
        /\ Told(x, Close).client = x.client /\ Told(x, Close).stage = x.stage
        /\ Told(x, Close).inbox = x.inbox /\ Told(x, Close).hand = x.hand
        /\ ToSet(x.out) \subseteq ToSet(Told(x, Close).out)
        /\ ToSet(Told(x, Close).out) \subseteq ToSet(x.out) \cup {Close}
        /\ x.socket = "open" => Close \in ToSet(Told(x, Close).out)
    BY <1>1, <2>1, ToldSets
  <2>3. connections' = [connections EXCEPT ![k] = r] /\ x.socket # "gone" /\ x.inbox # << >>
    BY <1>6 DEF RejectEarly, Socket
  <2>4. r.client = x.client /\ r.hand = x.hand /\ r.socket = "closing" /\ r.inbox = Tail(x.inbox)
        /\ r.out = Told(x, Close).out /\ r.stage = x.stage
    BY <1>1, <2>2, ConnectionParts
  <2>5. ToSet(Tail(x.inbox)) \subseteq ToSet(x.inbox)
    BY <2>3, InboxParts
  <2>6. x.socket \in {"open", "closing"}
    BY <1>1, <2>3, ConnectionParts
  <2> HIDE DEF r
  <2>7. QED
    BY <1>2, <2>1, <2>2, <2>3, <2>4, <2>5, <2>6, OneServedStep
<1>7. QED
  BY <1>3, <1>4, <1>5, <1>6 DEF Joining

\* isReplay: the nonce it registers is that of an operation in a hand.
LEMMA TakeServes ==
    ASSUME TypeOK, SyncInv, NEW k \in DOMAIN connections, Take(k)
    PROVE  ServerStep
<1> DEFINE x == connections[k]
           msg == Head(x.inbox)
           hand == [Idle EXCEPT !.stage = "append", !.msg = msg]
           r == [x EXCEPT !.inbox = Tail(@), !.hand = hand]
<1>1. x.inbox # << >> /\ x.hand.stage = "idle"
  BY DEF Take, Waiting
<1>2. /\ x \in Connection /\ msg \in ToSet(x.inbox)
      /\ ToSet(x.inbox) = {msg} \cup ToSet(Tail(x.inbox))
  BY <1>1, InboxParts
<1>3. hand.stage = "append" /\ hand.msg = msg
  BY DEF Idle
<1>4. /\ connections' = [connections EXCEPT ![k] = r] /\ nonces' = nonces \cup {msg.nonce}
      /\ UNCHANGED <<clientVars, log, failed>>
  BY DEF Take, Accept, storeVars
<1> HIDE DEF msg, hand
<1>5. /\ r.client = x.client /\ r.socket = x.socket /\ r.stage = x.stage /\ r.out = x.out
      /\ r.inbox = Tail(x.inbox) /\ r.hand = hand
  BY <1>2, ConnectionParts
<1> HIDE DEF r
<1>6. connections'[k] = r /\ DOMAIN connections' = DOMAIN connections
  BY <1>4
<1>7. msg.nonce \in nonces'
  BY <1>4
<1>8. ASSUME NEW nonce \in nonces' PROVE nonce \in nonces \/ Stands(nonce)'
  <2>1. CASE nonce = msg.nonce
    BY <1>3, <1>5, <1>6, <2>1 DEF Stands, Storing, NonceInHand
  <2>2. QED
    BY <1>4, <2>1
<1>9. Served(k)
  BY <1>1, <1>2, <1>3, <1>5, <1>6, <1>7 DEF Served
<1>10. \A nonce \in nonces' : nonce \in nonces \/ Stands(nonce)'
  BY <1>8
<1>11. \A i \in DOMAIN log : i \in DOMAIN log' /\ log'[i] = log[i]
  BY <1>4
<1>12. QED
  BY <1>4, <1>9, <1>10, <1>11, OneServed

\* appendOperation: what was about to be stored is.
LEMMA PersistServes ==
    ASSUME TypeOK, SyncInv, NEW k \in DOMAIN connections, Persist(k)
    PROVE  ServerStep
<1> DEFINE x == connections[k]
           hand == [x.hand EXCEPT !.stage = "publish", !.seq = Len(log) + 1]
           r == [x EXCEPT !.hand = hand]
<1>1. x \in Connection /\ x.hand \in Hand /\ x.hand.stage = "append"
  BY ConnectionParts DEF TypeOK, Persist
<1>2. /\ Len(log) + 1 \in DOMAIN log' /\ log'[Len(log) + 1] = x.hand.msg
      /\ \A i \in DOMAIN log : i \in DOMAIN log' /\ log'[i] = log[i]
  BY PersistTyped
<1>3. hand.stage = "publish" /\ hand.msg = x.hand.msg /\ hand.seq = Len(log) + 1
  BY <1>1, HandParts
<1>4. connections' = [connections EXCEPT ![k] = r] /\ UNCHANGED <<clientVars, nonces, failed>>
  BY ZenonT(60), <1>1, ConnectionParts DEF Persist, guardVars
<1> HIDE DEF hand
<1>5. /\ r.client = x.client /\ r.socket = x.socket /\ r.stage = x.stage /\ r.out = x.out
      /\ r.inbox = x.inbox /\ r.hand = hand
  BY <1>1, ConnectionParts
<1> HIDE DEF r
<1>6. connections'[k] = r
  BY <1>4
<1>7. Served(k)
  BY <1>1, <1>2, <1>3, <1>5, <1>6 DEF Served
<1>8. \A nonce \in nonces' : nonce \in nonces
  BY <1>4
<1>9. QED
  BY <1>2, <1>4, <1>7, <1>8, OneServed

\* REPLAY_DETECTED answers what is remembered; the other refusals, and the
\* failures, are recorded.
LEMMA HandleServes ==
    ASSUME TypeOK, SyncInv, NEW k \in DOMAIN connections,
           RefuseReplay(k) \/ Refuse(k) \/ Publish(k) \/ Acknowledge(k) \/ HandlerFails(k)
    PROVE  ServerStep
<1> DEFINE x == connections[k]
<1>1. x \in Connection /\ x.hand \in Hand
  BY ConnectionParts DEF TypeOK
<1>2. UNCHANGED <<clientVars, log, nonces>>
  BY DEF RefuseReplay, Refuse, Publish, Acknowledge, HandlerFails, serverVars, storeVars, guardVars
<1>3. \A i \in DOMAIN log : i \in DOMAIN log' /\ log'[i] = log[i]
  BY <1>2
<1>4. ASSUME Discard(k), Waiting(k), failed => failed', failed' \/ Head(x.inbox).nonce \in nonces
      PROVE  ServerStep
  <2> DEFINE r == [x EXCEPT !.inbox = Tail(@)]
  <2>1. ToSet(x.inbox) = {Head(x.inbox)} \cup ToSet(Tail(x.inbox))
    BY <1>4, InboxParts DEF Waiting
  <2>2. connections' = [connections EXCEPT ![k] = r]
    BY <1>4 DEF Discard
  <2>3. /\ r.client = x.client /\ r.hand = x.hand /\ r.socket = x.socket /\ r.out = x.out
        /\ r.inbox = Tail(x.inbox) /\ r.stage = x.stage
    BY <1>1, ConnectionParts
  <2> HIDE DEF r
  <2>4. QED
    BY <1>2, <1>4, <2>1, <2>2, <2>3, OneServedStep
<1>5. CASE RefuseReplay(k)
  BY <1>4, <1>5 DEF RefuseReplay, serverVars
<1>6. CASE Refuse(k)
  BY <1>4, <1>6 DEF Refuse
<1>7. ASSUME NEW r, connections' = [connections EXCEPT ![k] = r], failed => failed', Served(k)
      PROVE  ServerStep
  BY <1>2, <1>3, <1>7, OneServed
<1>8. CASE Publish(k)
  <2> DEFINE hand == [x.hand EXCEPT !.stage = "acknowledge"]
             r == [x EXCEPT !.hand = hand]
  <2>1. x.hand.stage = "publish"
    BY <1>8 DEF Publish
  <2>2. /\ x.hand.seq \in DOMAIN log /\ log[x.hand.seq] = x.hand.msg
        /\ hand.stage = "acknowledge" /\ hand.msg = x.hand.msg /\ hand.seq = x.hand.seq
    BY <1>1, <2>1, HandParts DEF SyncInv, HandsHoldStored
  <2>3. connections' = [connections EXCEPT ![k] = r] /\ failed' = failed
    BY <1>1, <1>8, ConnectionParts DEF Publish
  <2> HIDE DEF hand
  <2>4. /\ r.client = x.client /\ r.socket = x.socket /\ r.stage = x.stage /\ r.out = x.out
        /\ r.inbox = x.inbox /\ r.hand = hand
    BY <1>1, ConnectionParts
  <2> HIDE DEF r
  <2>5. connections'[k] = r
    BY <2>3
  <2>6. Served(k)
    BY <1>2, <2>1, <2>2, <2>4, <2>5 DEF Served
  <2>7. QED
    BY <1>7, <2>3, <2>6
<1>9. CASE Acknowledge(k)
  <2> DEFINE ack == OpAck(x.hand.msg.clientSeq, x.hand.seq)
             r == [Told(x, ack) EXCEPT !.hand = Idle]
  <2>1. x.hand.stage = "acknowledge"
    BY <1>9 DEF Acknowledge
  <2>2. x.hand.seq \in DOMAIN log /\ x.hand.msg.clientSeq \in Nat
    BY <1>1, <2>1, HandParts, MessageParts
  <2>3. /\ ack \in ServerMessage
        /\ ack.clientSeq = x.hand.msg.clientSeq /\ ack.serverSeq = x.hand.seq
    BY <2>2 DEF OpAck, ServerMessage
  <2>4. connections' = [connections EXCEPT ![k] = r] /\ failed' = failed
    BY <1>9 DEF Acknowledge, serverVars
  <2> HIDE DEF ack
  <2>5. /\ DOMAIN Told(x, ack) = DOMAIN x
        /\ Told(x, ack).client = x.client /\ Told(x, ack).socket = x.socket
        /\ Told(x, ack).stage = x.stage /\ Told(x, ack).inbox = x.inbox
        /\ ToSet(x.out) \subseteq ToSet(Told(x, ack).out)
        /\ ToSet(Told(x, ack).out) \subseteq ToSet(x.out) \cup {ack}
    BY <1>1, <2>3, ToldSets
  <2>6. /\ r.client = x.client /\ r.socket = x.socket /\ r.stage = x.stage
        /\ r.inbox = x.inbox /\ r.hand = Idle /\ r.out = Told(x, ack).out
    BY <1>1, <2>5, ConnectionParts
  <2> HIDE DEF r
  <2>7. connections'[k] = r /\ Idle.stage = "idle"
    BY <2>4 DEF Idle
  <2>8. Served(k)
    BY <2>1, <2>3, <2>5, <2>6, <2>7 DEF Served
  <2>9. QED
    BY <1>7, <2>4, <2>8
<1>10. CASE HandlerFails(k)
  <2> DEFINE r == [x EXCEPT !.hand = Idle]
  <2>1. connections' = [connections EXCEPT ![k] = r] /\ failed' = TRUE
    BY <1>10 DEF HandlerFails
  <2>2. /\ r.client = x.client /\ r.socket = x.socket /\ r.stage = x.stage
        /\ r.inbox = x.inbox /\ r.hand = Idle /\ r.out = x.out
    BY <1>1, ConnectionParts
  <2> HIDE DEF r
  <2>3. connections'[k] = r /\ Idle.stage = "idle"
    BY <2>1 DEF Idle
  <2>4. Served(k)
    BY <2>1, <2>2, <2>3 DEF Served
  <2>5. QED
    BY <1>7, <2>1, <2>4
<1>11. QED
  BY <1>5, <1>6, <1>8, <1>9, <1>10

\* The fan-out's copies are broadcasts.
LEMMA FanOutServes ==
    ASSUME TypeOK, SyncInv, FanOut
    PROVE  ServerStep
<1> DEFINE msg == Broadcast(channel[fanned + 1])
<1>1. UNCHANGED <<clientVars, log, nonces, failed>> /\ DOMAIN connections' = DOMAIN connections
  BY FanOutTyped DEF FanOut, guardVars
<1>2. msg \in ServerMessage /\ msg.type = "BROADCAST"
  BY FanOutTyped DEF Broadcast, ServerMessage
<1>3. \A k \in DOMAIN connections :
         connections'[k] = IF Registered(k) THEN Told(connections[k], msg) ELSE connections[k]
  BY FanOutTyped
<1> HIDE DEF msg
<1>4. ASSUME NEW k \in DOMAIN connections PROVE Served(k)
  <2> DEFINE x == connections[k]
  <2>1. CASE ~Registered(k)
    <3>1. connections'[k] = connections[k]
      BY <1>3, <2>1
    <3>2. QED
      BY <1>1, <3>1, UntouchedServed
  <2>2. CASE Registered(k)
    <3>1. connections'[k] = Told(x, msg)
      BY <1>3, <2>2
    <3>2. x \in Connection /\ x.hand \in Hand
      BY ConnectionParts DEF TypeOK
    <3>3. x.hand.stage \in {"publish", "acknowledge"} => log'[x.hand.seq] = x.hand.msg
      BY <1>1 DEF SyncInv, HandsHoldStored
    <3>4. /\ Told(x, msg).client = x.client /\ Told(x, msg).socket = x.socket
          /\ Told(x, msg).stage = x.stage /\ Told(x, msg).inbox = x.inbox
          /\ Told(x, msg).hand = x.hand
          /\ ToSet(x.out) \subseteq ToSet(Told(x, msg).out)
          /\ ToSet(Told(x, msg).out) \subseteq ToSet(x.out) \cup {msg}
      BY <1>2, <3>2, ToldSets
    <3>5. \A told \in ToSet(Told(x, msg).out) \ ToSet(x.out) : told.type # "OP_ACK"
      BY <1>2, <3>4
    <3>6. QED
      BY <3>1, <3>3, <3>4, <3>5 DEF Served
  <2>3. QED
    BY <2>1, <2>2
<1>5. QED
  BY <1>1, <1>4 DEF ServerStep

\* Forgetting a nonce, and doing nothing.
LEMMA ExpireServes ==
    ASSUME TypeOK, SyncInv, Expire
    PROVE  ServerStep
<1>1. UNCHANGED <<clientVars, log, connections, failed>> /\ nonces' \subseteq nonces
  BY DEF Expire, storeVars
<1>2. \A k \in DOMAIN connections : Served(k)
  BY <1>1, UntouchedServed
<1>3. QED
  BY <1>1, <1>2 DEF ServerStep

----------------------------------------------------------------------------
(* Steps of an editor. *)

\* An editor changes its page, its queue and what goes over its connection; it
\* may open one.
ClientStep(c) ==
    /\ UNCHANGED serverVars
    /\ \A d \in Clients : d # c =>
          /\ conn'[d] = conn[d] /\ queue'[d] = queue[d]
          /\ typed'[d] = typed[d] /\ clientSeq'[d] = clientSeq[d]
    /\ \A k \in DOMAIN connections :
          /\ k \in DOMAIN connections' /\ connections'[k].hand = connections[k].hand
          /\ k # conn[c] => connections'[k] = connections[k]
    /\ \A k \in DOMAIN connections' : k \in DOMAIN connections \/ connections'[k].hand = Idle

\* It does not touch what others rest on.
LEMMA ClientLeavesOthers ==
    ASSUME TypeOK, SyncInv, NEW c \in Clients, ClientStep(c),
           AtOneEnd(c)', ReloadQueued \/ Numbered(c)', failed \/ Looked(c)'
    PROVE  SyncInv'
<1>1. log' = log /\ nonces' = nonces /\ failed' = failed
  BY DEF ClientStep, serverVars, storeVars, guardVars
<1>2. ASSUME NEW d \in Clients, d # c
      PROVE  /\ conn'[d] = conn[d] /\ queue'[d] = queue[d]
             /\ typed'[d] = typed[d] /\ clientSeq'[d] = clientSeq[d]
             /\ conn[d] # 0 => connections'[conn[d]] = connections[conn[d]]
  <2>1. conn[d] # 0 => conn[d] \in DOMAIN connections /\ conn[d] # conn[c]
    BY <1>2, ConnParts DEF SyncInv, Connected, AtOneEnd
  <2>2. QED
    BY <1>2, <2>1 DEF ClientStep
<1>3. \A nonce : Stands(nonce) => Stands(nonce)'
  <2> SUFFICES ASSUME NEW nonce, Stands(nonce) PROVE Stands(nonce)'
    OBVIOUS
  <2>1. CASE HasStored(nonce)
    BY <1>1, <2>1 DEF Stands, HasStored
  <2>2. CASE \E k \in DOMAIN connections : Storing(k) /\ NonceInHand(k) = nonce
    <3>1. PICK k \in DOMAIN connections : Storing(k) /\ NonceInHand(k) = nonce
      BY <2>2
    <3>2. k \in DOMAIN connections' /\ connections'[k].hand = connections[k].hand
      BY DEF ClientStep
    <3>3. QED
      BY <3>1, <3>2 DEF Stands, Storing, NonceInHand
  <2>3. QED
    BY <2>1, <2>2 DEF Stands
<1>4. Connected'
  <2>1. ASSUME NEW d \in Clients PROVE AtOneEnd(d)'
    <3>1. CASE d = c
      BY <3>1
    <3>2. CASE d # c
      BY <1>2, <3>2 DEF SyncInv, Connected, AtOneEnd
    <3>3. QED
      BY <3>1, <3>2
  <2>2. QED
    BY <2>1 DEF Connected
<1>5. HandsHoldStored'
  BY <1>1 DEF SyncInv, HandsHoldStored, ClientStep, Idle
<1>6. NumbersNameNonces'
  <2>1. ASSUME ~ReloadQueued, NEW d \in Clients PROVE Numbered(d)'
    <3>1. CASE d = c
      BY <2>1, <3>1
    <3>2. CASE d # c
      <4>1. Numbered(d)
        BY <2>1 DEF SyncInv, NumbersNameNonces
      <4>2. \A n : PageNonce(d, n)' = PageNonce(d, n)
        BY <1>2, <3>2 DEF PageNonce
      <4>3. QED
        BY <1>1, <1>2, <3>2, <4>1, <4>2 DEF Numbered
    <3>3. QED
      BY <3>1, <3>2
  <2>2. QED
    BY <2>1 DEF NumbersNameNonces
<1>7. NothingForgotten'
  <2>1. ASSUME ~failed, NEW d \in Clients PROVE Looked(d)'
    <3>1. CASE d = c
      BY <2>1, <3>1
    <3>2. CASE d # c
      <4>1. Looked(d)
        BY <2>1 DEF SyncInv, NothingForgotten
      <4>2. QED
        BY <1>2, <1>3, <3>2, <4>1 DEF Looked, Announced
    <3>3. QED
      BY <3>1, <3>2
  <2>2. QED
    BY <1>1, <1>3, <2>1 DEF SyncInv, NothingForgotten
<1>8. QED
  BY <1>4, <1>5, <1>6, <1>7 DEF SyncInv

\* connect(): a JOIN is on its way, which has the queue sent again.
LEMMA ConnectKeepsSync ==
    ASSUME TypeOK, SyncInv, NEW c \in Clients, Connect(c)
    PROVE  SyncInv'
<1> DEFINE n == Len(connections) + 1
           x == Opened(c, lastSeq[c])
<1>1. /\ n \in DOMAIN connections' /\ connections'[n] = x
      /\ \A k \in DOMAIN connections : k \in DOMAIN connections' /\ connections'[k] = connections[k]
      /\ \A k \in DOMAIN connections' : k \in DOMAIN connections \/ k = n
  BY ConnectTyped
<1>2. /\ conn' = [conn EXCEPT ![c] = n]
      /\ UNCHANGED <<serverVars, queue, typed, clientSeq>>
  BY DEF Connect, pageVars
<1>3. conn'[c] = n
  BY <1>2 DEF TypeOK
<1>4. /\ x.client = c /\ x.socket = "open" /\ x.stage = "join"
      /\ x.inbox = << >> /\ x.out = << >> /\ x.hand = Idle
  BY DEF Opened
<1> HIDE DEF x, n
<1>5. ClientStep(c)
  BY <1>1, <1>2, <1>4 DEF ClientStep, TypeOK
<1>6. AtOneEnd(c)'
  BY <1>1, <1>3, <1>4 DEF AtOneEnd
<1>7. ReloadQueued \/ Numbered(c)'
  <2>1. ToSet(x.inbox) = {} /\ ToSet(x.out) = {} /\ x.hand.stage = "idle"
    BY <1>4 DEF ToSet, Idle
  <2>2. \A m : PageNonce(c, m)' = PageNonce(c, m)
    BY <1>2 DEF PageNonce
  <2>3. QED
    BY <1>1, <1>2, <1>3, <2>1, <2>2 DEF Numbered, SyncInv, NumbersNameNonces
<1>8. Looked(c)'
  BY <1>1, <1>3, <1>4 DEF Looked
<1>9. QED
  BY <1>5, <1>6, <1>7, <1>8, ClientLeavesOthers

\* A keystroke takes the next number, and the next nonce.
LEMMA TypeKeepsSync ==
    ASSUME TypeOK, SyncInv, NEW c \in Clients, Type(c)
    PROVE  SyncInv'
<1>1. PICK msg \in Message :
         /\ msg.clientSeq = clientSeq[c] + 1 /\ msg.nonce = <<c, typed[c]>>
         /\ queue' = [queue EXCEPT ![c] = Append(@, msg)]
         /\ SentUp(conn[c], <<msg>>)
  BY TypeParts
<1>2. /\ clientSeq' = [clientSeq EXCEPT ![c] = @ + 1] /\ typed' = [typed EXCEPT ![c] = @ + 1]
      /\ UNCHANGED <<conn, serverVars>>
  BY DEF Type
<1>3. typed[c] \in Nat /\ clientSeq[c] \in Nat /\ queue[c] \in Seq(Message)
  BY DEF TypeOK
<1>4. /\ clientSeq'[c] = clientSeq[c] + 1 /\ typed'[c] = typed[c] + 1
      /\ queue'[c] = Append(queue[c], msg)
  BY <1>1, <1>2 DEF TypeOK
<1>5. ToSet(queue'[c]) = ToSet(queue[c]) \cup {msg}
  BY <1>3, <1>4, AppendElements
<1>6. /\ \A m : m \in Nat => PageNonce(c, m)' = PageNonce(c, m)
      /\ msg.nonce = PageNonce(c, msg.clientSeq)'
  <2>1. \A m \in Nat : m - 1 + (typed[c] + 1) - (clientSeq[c] + 1) = m - 1 + typed[c] - clientSeq[c]
    BY SMTT(60), <1>3
  <2>2. (clientSeq[c] + 1) - 1 + (typed[c] + 1) - (clientSeq[c] + 1) = typed[c]
    BY <1>3
  <2>3. \A m : PageNonce(c, m)' = <<c, m - 1 + (typed[c] + 1) - (clientSeq[c] + 1)>>
    BY <1>4 DEF PageNonce
  <2>4. QED
    BY <1>1, <2>1, <2>2, <2>3 DEF PageNonce
<1>7. \A m \in ToSet(queue[c]) : m.clientSeq \in Nat
  BY <1>3, MessageParts DEF ToSet
<1>8. CASE conn[c] = 0
  <2>1. connections' = connections
    BY <1>1, <1>8 DEF SentUp
  <2>2. ClientStep(c)
    BY <1>1, <1>2, <2>1 DEF ClientStep, TypeOK
  <2>3. AtOneEnd(c)' /\ Looked(c)'
    BY <1>2, <1>8 DEF AtOneEnd, Looked
  <2>4. ReloadQueued \/ Numbered(c)'
    BY <1>2, <1>5, <1>6, <1>7, <1>8 DEF Numbered, SyncInv, NumbersNameNonces
  <2>5. QED
    BY <2>2, <2>3, <2>4, ClientLeavesOthers
<1>9. CASE conn[c] # 0
  <2> DEFINE k == conn[c]
             x == connections[k]
             r == [x EXCEPT !.inbox = @ \o <<msg>>]
  <2>1. k \in DOMAIN connections /\ x \in Connection
    BY <1>9, ConnParts
  <2>2. /\ r.client = x.client /\ r.socket = x.socket /\ r.stage = x.stage
        /\ r.inbox = x.inbox \o <<msg>> /\ r.out = x.out /\ r.hand = x.hand
    BY <2>1, ConnectionParts
  <2>3. connections' = [connections EXCEPT ![k] = r]
    BY <1>1, <1>9 DEF SentUp
  <2>4. /\ x.inbox \in Seq(Message) /\ x.out \in Seq(ServerMessage) /\ x.hand \in Hand
        /\ <<msg>> \in Seq(Message) /\ ToSet(<<msg>>) = {msg}
    BY <2>1, ConnectionParts DEF ToSet
  <2> HIDE DEF r
  <2>5. ToSet(r.inbox) = ToSet(x.inbox) \cup {msg}
    <3>1. ToSet(x.inbox \o <<msg>>) = ToSet(x.inbox) \cup {msg}
      BY <2>4, LastElement
    <3>2. QED
      BY <2>2, <3>1
  <2>6. /\ connections'[k] = r /\ DOMAIN connections' = DOMAIN connections
        /\ \A l \in DOMAIN connections : l # k => connections'[l] = connections[l]
    BY <2>1, <2>3
  <2>7. ClientStep(c)
    <3>1. \A l \in DOMAIN connections : connections'[l].hand = connections[l].hand
      BY <2>2, <2>6
    <3>2. QED
      BY <1>1, <1>2, <2>6, <3>1 DEF ClientStep, TypeOK
  <2>8. AtOneEnd(c)'
    BY <1>2, <1>9, <2>2, <2>6 DEF AtOneEnd, SyncInv, Connected
  <2>9. ReloadQueued \/ Numbered(c)'
    <3>1. \A m \in ToSet(x.inbox) : m.clientSeq \in Nat
      BY <2>4, MessageParts DEF ToSet
    <3>2. x.hand.stage # "idle" => x.hand.msg.clientSeq \in Nat
      BY <2>4, HandParts, MessageParts
    <3>3. \A m \in ToSet(x.out) : m.type = "OP_ACK" => m.clientSeq \in Nat
      BY <2>4 DEF ToSet, ServerMessage, Close
    <3>4. log' = log
      BY <1>2 DEF serverVars, storeVars
    <3> SUFFICES ASSUME Numbered(c) PROVE Numbered(c)'
      BY DEF SyncInv, NumbersNameNonces
    <3>5. \A m \in ToSet(queue'[c]) : m.nonce = PageNonce(c, m.clientSeq)'
      BY <1>5, <1>6, <1>7 DEF Numbered
    <3>6. \A m \in ToSet(r.inbox) : m.nonce = PageNonce(c, m.clientSeq)'
      BY <1>6, <1>9, <2>5, <3>1 DEF Numbered
    <3>7. \A m : r.hand.stage # "idle" /\ m = r.hand.msg => m.nonce = PageNonce(c, m.clientSeq)'
      BY <1>6, <1>9, <2>2, <3>2 DEF Numbered
    <3>8. \A m \in ToSet(r.out) : m.type = "OP_ACK" => log'[m.serverSeq].nonce = PageNonce(c, m.clientSeq)'
      BY <1>6, <1>9, <2>2, <3>3, <3>4 DEF Numbered
    <3>9. QED
      BY <1>2, <2>6, <3>5, <3>6, <3>7, <3>8 DEF Numbered
  <2>10. ASSUME ~failed PROVE Looked(c)'
    <3>1. Looked(c)
      BY <2>10 DEF SyncInv, NothingForgotten
    <3>2. \A nonce : Stands(nonce) => Stands(nonce)'
      BY <1>2, <2>2, <2>6 DEF Stands, HasStored, Storing, NonceInHand, serverVars, storeVars
    <3>3. QED
      BY <1>2, <1>5, <1>9, <2>2, <2>5, <2>6, <3>1, <3>2 DEF Looked, Announced
  <2>11. QED
    BY <2>7, <2>8, <2>9, <2>10, ClientLeavesOthers
<1>10. QED
  BY <1>8, <1>9

\* What a client takes from its connection: JOIN_ACK and the close frame stay
\* there when another message is received.
LEMMA ReceivedKeepsSync ==
    ASSUME TypeOK, SyncInv, NEW c \in Clients, ReceiveAck(c) \/ ReceiveBroadcast(c)
    PROVE  SyncInv'
<1> DEFINE k == conn[c]
           x == connections[k]
           y == connections'[k]
<1>1. /\ k # 0 /\ x.out # << >> /\ Incoming(c).type \in {"OP_ACK", "BROADCAST"} /\ Received(c)
      /\ UNCHANGED <<conn, clientSeq, typed, serverVars>>
  BY DEF ReceiveAck, ReceiveBroadcast, HasMessage
<1>2. /\ k \in DOMAIN connections /\ x \in Connection
      /\ ToSet(x.out) = {Incoming(c)} \cup ToSet(Tail(x.out))
  BY <1>1, ConnParts, IncomingParts
<1>3. /\ DOMAIN connections' = DOMAIN connections
      /\ y = [x EXCEPT !.out = Tail(@)]
      /\ \A l \in DOMAIN connections : l # k => connections'[l] = connections[l]
  BY <1>1, <1>2, ReceivedTyped
<1>4. /\ y.client = x.client /\ y.socket = x.socket /\ y.stage = x.stage
      /\ y.inbox = x.inbox /\ y.out = Tail(x.out) /\ y.hand = x.hand
  BY <1>2, <1>3, ConnectionParts
<1>5. /\ \A d \in Clients : d # c => queue'[d] = queue[d]
      /\ ToSet(queue'[c]) \subseteq ToSet(queue[c])
  <2>1. CASE ReceiveAck(c)
    <3>1. queue' = [queue EXCEPT ![c] = Without(@, Incoming(c).clientSeq)] /\ queue[c] \in Seq(Message)
      BY <2>1 DEF ReceiveAck, TypeOK
    <3>2. ToSet(Without(queue[c], Incoming(c).clientSeq)) \subseteq ToSet(queue[c])
      BY <3>1, OmitElements DEF Without
    <3>3. QED
      BY <3>1, <3>2 DEF TypeOK
  <2>2. CASE ReceiveBroadcast(c)
    BY <2>2 DEF ReceiveBroadcast
  <2>3. QED
    BY <2>1, <2>2
<1>6. ClientStep(c)
  <2>1. \A l \in DOMAIN connections : connections'[l].hand = connections[l].hand
    BY <1>3, <1>4
  <2>2. QED
    BY <1>1, <1>3, <1>5, <2>1 DEF ClientStep
<1>7. AtOneEnd(c)'
  <2>1. Incoming(c) # Close
    BY <1>1 DEF Close
  <2>2. x.client = c /\ x.socket # "gone" /\ (x.socket = "closing" => Close \in ToSet(x.out))
    BY <1>1 DEF SyncInv, Connected, AtOneEnd
  <2>3. conn'[c] = k
    BY <1>1
  <2>4. QED
    BY <1>2, <1>4, <2>1, <2>2, <2>3 DEF AtOneEnd
<1>8. log' = log
  BY <1>1 DEF serverVars, storeVars
<1>9. ReloadQueued \/ Numbered(c)'
  <2> SUFFICES ASSUME Numbered(c) PROVE Numbered(c)'
    BY DEF SyncInv, NumbersNameNonces
  <2>1. \A n : PageNonce(c, n)' = PageNonce(c, n)
    BY <1>1 DEF PageNonce
  <2>2. \A m \in ToSet(queue'[c]) : m.nonce = PageNonce(c, m.clientSeq)'
    BY <1>5, <2>1 DEF Numbered
  <2>3. \A m \in ToSet(y.inbox) : m.nonce = PageNonce(c, m.clientSeq)'
    BY <1>1, <1>4, <2>1 DEF Numbered
  <2>4. \A m : y.hand.stage # "idle" /\ m = y.hand.msg => m.nonce = PageNonce(c, m.clientSeq)'
    BY <1>1, <1>4, <2>1 DEF Numbered
  <2>5. \A m \in ToSet(y.out) : m.type = "OP_ACK" => log'[m.serverSeq].nonce = PageNonce(c, m.clientSeq)'
    BY <1>1, <1>2, <1>4, <1>8, <2>1 DEF Numbered
  <2>6. conn'[c] = k
    BY <1>1
  <2>7. QED
    BY <2>2, <2>3, <2>4, <2>5, <2>6 DEF Numbered
<1>10. ASSUME ~failed PROVE Looked(c)'
  <2>1. Looked(c)
    BY <1>10 DEF SyncInv, NothingForgotten
  <2>2. \A nonce : Stands(nonce) => Stands(nonce)'
    BY <1>3, <1>4, <1>8 DEF Stands, HasStored, Storing, NonceInHand
  <2>3. Announced(k) => \E msg \in ToSet(y.out) : msg.type \in {"JOIN_ACK", "CLOSE"}
    BY <1>1, <1>2, <1>4 DEF Announced
  <2>4. conn'[c] = k
    BY <1>1
  <2>5. QED
    BY <1>1, <1>4, <1>5, <2>1, <2>2, <2>3, <2>4 DEF Looked, Announced
<1>11. QED
  BY <1>6, <1>7, <1>9, <1>10, ClientLeavesOthers

\* onReconnect: the whole queue is sent.
LEMMA JoinAckKeepsSync ==
    ASSUME TypeOK, SyncInv, NEW c \in Clients, ReceiveJoinAck(c)
    PROVE  SyncInv'
<1> DEFINE k == conn[c]
           x == connections[k]
           r == [x EXCEPT !.out = Tail(@), !.inbox = @ \o queue[c]]
<1>1. /\ k # 0 /\ x.out # << >> /\ Incoming(c).type = "JOIN_ACK"
      /\ connections' = [connections EXCEPT ![k] = r]
      /\ UNCHANGED <<queue, conn, clientSeq, typed, serverVars>>
  BY DEF ReceiveJoinAck, HasMessage
<1>2. /\ k \in DOMAIN connections /\ x \in Connection
      /\ ToSet(x.out) = {Incoming(c)} \cup ToSet(Tail(x.out))
  BY <1>1, ConnParts, IncomingParts
<1>3. /\ r.client = x.client /\ r.socket = x.socket /\ r.stage = x.stage
      /\ r.inbox = x.inbox \o queue[c] /\ r.out = Tail(x.out) /\ r.hand = x.hand
  BY ZenonT(60), <1>2, ConnectionParts
<1> HIDE DEF r
<1>4. /\ DOMAIN connections' = DOMAIN connections /\ connections'[k] = r
      /\ \A l \in DOMAIN connections : l # k => connections'[l] = connections[l]
  BY <1>1, <1>2
<1>5. ToSet(r.inbox) = ToSet(x.inbox) \cup ToSet(queue[c])
  <2>1. x.inbox \in Seq(Message) /\ queue[c] \in Seq(Message)
    BY <1>2, ConnectionParts DEF TypeOK
  <2>2. ToSet(x.inbox \o queue[c]) = ToSet(x.inbox) \cup ToSet(queue[c])
    BY <2>1, ConcatElements
  <2>3. QED
    BY <1>3, <2>2
<1>6. conn'[c] = k /\ log' = log
  BY <1>1 DEF serverVars, storeVars
<1>7. ClientStep(c)
  <2>1. \A l \in DOMAIN connections : connections'[l].hand = connections[l].hand
    BY <1>3, <1>4
  <2>2. QED
    BY <1>1, <1>4, <2>1 DEF ClientStep
<1>8. AtOneEnd(c)'
  <2>1. Incoming(c) # Close
    BY <1>1 DEF Close
  <2>2. x.client = c /\ x.socket # "gone" /\ (x.socket = "closing" => Close \in ToSet(x.out))
    BY <1>1 DEF SyncInv, Connected, AtOneEnd
  <2>3. QED
    BY <1>2, <1>3, <1>4, <1>6, <2>1, <2>2 DEF AtOneEnd
<1>9. ReloadQueued \/ Numbered(c)'
  <2> SUFFICES ASSUME Numbered(c) PROVE Numbered(c)'
    BY DEF SyncInv, NumbersNameNonces
  <2>1. \A n : PageNonce(c, n)' = PageNonce(c, n)
    BY <1>1 DEF PageNonce
  <2>2. \A m \in ToSet(queue'[c]) : m.nonce = PageNonce(c, m.clientSeq)'
    BY <1>1, <2>1 DEF Numbered
  <2>3. \A m \in ToSet(r.inbox) : m.nonce = PageNonce(c, m.clientSeq)'
    BY <1>1, <1>5, <2>1 DEF Numbered
  <2>4. \A m : r.hand.stage # "idle" /\ m = r.hand.msg => m.nonce = PageNonce(c, m.clientSeq)'
    BY <1>1, <1>3, <2>1 DEF Numbered
  <2>5. \A m \in ToSet(r.out) : m.type = "OP_ACK" => log'[m.serverSeq].nonce = PageNonce(c, m.clientSeq)'
    BY <1>1, <1>2, <1>3, <1>6, <2>1 DEF Numbered
  <2>6. QED
    BY <1>4, <1>6, <2>2, <2>3, <2>4, <2>5 DEF Numbered
<1>10. Looked(c)'
  <2>1. \A msg \in ToSet(queue'[c]) : msg \in ToSet(r.inbox)
    BY <1>1, <1>5
  <2>2. QED
    BY <1>4, <1>6, <2>1 DEF Looked
<1>11. QED
  BY <1>7, <1>8, <1>9, <1>10, ClientLeavesOthers

\* A client without a connection keeps its queue, and no page with a number in
\* the queue is left for a new one, unless ReloadQueued.
LEMMA LeavingKeepsSync ==
    ASSUME TypeOK, SyncInv, NEW c \in Clients, ReceiveClose(c) \/ Drop(c) \/ Reload(c)
    PROVE  SyncInv'
<1>1. UNCHANGED <<queue, typed, serverVars>>
  BY DEF ReceiveClose, Drop, Reload
<1>2. conn'[c] = 0 /\ \A d \in Clients : d # c => conn'[d] = conn[d] /\ clientSeq'[d] = clientSeq[d]
  BY DEF ReceiveClose, Drop, Reload, pageVars, TypeOK
<1>3. /\ DOMAIN connections' = DOMAIN connections
      /\ \A k \in DOMAIN connections : k # conn[c] => connections'[k] = connections[k]
      /\ \A k \in DOMAIN connections : connections'[k].hand = connections[k].hand
  <2>1. CASE Reload(c)
    BY <2>1 DEF Reload
  <2>2. CASE ReceiveClose(c) \/ Drop(c)
    <3>1. conn[c] # 0 /\ \E n \in Arrived(conn[c]) : Cut(conn[c], n)
      BY <2>2 DEF ReceiveClose, Drop, HasMessage
    <3>2. PICK n \in Arrived(conn[c]) : Cut(conn[c], n)
      BY <3>1
    <3>3. /\ DOMAIN connections' = DOMAIN connections
          /\ \A k \in DOMAIN connections : k # conn[c] => connections'[k] = connections[k]
          /\ connections'[conn[c]].hand = connections[conn[c]].hand
      BY <3>1, <3>2, CutTyped
    <3>4. QED
      BY <3>3
  <2>3. QED
    BY <2>1, <2>2
<1>4. ClientStep(c)
  BY <1>1, <1>2, <1>3 DEF ClientStep
<1>5. AtOneEnd(c)' /\ Looked(c)'
  BY <1>2 DEF AtOneEnd, Looked
<1>6. ASSUME ~ReloadQueued PROVE Numbered(c)'
  <2>1. Numbered(c)
    BY <1>6 DEF SyncInv, NumbersNameNonces
  <2>2. CASE queue[c] = << >>
    BY <1>1, <1>2, <2>2 DEF Numbered, ToSet
  <2>3. CASE queue[c] # << >>
    <3>1. clientSeq' = clientSeq
      BY <1>6, <2>3 DEF ReceiveClose, Drop, Reload, pageVars
    <3>2. \A n : PageNonce(c, n)' = PageNonce(c, n)
      BY <1>1, <3>1 DEF PageNonce
    <3>3. QED
      BY <1>1, <1>2, <2>1, <3>2 DEF Numbered
  <2>4. QED
    BY <2>2, <2>3
<1>7. QED
  BY <1>4, <1>5, <1>6, ClientLeavesOthers

----------------------------------------------------------------------------
\* Nobody has typed anything.
LEMMA InitSync == Init => SyncInv
<1> SUFFICES ASSUME Init PROVE SyncInv
  OBVIOUS
<1>1. /\ \A k \in DOMAIN connections :
            /\ connections[k].inbox = << >> /\ connections[k].out = << >>
            /\ connections[k].hand = Idle /\ connections[k].socket = "open"
      /\ \A c \in Clients : conn[c] \in DOMAIN connections /\ connections[conn[c]].client = c
  BY InitParts
<1>2. ToSet(<< >>) = {} /\ Idle.stage = "idle"
  BY DEF ToSet, Idle
<1>3. nonces = {} /\ \A c \in Clients : queue[c] = << >>
  BY DEF Init
<1>4. Connected
  BY <1>1 DEF Connected, AtOneEnd
<1>5. HandsHoldStored
  BY <1>1, <1>2 DEF HandsHoldStored
<1>6. NumbersNameNonces
  BY <1>1, <1>2, <1>3 DEF NumbersNameNonces, Numbered
<1>7. NothingForgotten
  BY <1>2, <1>3 DEF NothingForgotten, Looked
<1>8. QED
  BY <1>4, <1>5, <1>6, <1>7 DEF SyncInv

\* Stuttering.
LEMMA StutterKeepsSync ==
    ASSUME TypeOK, SyncInv, UNCHANGED vars
    PROVE  SyncInv'
<1>1. UNCHANGED <<clientVars, connections, log, nonces, failed>>
  BY DEF vars, serverVars, storeVars, guardVars
<1>2. \A k \in DOMAIN connections : Served(k)
  BY <1>1, UntouchedServed
<1>3. ServerStep
  BY <1>1, <1>2 DEF ServerStep
<1>4. TypeOK'
  BY StutterTyped
<1>5. QED
  BY <1>3, <1>4, ServerStepKeepsSync

\* Every step keeps what the queue rests on.
LEMMA NextKeepsSync == TypeOK /\ TypeOK' /\ SyncInv /\ [Next]_vars => SyncInv'
<1> SUFFICES ASSUME TypeOK, TypeOK', SyncInv, [Next]_vars PROVE SyncInv'
  OBVIOUS
<1>1. CASE UNCHANGED vars
  BY <1>1, StutterKeepsSync
<1>2. ASSUME NEW c \in Clients, Connect(c) \/ Type(c) \/ Receive(c) \/ Drop(c) \/ Reload(c)
      PROVE  SyncInv'
  BY <1>2, ConnectKeepsSync, TypeKeepsSync, JoinAckKeepsSync, ReceivedKeepsSync, LeavingKeepsSync
     DEF Receive
<1>3. ASSUME NEW k \in DOMAIN connections, Joining(k) \/ RejectEarly(k)
      PROVE  SyncInv'
  BY <1>3, JoiningServes, ServerStepKeepsSync
<1>4. ASSUME NEW k \in DOMAIN connections, Handle(k) \/ Refuse(k) \/ HandlerFails(k)
      PROVE  SyncInv'
  <2>1. ServerStep
    BY <1>4, TakeServes, PersistServes, HandleServes DEF Handle
  <2>2. QED
    BY <2>1, ServerStepKeepsSync
<1>5. CASE FanOut
  BY <1>5, FanOutServes, ServerStepKeepsSync
<1>6. CASE Expire
  BY <1>6, ExpireServes, ServerStepKeepsSync
<1>7. CASE Rest
  BY <1>7, StutterKeepsSync DEF Rest
<1>8. QED
  BY <1>1, <1>2, <1>3, <1>4, <1>5, <1>6, <1>7 DEF Next

\* A client's number is bound to one operation, whatever is queued is on its
\* way or was taken up, and a handler knows the row it acknowledges
\* (OfflineQueue, onReconnect, isReplay, handleOperation).
THEOREM QueueInvariance == Spec => [](TypeOK /\ SyncInv)
<1>1. Init => TypeOK /\ SyncInv
  BY InitTyped, InitSync
<1>2. TypeOK /\ SyncInv /\ [Next]_vars => (TypeOK /\ SyncInv)'
  BY NextTyped, NextKeepsSync
<1>3. QED
  BY <1>1, <1>2, PTL DEF Spec

\* What a connected client typed, online or not, and has not been told of is in
\* the table once nothing is under way, unless a handler failed or refused
\* (offline-queue.ts, useSyncedEditor's onReconnect, isReplay).
THEOREM QueuedOperationsAreStored == Spec => []QueuedMeansStored
<1>1. TypeOK /\ SyncInv => QueuedMeansStored
  <2> SUFFICES ASSUME TypeOK, SyncInv, Quiet, ~failed, NEW c \in Clients, conn[c] # 0,
                      NEW msg \in ToSet(queue[c])
               PROVE  Stored(msg)
    BY DEF QueuedMeansStored
  <2> DEFINE x == connections[conn[c]]
  <2>1. conn[c] \in DOMAIN connections /\ x.socket # "gone"
    BY ConnParts DEF SyncInv, Connected, AtOneEnd
  <2>2. /\ x.inbox = << >> /\ x.out = << >> /\ x.stage = "live"
        /\ \A k \in DOMAIN connections : connections[k].hand = Idle
    BY <2>1 DEF Quiet, Socket
  <2>3. ~Announced(conn[c]) /\ msg \notin ToSet(x.inbox)
    BY <2>2 DEF Announced, ToSet
  <2>4. Stands(msg.nonce)
    BY <2>2, <2>3 DEF SyncInv, NothingForgotten, Looked
  <2>5. QED
    BY <2>2, <2>4 DEF Stands, HasStored, Stored, Storing, Idle
<1>2. QED
  BY <1>1, QueueInvariance, PTL

\* What OP_ACK takes out of the queue is in the table: where no page starts to
\* number anew beside a queue, a number is bound to one operation
\* (OfflineQueue.acknowledge).
THEOREM AcknowledgedOperationsAreStored ==
    ASSUME ReloadQueued = FALSE
    PROVE  Spec => AcknowledgedMeansStored
<1>1. TypeOK /\ SyncInv /\ [Next]_vars =>
          [\A c \in Clients : \A msg \in ToSet(queue[c]) \ ToSet(queue'[c]) : Stored(msg)]_vars
  <2> SUFFICES ASSUME TypeOK, SyncInv, Next, NEW c \in Clients,
                      NEW msg \in ToSet(queue[c]), msg \notin ToSet(queue'[c])
               PROVE  Stored(msg)
    OBVIOUS
  <2>1. CASE ReceiveAck(c)
    <3> DEFINE k == conn[c]
               x == connections[k]
               ack == Incoming(c)
    <3>1. /\ k # 0 /\ x.out # << >> /\ ack.type = "OP_ACK"
          /\ queue' = [queue EXCEPT ![c] = Without(@, ack.clientSeq)]
      BY <2>1 DEF ReceiveAck, HasMessage
    <3>2. ack \in ServerMessage /\ ack \in ToSet(x.out)
      BY <3>1, IncomingParts
    <3>3. ack.serverSeq \in DOMAIN log
      BY <3>1, <3>2 DEF ServerMessage, Close
    <3>4. queue[c] \in Seq(Message) /\ queue'[c] = Without(queue[c], ack.clientSeq)
      BY <3>1 DEF TypeOK
    <3>5. msg.clientSeq = ack.clientSeq
      <4> HIDE DEF ack
      <4>1. ToSet(Without(queue[c], ack.clientSeq)) =
               ToSet(queue[c]) \ {m \in ToSet(queue[c]) : m.clientSeq = ack.clientSeq}
        BY <3>4, OmitElements DEF Without
      <4>2. QED
        BY <3>4, <4>1
    <3>6. Numbered(c)
      BY DEF SyncInv, NumbersNameNonces
    <3>7. msg.nonce = log[ack.serverSeq].nonce
      BY <3>1, <3>2, <3>5, <3>6 DEF Numbered
    <3>8. QED
      BY <3>3, <3>7 DEF Stored
  <2>2. ASSUME ~ReceiveAck(c) PROVE FALSE
    <3>1. queue'[c] = queue[c] \/ \E new \in Message : queue'[c] = Append(queue[c], new)
      <4>1. ASSUME NEW d \in Clients, Connect(d) \/ Receive(d) \/ Drop(d) \/ Reload(d)
            PROVE  queue'[c] = queue[c]
        BY <2>2, <4>1 DEF Connect, Receive, ReceiveJoinAck, ReceiveAck, ReceiveBroadcast,
                          ReceiveClose, Drop, Reload, TypeOK
      <4>2. ASSUME NEW d \in Clients, Type(d)
            PROVE  queue'[c] = queue[c] \/ \E new \in Message : queue'[c] = Append(queue[c], new)
        <5>1. PICK new \in Message : queue' = [queue EXCEPT ![d] = Append(@, new)]
          BY <4>2, TypeParts
        <5>2. QED
          BY <5>1 DEF TypeOK
      <4>3. ASSUME NEW k \in DOMAIN connections, Joining(k) \/ RejectEarly(k) \/ Handle(k)
            PROVE  queue'[c] = queue[c]
        BY <4>3 DEF Joining, ReadMissed, Register, SendAck, RejectEarly, Handle, Take, RefuseReplay,
                    Persist, Publish, Acknowledge, clientVars
      <4>4. ASSUME NEW k \in DOMAIN connections, Refuse(k) \/ HandlerFails(k)
            PROVE  queue'[c] = queue[c]
        BY <4>4 DEF Refuse, HandlerFails, clientVars
      <4>5. FanOut \/ Expire \/ Rest => queue'[c] = queue[c]
        BY DEF FanOut, Expire, Rest, vars, clientVars
      <4>6. QED
        BY <4>1, <4>2, <4>3, <4>4, <4>5 DEF Next
    <3>2. queue[c] \in Seq(Message)
      BY DEF TypeOK
    <3>3. ToSet(queue[c]) \subseteq ToSet(queue'[c])
      <4>1. ASSUME NEW new \in Message, queue'[c] = Append(queue[c], new)
            PROVE  ToSet(queue[c]) \subseteq ToSet(queue'[c])
        <5>1. ToSet(Append(queue[c], new)) = ToSet(queue[c]) \cup {new}
          BY <3>2, AppendElements
        <5>2. QED
          BY <4>1, <5>1
      <4>2. QED
        BY <3>1, <4>1
    <3>4. QED
      BY <3>3
  <2>3. QED
    BY <2>1, <2>2
<1>2. QED
  BY <1>1, QueueInvariance, PTL DEF Spec, AcknowledgedMeansStored

----------------------------------------------------------------------------
(* Operations and the documents they make. *)

Inserting(ops) == {op \in ops : op.type = "INSERT"}

InsertedBy(ops) == {op.uid : op \in Inserting(ops)}

DeletedBy(ops) == {op.uid : op \in {o \in ops : o.type = "DELETE"}}

\* d has the effect of op.
Shows(d, op) == IF op.type = "INSERT" THEN Holds(d.list, op.uid) ELSE op.uid \in d.tomb

\* A document that holds S takes op.
Ready(op, S) == op.uid \in S \/ (op.type = "INSERT" /\ op.after \in S \cup {Root})

\* d was made by some of these operations. Where a UID means one insert, its
\* characters stand where these inserts put them.
Built(d, ops) ==
    /\ d \in Document
    /\ ToSet(d.list) \subseteq InsertedBy(ops) /\ d.tomb \subseteq DeletedBy(ops)
    /\ OneOpPerUid(Inserting(ops)) => WellPlaced(d.list, Inserting(ops))

----------------------------------------------------------------------------
(* A document and the broadcasts it is going to be given. *)

\* The broadcasts in out behind position a, their operations, and those that
\* come before position j.
Awaited(out, a) == {j \in (a + 1)..Len(out) : out[j].type = "BROADCAST"}

OpAt(out, rows, j) == rows[out[j].serverSeq].op

AwaitedBefore(out, a, rows, j) == {OpAt(out, rows, i) : i \in {i \in Awaited(out, a) : i < j}}

\* d is made of ops; what of seen it does not show is awaited; and everything
\* awaited will find what it needs.
Follows(d, out, a, ops, rows, seen) ==
    /\ Built(d, ops)
    /\ \A op \in seen : Shows(d, op) \/ \E j \in Awaited(out, a) : OpAt(out, rows, j) = op
    /\ \A j \in Awaited(out, a) :
          Ready(OpAt(out, rows, j), ToSet(d.list) \cup InsertedBy(AwaitedBefore(out, a, rows, j)))

----------------------------------------------------------------------------
(* What JOIN_ACK and the broadcasts after it rest on. *)

OpsOf(messages) == {msg.op : msg \in messages}

\* Applied in memory, and stored or about to be.
Accepted ==
    {log[i].op : i \in DOMAIN log}
        \cup {connections[k].hand.msg.op : k \in {l \in DOMAIN connections : Storing(l)}}

StoredOp(n) == log[channel[n]].op

FannedOps == {StoredOp(n) : n \in 1..fanned}

\* Every operation on the channel finds what it needs in those before it.
ChannelReady ==
    \A n \in DOMAIN channel : Ready(StoredOp(n), InsertedBy({StoredOp(m) : m \in 1..(n - 1)}))

\* Everything that was typed and is not forgotten: in the table, in a handler's
\* hand, on its way, and in a queue.
InRows == {log[i] : i \in DOMAIN log}

InHands ==
    {connections[k].hand.msg : k \in {l \in DOMAIN connections : connections[l].hand.stage # "idle"}}

InInboxes == UNION {ToSet(connections[k].inbox) : k \in DOMAIN connections}

InQueues == UNION {ToSet(queue[c]) : c \in Clients}

Issued == InRows \cup InHands \cup InInboxes \cup InQueues

\* A nonce is drawn once, and a character's clock is above its anchor's.
IssuedOnce ==
    /\ \A m1, m2 \in Issued : m1.nonce = m2.nonce => m1 = m2
    /\ \A msg \in Issued : msg.nonce[2] < typed[msg.nonce[1]]
    /\ \A msg \in Issued : msg.op.type = "INSERT" => msg.op.after.clock < msg.op.uid.clock

\* What is stored and not published is in a handler's hand.
StoredIsPublished ==
    ~failed => \A i \in DOMAIN log :
        i \in ToSet(channel) \/ \E k \in DOMAIN connections :
                                   connections[k].hand.stage = "publish" /\ connections[k].hand.seq = i

\* The document in memory is what was accepted.
MemoryShows ==
    ~gap /\ ~failed => Built(memory, Accepted) /\ \A op \in Accepted : Shows(memory, op)

\* JOIN_ACK is the last step of a JOIN.
AckLast(connection) ==
    /\ connection.whole => connection.stage = "live"
    /\ connection.stage # "live" => \A msg \in ToSet(connection.out) : msg.type # "JOIN_ACK"

AckComesLast == \A k \in DOMAIN connections : AckLast(connections[k])

\* a is the position of JOIN_ACK in out, 0 when it was received.
AckAt(out, a) == \A j \in 1..Len(out) : out[j].type = "JOIN_ACK" <=> j = a

\* c has a connection over which it got all nodes, or is going to.
GotWhole(c) ==
    conn[c] # 0 /\ connections[conn[c]].whole /\ connections[conn[c]].socket = "open"

\* What c may come to show: what was accepted, and what it sent.
Shared(c) == Accepted \cup OpsOf(ToSet(connections[conn[c]].inbox))

\* The document c has, or is going to be given, follows the broadcasts.
Following(c, a) ==
    LET out == connections[conn[c]].out
    IN /\ a \in 0..Len(out) /\ AckAt(out, a)
       /\ a = 0 => joined[c] /\ Follows(doc[c], out, 0, Shared(c), log, FannedOps)
       /\ a # 0 => /\ out[a].from = 0 /\ out[a].to = 0
                   /\ Follows(out[a].nodes, out, a, Shared(c), log, FannedOps)

JoinerFollows(c) ==
    GotWhole(c) /\ ~gap /\ ~failed /\ ChannelReady => \E a \in Nat : Following(c, a)

JoinInv ==
    /\ IssuedOnce /\ StoredIsPublished /\ MemoryShows /\ AckComesLast
    /\ \A c \in Clients : JoinerFollows(c)

----------------------------------------------------------------------------
(* Making documents. *)

\* The clients' UIDs are UIDs, and their operations have the shape Apply takes.
LEMMA OperationParts ==
    /\ Uids \subseteq AllUids
    /\ \A op \in Operation :
          /\ op.uid \in Uids /\ op.type \in {"INSERT", "DELETE"}
          /\ op.type = "INSERT" => op.after \in Uids \cup {Root} /\ op \in AllInserts
<1>1. Uids \subseteq AllUids
  BY ClientsAssumption DEF Uids, UID, AllUids
<1>2. QED
  BY <1>1 DEF Operation, AllInserts

\* A list of the clients' UIDs is one of UIDs.
LEMMA UidLists == ASSUME NEW l \in Seq(Uids) PROVE l \in Seq(AllUids)
<1>1. Seq(Uids) \subseteq Seq(AllUids)
  BY OperationParts, SeqsGrow
<1>2. QED
  BY <1>1

\* Inserts of the clients are inserts.
LEMMA InsertsOf ==
    ASSUME NEW ops \in SUBSET Operation
    PROVE  Inserting(ops) \in SUBSET AllInserts
BY OperationParts DEF Inserting

\* Among more operations, as long as a UID means one insert.
LEMMA PlacedAmongMore ==
    ASSUME NEW ins, NEW more, ins \subseteq more, OneOpPerUid(more), NEW L, WellPlaced(L, ins)
    PROVE  WellPlaced(L, more)
<1>1. NoRepeats(L) /\ Anchored(L, more)
  BY DEF WellPlaced, Anchored
<1>2. Sheltered(L, more)
  <2> SUFFICES ASSUME NEW op \in more, NEW i \in 1..Len(L), NEW j \in 1..(i - 1),
                      L[i] = op.uid, LeftOf(L, op.after, j)
               PROVE  Less(op.uid, L[j])
    BY DEF Sheltered
  <2>1. PICK o \in ins : o.uid = L[i]
    BY DEF WellPlaced, Anchored
  <2>2. o = op
    BY <2>1 DEF OneOpPerUid
  <2>3. QED
    BY <2>1, <2>2 DEF WellPlaced, Sheltered
<1>3. QED
  BY <1>1, <1>2 DEF WellPlaced

\* The UIDs of more operations.
LEMMA UidsMore ==
    ASSUME NEW ops, NEW more, ops \subseteq more
    PROVE  /\ Inserting(ops) \subseteq Inserting(more) /\ InsertedBy(ops) \subseteq InsertedBy(more)
           /\ DeletedBy(ops) \subseteq DeletedBy(more)
BY DEF Inserting, InsertedBy, DeletedBy

\* A document made of some operations is made of more.
LEMMA BuiltMore ==
    ASSUME NEW ops, NEW more, ops \subseteq more, NEW d, Built(d, ops)
    PROVE  Built(d, more)
<1>1. ToSet(d.list) \subseteq InsertedBy(more) /\ d.tomb \subseteq DeletedBy(more)
  BY UidsMore DEF Built
<1>2. ASSUME OneOpPerUid(Inserting(more)) PROVE WellPlaced(d.list, Inserting(more))
  <2>1. OneOpPerUid(Inserting(ops))
    BY <1>2, UidsMore DEF OneOpPerUid
  <2>2. WellPlaced(d.list, Inserting(ops))
    BY <2>1 DEF Built
  <2>3. QED
    BY <1>2, <2>2, UidsMore, PlacedAmongMore
<1>3. QED
  BY <1>1, <1>2 DEF Built

\* Applicable, by the UIDs a document holds.
LEMMA ReadyIs ==
    ASSUME NEW d, NEW op \in Operation
    PROVE  Applicable(d, op) <=> Ready(op, ToSet(d.list))
BY OperationParts DEF Applicable, Ready, Known, Holds

\* Ready among some is ready among more.
LEMMA ReadyMore ==
    ASSUME NEW op, NEW S, NEW T, S \subseteq T, Ready(op, S)
    PROVE  Ready(op, T)
BY DEF Ready

\* What Apply does to a document of the clients' UIDs.
LEMMA ApplyIs ==
    ASSUME NEW d \in Document, NEW op \in Operation
    PROVE  /\ Apply(d, op) \in Document
           /\ op.type = "INSERT" =>
                 /\ Apply(d, op).tomb = d.tomb
                 /\ ToSet(Apply(d, op).list) = IF Ready(op, ToSet(d.list)) THEN ToSet(d.list) \cup {op.uid}
                                               ELSE ToSet(d.list)
           /\ op.type # "INSERT" =>
                 /\ Apply(d, op).list = d.list
                 /\ Apply(d, op).tomb = IF Ready(op, ToSet(d.list)) THEN d.tomb \cup {op.uid} ELSE d.tomb
           /\ ToSet(d.list) \subseteq ToSet(Apply(d, op).list)
<1>1. /\ d = [list |-> d.list, tomb |-> d.tomb] /\ d.list \in Seq(Uids)
      /\ op.uid \in Uids /\ (op.type = "INSERT" => op.after \in Uids \cup {Root})
  BY OperationParts DEF Document
<1>2. Apply(d, op) \in Document
  BY OperationsStay DEF ApplyStaysIn
<1>3. Applicable(d, op) <=> Ready(op, ToSet(d.list))
  BY ReadyIs
<1>4. /\ op.type = "INSERT" =>
            /\ ToSet(Apply(d, op).list) = IF Applicable(d, op) THEN ToSet(d.list) \cup {op.uid}
                                          ELSE ToSet(d.list)
            /\ Apply(d, op).tomb = d.tomb
      /\ op.type # "INSERT" =>
            /\ Apply(d, op).list = d.list
            /\ Apply(d, op).tomb = IF Applicable(d, op) THEN d.tomb \cup {op.uid} ELSE d.tomb
  BY <1>1, ApplyElements
<1>5. QED
  BY <1>2, <1>3, <1>4

\* A document stays made of operations when one of them is applied.
LEMMA BuiltApply ==
    ASSUME NEW ops \in SUBSET Operation, NEW op \in ops, NEW d, Built(d, ops)
    PROVE  Built(Apply(d, op), ops)
<1> DEFINE e == Apply(d, op)
           ins == Inserting(ops)
<1>1. op \in Operation /\ d \in Document
  BY DEF Built
<1>2. e \in Document /\ ToSet(e.list) \subseteq InsertedBy(ops) /\ e.tomb \subseteq DeletedBy(ops)
  <2>1. op.type = "INSERT" => op.uid \in InsertedBy(ops)
    BY DEF InsertedBy, Inserting
  <2>2. op.type # "INSERT" => op.uid \in DeletedBy(ops)
    BY <1>1, OperationParts DEF DeletedBy
  <2>3. ToSet(d.list) \subseteq InsertedBy(ops) /\ d.tomb \subseteq DeletedBy(ops)
    BY DEF Built
  <2> HIDE DEF e
  <2>4. QED
    BY <1>1, <2>1, <2>2, <2>3, ApplyIs DEF e
<1>3. ASSUME OneOpPerUid(ins) PROVE WellPlaced(e.list, ins)
  <2>1. WellPlaced(d.list, ins)
    BY <1>3 DEF Built
  <2>2. CASE op.type = "INSERT" /\ ~Holds(d.list, op.uid) /\ Known(d.list, op.after)
    <3>1. e.list = Place(d.list, op.after, op.uid)
      BY <1>1, <2>2 DEF Apply, ApplyInsert, Document
    <3>2. ins \in SUBSET AllInserts /\ op \in ins
      BY <2>2, InsertsOf DEF Inserting
    <3>3. d.list \in Seq(AllUids)
      BY <1>1, UidLists DEF Document
    <3> HIDE DEF e, ins
    <3>4. WellPlaced(Place(d.list, op.after, op.uid), ins)
      BY <1>3, <2>1, <2>2, <3>2, <3>3, PlaceKeepsPlaced
    <3>5. QED
      BY <3>1, <3>4
  <2>3. CASE ~(op.type = "INSERT" /\ ~Holds(d.list, op.uid) /\ Known(d.list, op.after))
    <3>1. e.list = d.list
      <4>1. op.type # "INSERT" => e.list = d.list
        BY <1>1, ApplyIs
      <4>2. op.type = "INSERT" => e = d
        BY <2>3 DEF Apply, ApplyInsert
      <4>3. QED
        BY <4>1, <4>2
    <3>2. QED
      BY <2>1, <3>1
  <2>4. QED
    BY <2>2, <2>3
<1>4. QED
  BY <1>2, <1>3 DEF Built

\* The empty document is made of nothing.
LEMMA EmptyIsBuilt == ASSUME NEW ops PROVE Built(EmptyDoc, ops)
<1>1. EmptyDoc \in Document /\ ToSet(EmptyDoc.list) = {} /\ EmptyDoc.tomb = {} /\ EmptyDoc.list = << >>
  BY DEF EmptyDoc, Document, ToSet
<1>2. WellPlaced(<< >>, Inserting(ops))
  BY DEF WellPlaced, NoRepeats, Anchored, Sheltered
<1>3. QED
  BY <1>1, <1>2 DEF Built

\* An operation that is applied shows, and what showed before still does.
LEMMA AppliedShows ==
    ASSUME NEW d \in Document, NEW op \in Operation
    PROVE  /\ \A e : Shows(d, e) => Shows(Apply(d, op), e)
           /\ Ready(op, ToSet(d.list)) => Shows(Apply(d, op), op)
<1> DEFINE b == Apply(d, op)
<1>1. ToSet(d.list) \subseteq ToSet(b.list) /\ d.tomb \subseteq b.tomb
  BY ApplyIs
<1>2. Ready(op, ToSet(d.list)) => IF op.type = "INSERT" THEN op.uid \in ToSet(b.list) ELSE op.uid \in b.tomb
  BY ApplyIs
<1> HIDE DEF b
<1>3. QED
  BY <1>1, <1>2 DEF Shows, Holds, b

\* Two documents that are made of the same operations and show them all are one.
LEMMA BuiltOnce ==
    ASSUME NEW ops \in SUBSET Operation, OneOpPerUid(Inserting(ops)), AboveAnchors(Inserting(ops)),
           NEW d, NEW e, Built(d, ops), Built(e, ops),
           \A op \in ops : Shows(d, op) /\ Shows(e, op)
    PROVE  d = e
<1>1. /\ d = [list |-> d.list, tomb |-> d.tomb] /\ d.list \in Seq(Uids)
      /\ e = [list |-> e.list, tomb |-> e.tomb] /\ e.list \in Seq(Uids)
  BY DEF Built, Document
<1>2. ToSet(d.list) = InsertedBy(ops) /\ ToSet(e.list) = InsertedBy(ops)
  BY DEF Built, Shows, Holds, InsertedBy, Inserting
<1>3. d.tomb = DeletedBy(ops) /\ e.tomb = DeletedBy(ops)
  <2>1. \A op \in ops : op.type = "DELETE" => op.uid \in d.tomb /\ op.uid \in e.tomb
    BY DEF Shows
  <2>2. QED
    BY <2>1 DEF Built, DeletedBy
<1>4. d.list \in Seq(AllUids) /\ e.list \in Seq(AllUids)
  BY <1>1, UidLists
<1>5. Inserting(ops) \in SUBSET AllInserts
  BY InsertsOf
<1>6. WellPlaced(d.list, Inserting(ops)) /\ WellPlaced(e.list, Inserting(ops))
  BY DEF Built
<1>7. Agree(d.list, e.list)
  BY <1>4, <1>5, <1>6, PlacedListsAgree
<1>8. d.list = e.list
  BY <1>2, <1>4, <1>6, <1>7, AgreeingAreEqual DEF WellPlaced
<1>9. QED
  BY <1>1, <1>3, <1>8

----------------------------------------------------------------------------
(* Following the broadcasts. *)

\* With more operations, and rows that say the same of what is awaited.
LEMMA FollowsMore ==
    ASSUME NEW d, NEW out, NEW a, NEW ops, NEW rows, NEW seen, Follows(d, out, a, ops, rows, seen),
           NEW more, ops \subseteq more,
           NEW grown, \A j \in Awaited(out, a) : OpAt(out, grown, j) = OpAt(out, rows, j)
    PROVE  Follows(d, out, a, more, grown, seen)
<1>1. Built(d, more)
  BY BuiltMore DEF Follows
<1>2. \A j \in Awaited(out, a) : AwaitedBefore(out, a, grown, j) = AwaitedBefore(out, a, rows, j)
  BY DEF AwaitedBefore
<1>3. QED
  BY <1>1, <1>2 DEF Follows

\* The document takes an operation of its client in.
LEMMA FollowsTyped ==
    ASSUME NEW ops \in SUBSET Operation, NEW op \in ops, NEW d, NEW out, NEW a, NEW rows, NEW seen,
           Follows(d, out, a, ops, rows, seen)
    PROVE  Follows(Apply(d, op), out, a, ops, rows, seen)
<1> DEFINE e == Apply(d, op)
<1>1. Built(d, ops) /\ d \in Document /\ op \in Operation
  BY DEF Follows, Built
<1>2. Built(e, ops) /\ ToSet(d.list) \subseteq ToSet(e.list) /\ \A o : Shows(d, o) => Shows(e, o)
  BY <1>1, BuiltApply, ApplyIs, AppliedShows
<1> HIDE DEF e
<1>3. \A j \in Awaited(out, a) :
         Ready(OpAt(out, rows, j), ToSet(e.list) \cup InsertedBy(AwaitedBefore(out, a, rows, j)))
  <2> TAKE j \in Awaited(out, a)
  <2>1. Ready(OpAt(out, rows, j), ToSet(d.list) \cup InsertedBy(AwaitedBefore(out, a, rows, j)))
    BY DEF Follows
  <2>2. QED
    BY <1>2, <2>1, ReadyMore
<1>4. QED
  BY <1>2, <1>3 DEF Follows, e

\* With one more message, what was awaited still is, at its place.
WithOneMore(out, m, a, rows, more) ==
    /\ Awaited(more, a) = IF m.type = "BROADCAST" THEN Awaited(out, a) \cup {Len(out) + 1}
                          ELSE Awaited(out, a)
    /\ \A j \in Awaited(out, a) : j < Len(out) + 1 /\ OpAt(more, rows, j) = OpAt(out, rows, j)
    /\ \A j \in Awaited(out, a) : AwaitedBefore(more, a, rows, j) = AwaitedBefore(out, a, rows, j)
    /\ AwaitedBefore(more, a, rows, Len(out) + 1) = {OpAt(out, rows, j) : j \in Awaited(out, a)}
    /\ more[Len(out) + 1] = m

\* The server's end appends.
LEMMA AwaitedTold ==
    ASSUME NEW M, NEW out \in Seq(M), NEW m \in M, NEW a \in 0..Len(out), NEW rows
    PROVE  WithOneMore(out, m, a, rows, Append(out, m))
<1> DEFINE more == Append(out, m)
<1>1. /\ Len(more) = Len(out) + 1 /\ Len(out) \in Nat /\ more[Len(out) + 1] = m
      /\ \A j \in 1..Len(out) : more[j] = out[j]
  OBVIOUS
<1>2. /\ Awaited(more, a) = {j \in (a + 1)..(Len(out) + 1) : more[j].type = "BROADCAST"}
      /\ Awaited(out, a) = {j \in (a + 1)..Len(out) : out[j].type = "BROADCAST"}
  BY <1>1 DEF Awaited
<1>3. \A j \in Awaited(out, a) : j \in 1..Len(out) /\ j < Len(out) + 1
  BY <1>1, <1>2
<1>4. \A j \in Awaited(out, a) : OpAt(more, rows, j) = OpAt(out, rows, j)
  BY <1>1, <1>3 DEF OpAt
<1>5. \A j \in (a + 1)..(Len(out) + 1) : j \in 1..Len(out) \/ j = Len(out) + 1
  BY <1>1
<1>6. \A j : j \in Awaited(more, a) <=> j \in Awaited(out, a) \/ (j = Len(out) + 1 /\ m.type = "BROADCAST")
  <2>1. (a + 1)..(Len(out) + 1) = (a + 1)..Len(out) \cup {Len(out) + 1}
    BY <1>1
  <2>2. \A j \in (a + 1)..Len(out) : j \in 1..Len(out)
    BY <1>1
  <2>3. QED
    BY <1>1, <1>2, <2>1, <2>2
<1>7. \A j \in Awaited(out, a) : AwaitedBefore(more, a, rows, j) = AwaitedBefore(out, a, rows, j)
  <2> TAKE j \in Awaited(out, a)
  <2>1. ~(Len(out) + 1 < j)
    BY <1>1, <1>3
  <2>2. {i \in Awaited(more, a) : i < j} = {i \in Awaited(out, a) : i < j}
    BY <1>6, <2>1
  <2>3. QED
    BY <1>4, <2>2 DEF AwaitedBefore
<1>8. AwaitedBefore(more, a, rows, Len(out) + 1) = {OpAt(out, rows, j) : j \in Awaited(out, a)}
  <2>1. ~(Len(out) + 1 < Len(out) + 1)
    BY <1>1
  <2>2. {i \in Awaited(more, a) : i < Len(out) + 1} = Awaited(out, a)
    BY <1>3, <1>6, <2>1
  <2>3. QED
    BY <1>4, <2>2 DEF AwaitedBefore
<1>9. QED
  BY <1>1, <1>3, <1>4, <1>6, <1>7, <1>8 DEF WithOneMore

\* A message that is no broadcast does not matter.
LEMMA FollowsTold ==
    ASSUME NEW M, NEW out \in Seq(M), NEW m \in M, m.type # "BROADCAST", NEW a \in 0..Len(out),
           NEW d, NEW ops, NEW rows, NEW seen, Follows(d, out, a, ops, rows, seen)
    PROVE  Follows(d, Append(out, m), a, ops, rows, seen)
<1> DEFINE more == Append(out, m)
<1>0. WithOneMore(out, m, a, rows, more)
  BY AwaitedTold
<1> HIDE DEF more
<1>1. /\ Awaited(more, a) = Awaited(out, a)
      /\ \A j \in Awaited(out, a) : OpAt(more, rows, j) = OpAt(out, rows, j)
      /\ \A j \in Awaited(out, a) : AwaitedBefore(more, a, rows, j) = AwaitedBefore(out, a, rows, j)
  BY <1>0 DEF WithOneMore
<1>2. QED
  BY <1>1 DEF Follows, more

\* A broadcast whose operation finds what it needs in those before it.
LEMMA FollowsFanned ==
    ASSUME NEW M, NEW out \in Seq(M), NEW m \in M, m.type = "BROADCAST", NEW a \in 0..Len(out),
           NEW d, NEW ops, NEW rows, NEW seen, Follows(d, out, a, ops, rows, seen),
           NEW op, rows[m.serverSeq].op = op, Ready(op, InsertedBy(seen))
    PROVE  Follows(d, Append(out, m), a, ops, rows, seen \cup {op})
<1> DEFINE more == Append(out, m)
           n == Len(out) + 1
           before == {OpAt(out, rows, j) : j \in Awaited(out, a)}
<1>0. WithOneMore(out, m, a, rows, more)
  BY AwaitedTold
<1> HIDE DEF more
<1>1. /\ Awaited(more, a) = Awaited(out, a) \cup {n}
      /\ \A j \in Awaited(out, a) : OpAt(more, rows, j) = OpAt(out, rows, j)
      /\ \A j \in Awaited(out, a) : AwaitedBefore(more, a, rows, j) = AwaitedBefore(out, a, rows, j)
      /\ AwaitedBefore(more, a, rows, n) = before
      /\ more[n] = m
  BY <1>0 DEF WithOneMore
<1> HIDE DEF n
<1>2. OpAt(more, rows, n) = op
  BY <1>1 DEF OpAt
<1>3. InsertedBy(seen) \subseteq ToSet(d.list) \cup InsertedBy(before)
  <2> SUFFICES ASSUME NEW o \in seen, o.type = "INSERT" PROVE o.uid \in ToSet(d.list) \cup InsertedBy(before)
    BY DEF InsertedBy, Inserting
  <2>1. Shows(d, o) \/ o \in before
    BY DEF Follows
  <2>2. QED
    BY <2>1 DEF Shows, Holds, InsertedBy, Inserting
<1> HIDE DEF before
<1>4. Ready(op, ToSet(d.list) \cup InsertedBy(before))
  BY <1>3, ReadyMore
<1>5. QED
  BY <1>1, <1>2, <1>4 DEF Follows, more

\* The first message is received. If it is an awaited broadcast, the document
\* shows its operation now; it may have changed, but only by growing.
LEMMA FollowsTail ==
    ASSUME NEW M, NEW out \in Seq(M), out # << >>, NEW a \in 0..Len(out), NEW b,
           b = (IF a = 0 THEN 0 ELSE a - 1),
           NEW d, NEW ops, NEW rows, NEW seen, Follows(d, out, a, ops, rows, seen),
           NEW e, Built(e, ops), ToSet(d.list) \subseteq ToSet(e.list), \A o : Shows(d, o) => Shows(e, o),
           1 \in Awaited(out, a) => Shows(e, OpAt(out, rows, 1))
    PROVE  Follows(e, Tail(out), b, ops, rows, seen)
<1> DEFINE rest == Tail(out)
<1>1. /\ Len(out) \in Nat /\ Len(out) # 0 /\ Len(rest) = Len(out) - 1
      /\ \A i \in 1..(Len(out) - 1) : rest[i] = out[i + 1]
  OBVIOUS
<1>2. /\ Awaited(rest, b) = {i \in (b + 1)..(Len(out) - 1) : rest[i].type = "BROADCAST"}
      /\ Awaited(out, a) = {j \in (a + 1)..Len(out) : out[j].type = "BROADCAST"}
  BY <1>1 DEF Awaited
<1> HIDE DEF rest
<1>3. \A i \in Awaited(rest, b) : i \in Nat /\ i + 1 \in Awaited(out, a) /\ OpAt(rest, rows, i) = OpAt(out, rows, i + 1)
  <2> TAKE i \in Awaited(rest, b)
  <2>1. i \in (b + 1)..(Len(out) - 1) /\ rest[i].type = "BROADCAST" /\ b \in Nat
    BY <1>1, <1>2
  <2>2. i \in 1..(Len(out) - 1) /\ i + 1 \in (a + 1)..Len(out)
    BY <1>1, <2>1
  <2>3. QED
    BY <1>1, <1>2, <2>1, <2>2 DEF OpAt
<1>4. \A j \in Awaited(out, a) : j # 1 => \E i \in Awaited(rest, b) : i + 1 = j
  <2> TAKE j \in Awaited(out, a)
  <2> HAVE j # 1
  <2>1. j \in (a + 1)..Len(out) /\ out[j].type = "BROADCAST"
    BY <1>2
  <2>2. j - 1 \in (b + 1)..(Len(out) - 1) /\ j - 1 \in 1..(Len(out) - 1) /\ (j - 1) + 1 = j
    BY <1>1, <2>1
  <2>3. QED
    BY <1>1, <1>2, <2>1, <2>2
<1>5. \A o \in seen : Shows(e, o) \/ \E i \in Awaited(rest, b) : OpAt(rest, rows, i) = o
  <2> TAKE o \in seen
  <2>1. CASE Shows(d, o)
    BY <2>1
  <2>2. CASE \E j \in Awaited(out, a) : OpAt(out, rows, j) = o
    <3>1. PICK j \in Awaited(out, a) : OpAt(out, rows, j) = o
      BY <2>2
    <3>2. CASE j = 1
      BY <3>1, <3>2
    <3>3. CASE j # 1
      BY <1>3, <1>4, <3>1, <3>3
    <3>4. QED
      BY <3>2, <3>3
  <2>3. QED
    BY <2>1, <2>2 DEF Follows
<1>6. ASSUME NEW i \in Awaited(rest, b)
      PROVE  Ready(OpAt(rest, rows, i), ToSet(e.list) \cup InsertedBy(AwaitedBefore(rest, b, rows, i)))
  <2> DEFINE j == i + 1
             S == ToSet(d.list) \cup InsertedBy(AwaitedBefore(out, a, rows, j))
             T == ToSet(e.list) \cup InsertedBy(AwaitedBefore(rest, b, rows, i))
  <2>1. j \in Awaited(out, a) /\ OpAt(rest, rows, i) = OpAt(out, rows, j) /\ i \in Nat
    BY <1>3
  <2>2. Ready(OpAt(out, rows, j), S)
    BY <2>1 DEF Follows
  <2>3. InsertedBy(AwaitedBefore(out, a, rows, j)) \subseteq T
    <3> SUFFICES ASSUME NEW l \in Awaited(out, a), l < j, OpAt(out, rows, l).type = "INSERT"
                 PROVE  OpAt(out, rows, l).uid \in T
      BY DEF InsertedBy, Inserting, AwaitedBefore
    <3>1. CASE l = 1
      BY <3>1 DEF Shows, Holds
    <3>2. CASE l # 1
      <4>1. PICK m \in Awaited(rest, b) : m + 1 = l
        BY <1>4, <3>2
      <4>2. m < i /\ OpAt(rest, rows, m) = OpAt(out, rows, l)
        BY <1>3, <2>1, <4>1
      <4>3. OpAt(out, rows, l) \in AwaitedBefore(rest, b, rows, i)
        BY <4>2 DEF AwaitedBefore
      <4>4. QED
        BY <4>3 DEF InsertedBy, Inserting
    <3>3. QED
      BY <3>1, <3>2
  <2>4. S \subseteq T
    BY <2>3
  <2> HIDE DEF j, S, T
  <2>5. Ready(OpAt(rest, rows, i), T)
    BY <2>1, <2>2, <2>4, ReadyMore
  <2>6. QED
    BY <2>5 DEF T
<1>7. QED
  BY <1>5, <1>6 DEF Follows, rest

----------------------------------------------------------------------------
(* What is accepted, issued and fanned out. *)

\* Nothing new is issued (everything but a keystroke).
LEMMA IssuedLess ==
    ASSUME IssuedOnce, Issued' \subseteq Issued, typed' = typed
    PROVE  IssuedOnce'
BY DEF IssuedOnce

\* Where an issued message is.
LEMMA IssuedIs ==
    ASSUME NEW msg
    PROVE  msg \in Issued <=>
              \/ \E i \in DOMAIN log : msg = log[i]
              \/ \E k \in DOMAIN connections :
                    connections[k].hand.stage # "idle" /\ msg = connections[k].hand.msg
              \/ \E k \in DOMAIN connections : msg \in ToSet(connections[k].inbox)
              \/ \E c \in Clients : msg \in ToSet(queue[c])
<1>1. msg \in InRows <=> \E i \in DOMAIN log : msg = log[i]
  BY DEF InRows
<1>2. msg \in InHands <=> \E k \in DOMAIN connections :
                            connections[k].hand.stage # "idle" /\ msg = connections[k].hand.msg
  BY DEF InHands
<1>3. msg \in InInboxes <=> \E k \in DOMAIN connections : msg \in ToSet(connections[k].inbox)
  BY DEF InInboxes
<1>4. msg \in InQueues <=> \E c \in Clients : msg \in ToSet(queue[c])
  BY DEF InQueues
<1>5. QED
  BY <1>1, <1>2, <1>3, <1>4 DEF Issued

\* Everything issued is a message of a client.
LEMMA IssuedTypes ==
    ASSUME TypeOK
    PROVE  \A msg \in Issued : msg \in Message
<1>1. \A i \in DOMAIN log : log[i] \in Message
  <2> DEFINE M == Message
  <2>1. log \in Seq(M)
    BY DEF TypeOK
  <2> HIDE DEF M
  <2>2. QED
    BY <2>1 DEF M
<1>2. \A k \in DOMAIN connections : connections[k] \in Connection
  BY DEF TypeOK
<1>3. \A k \in DOMAIN connections : /\ connections[k].inbox \in Seq(Message)
                                    /\ connections[k].hand.stage # "idle" => connections[k].hand.msg \in Message
  BY <1>2, ConnectionParts, HandParts
<1>4. \A k \in DOMAIN connections : \A msg \in ToSet(connections[k].inbox) : msg \in Message
  BY <1>3 DEF ToSet
<1>5. \A c \in Clients : \A msg \in ToSet(queue[c]) : msg \in Message
  BY DEF TypeOK, ToSet
<1>6. QED
  BY <1>1, <1>3, <1>4, <1>5, IssuedIs, Zenon

\* Where an accepted operation is.
LEMMA AcceptedIs ==
    ASSUME NEW op
    PROVE  op \in Accepted <=>
              \/ \E i \in DOMAIN log : op = log[i].op
              \/ \E k \in DOMAIN connections : Storing(k) /\ op = connections[k].hand.msg.op
BY DEF Accepted

\* The operations that were accepted are issued ones.
LEMMA AcceptedIsIssued ==
    /\ \A op \in Accepted : \E msg \in Issued : msg.op = op
    /\ \A c \in Clients : conn[c] \in DOMAIN connections =>
          \A op \in Shared(c) : \E msg \in Issued : msg.op = op
<1>1. \A op \in Accepted : \E msg \in Issued : msg.op = op
  BY AcceptedIs, IssuedIs DEF Storing
<1>2. ASSUME NEW c \in Clients, conn[c] \in DOMAIN connections, NEW op \in Shared(c)
      PROVE  \E msg \in Issued : msg.op = op
  <2>1. op \in Accepted \/ \E msg \in ToSet(connections[conn[c]].inbox) : msg.op = op
    BY DEF Shared, OpsOf
  <2>2. QED
    BY <1>1, <1>2, <2>1, IssuedIs
<1>3. QED
  BY <1>1, <1>2

\* They are operations, and inserts have greater clocks than their anchors.
LEMMA AcceptedTypes ==
    ASSUME TypeOK, IssuedOnce
    PROVE  /\ Accepted \in SUBSET Operation /\ AboveAnchors(Inserting(Accepted))
           /\ \A c \in Clients : conn[c] # 0 => Shared(c) \in SUBSET Operation
<1>1. \A msg \in Issued : msg.op \in Operation
  BY IssuedTypes, MessageParts
<1>2. \A op \in Accepted : op.type = "INSERT" => op.after.clock < op.uid.clock
  BY AcceptedIsIssued DEF IssuedOnce
<1>3. \A c \in Clients : conn[c] # 0 => conn[c] \in DOMAIN connections
  BY ConnParts
<1>4. QED
  BY <1>1, <1>2, <1>3, AcceptedIsIssued DEF AboveAnchors, Inserting

\* What was fanned out is stored.
LEMMA ChannelIsStored ==
    ASSUME TypeOK
    PROVE  /\ \A n \in DOMAIN channel : channel[n] \in DOMAIN log /\ StoredOp(n) \in Accepted
           /\ FannedOps \subseteq Accepted
           /\ DOMAIN channel = 1..Len(channel) /\ Len(channel) \in Nat
<1>1. channel \in Seq(DOMAIN log) /\ fanned \in 0..Len(channel)
  BY DEF TypeOK
<1>2. \A n \in DOMAIN channel : channel[n] \in DOMAIN log
  BY <1>1
<1>3. \A n \in 1..fanned : n \in DOMAIN channel
  BY <1>1
<1>4. \A n \in DOMAIN channel : StoredOp(n) \in Accepted
  BY <1>2 DEF StoredOp, Accepted
<1>5. QED
  BY <1>1, <1>2, <1>3, <1>4 DEF FannedOps

\* The channel grows at its end, and the table too.
ChannelGrows ==
    /\ \A i \in DOMAIN log : i \in DOMAIN log' /\ log'[i] = log[i]
    /\ \A n \in DOMAIN channel : n \in DOMAIN channel' /\ channel'[n] = channel[n]

\* What was published keeps its meaning.
LEMMA PublishedStays ==
    ASSUME TypeOK, ChannelGrows
    PROVE  /\ \A n \in DOMAIN channel : StoredOp(n)' = StoredOp(n)
           /\ fanned' = fanned => FannedOps' = FannedOps
           /\ ChannelReady' => ChannelReady
           /\ ToSet(channel) \subseteq ToSet(channel')
<1>1. \A n \in DOMAIN channel : StoredOp(n)' = StoredOp(n)
  BY ChannelIsStored DEF ChannelGrows, StoredOp
<1>2. fanned \in 0..Len(channel) /\ DOMAIN channel = 1..Len(channel) /\ Len(channel) \in Nat
  BY ChannelIsStored DEF TypeOK
<1>3. \A n \in DOMAIN channel : \A m \in 1..(n - 1) : m \in DOMAIN channel
  BY <1>2
<1>4. \A n \in 1..fanned : n \in DOMAIN channel
  BY <1>2
<1>5. fanned' = fanned => FannedOps' = FannedOps
  BY <1>1, <1>4 DEF FannedOps
<1>6. ASSUME ChannelReady', NEW n \in DOMAIN channel
      PROVE  Ready(StoredOp(n), InsertedBy({StoredOp(m) : m \in 1..(n - 1)}))
  <2>1. n \in DOMAIN channel'
    BY DEF ChannelGrows
  <2>2. \A m \in 1..(n - 1) : StoredOp(m)' = StoredOp(m)
    BY <1>1, <1>3
  <2>3. {StoredOp(m)' : m \in 1..(n - 1)} = {StoredOp(m) : m \in 1..(n - 1)}
    BY <2>2
  <2>4. Ready(StoredOp(n)', InsertedBy({StoredOp(m)' : m \in 1..(n - 1)}))
    BY <1>6, <2>1 DEF ChannelReady
  <2>5. QED
    BY <1>1, <2>3, <2>4
<1>7. ToSet(channel) \subseteq ToSet(channel')
  BY DEF ChannelGrows, ToSet
<1>8. QED
  BY <1>1, <1>5, <1>6, <1>7 DEF ChannelReady

\* A broadcast on its way is of a stored operation.
LEMMA AwaitedIsStored ==
    ASSUME TypeOK, NEW c \in Clients, conn[c] # 0, NEW a \in Nat,
           NEW j \in Awaited(connections[conn[c]].out, a)
    PROVE  /\ connections[conn[c]].out[j].serverSeq \in DOMAIN log
           /\ OpAt(connections[conn[c]].out, log, j) \in Accepted
<1> DEFINE out == connections[conn[c]].out
<1>1. out \in Seq(ServerMessage)
  BY ConnParts, ConnectionParts
<1>2. j \in 1..Len(out) /\ out[j].type = "BROADCAST"
  <2>1. Len(out) \in Nat
    BY <1>1
  <2>2. QED
    BY <2>1 DEF Awaited
<1>3. out[j] \in ServerMessage
  BY <1>1, <1>2
<1> HIDE DEF out
<1>4. out[j].serverSeq \in DOMAIN log
  BY <1>2, <1>3 DEF ServerMessage, Close
<1>5. QED
  BY <1>4 DEF OpAt, Accepted, out

\* Nothing that a client follows changes, but that more is accepted or sent.
LEMMA FollowingMore ==
    ASSUME TypeOK, NEW c \in Clients, conn[c] # 0, NEW a \in Nat, Following(c, a),
           conn'[c] = conn[c], connections'[conn[c]].out = connections[conn[c]].out,
           doc'[c] = doc[c], joined'[c] = joined[c], Shared(c) \subseteq Shared(c)',
           \A i \in DOMAIN log : log'[i] = log[i], FannedOps' = FannedOps
    PROVE  Following(c, a)'
<1> DEFINE out == connections[conn[c]].out
<1>1. a \in 0..Len(out) /\ AckAt(out, a)
  BY DEF Following
<1>2. \A b \in Nat : \A j \in Awaited(out, b) : OpAt(out, log', j) = OpAt(out, log, j)
  BY AwaitedIsStored DEF OpAt
<1>3. CASE a = 0
  <2>1. joined[c] /\ Follows(doc[c], out, 0, Shared(c), log, FannedOps)
    BY <1>3 DEF Following
  <2>2. Follows(doc[c], out, 0, Shared(c)', log', FannedOps)
    BY <1>2, <2>1, FollowsMore
  <2>3. QED
    BY <1>1, <1>3, <2>1, <2>2 DEF Following
<1>4. CASE a # 0
  <2>1. out[a].from = 0 /\ out[a].to = 0 /\ Follows(out[a].nodes, out, a, Shared(c), log, FannedOps)
    BY <1>4 DEF Following
  <2>2. Follows(out[a].nodes, out, a, Shared(c)', log', FannedOps)
    BY <1>2, <2>1, FollowsMore
  <2>3. QED
    BY <1>1, <1>4, <2>1, <2>2 DEF Following
<1>5. QED
  BY <1>3, <1>4

----------------------------------------------------------------------------
(* Steps of the server and what they accept. *)

\* What is stored in a step was in a handler's hand.
StoresHands ==
    \A i \in DOMAIN log' :
        \/ i \in DOMAIN log
        \/ \E k \in DOMAIN connections : Storing(k) /\ log'[i] = connections[k].hand.msg

\* The server issues nothing, and lets go of nothing it accepted.
LEMMA ServerIssues ==
    ASSUME TypeOK, IssuedOnce, ServerStep, StoresHands
    PROVE  /\ Issued' \subseteq Issued /\ IssuedOnce'
           /\ ~failed' => Accepted \subseteq Accepted'
<1>1. /\ UNCHANGED clientVars /\ DOMAIN connections' = DOMAIN connections
      /\ \A i \in DOMAIN log : i \in DOMAIN log' /\ log'[i] = log[i]
      /\ \A k \in DOMAIN connections : Served(k)
  BY DEF ServerStep
<1>2. queue' = queue /\ typed' = typed
  BY <1>1 DEF clientVars
<1>3. \A k \in DOMAIN connections :
         /\ ToSet(connections'[k].inbox) \subseteq ToSet(connections[k].inbox)
         /\ connections'[k].hand.stage # "idle" =>
               \/ connections[k].hand.stage # "idle" /\ connections'[k].hand.msg = connections[k].hand.msg
               \/ connections'[k].hand.msg \in ToSet(connections[k].inbox)
         /\ ~failed' /\ Storing(k) =>
               \/ connections'[k].hand = connections[k].hand
               \/ \E i \in DOMAIN log' : log'[i].nonce = connections[k].hand.msg.nonce
  BY <1>1 DEF Served, Storing
<1>4. ASSUME NEW msg \in Issued' PROVE msg \in Issued
  <2>1. CASE \E i \in DOMAIN log' : msg = log'[i]
    <3>1. PICK i \in DOMAIN log' : msg = log'[i]
      BY <2>1
    <3>2. CASE i \in DOMAIN log
      BY <1>1, <3>1, <3>2, IssuedIs
    <3>3. CASE \E k \in DOMAIN connections : Storing(k) /\ log'[i] = connections[k].hand.msg
      BY <3>1, <3>3, IssuedIs DEF Storing
    <3>4. QED
      BY <3>2, <3>3 DEF StoresHands
  <2>2. CASE \E k \in DOMAIN connections' : connections'[k].hand.stage # "idle" /\ msg = connections'[k].hand.msg
    BY <1>1, <1>3, <2>2, IssuedIs
  <2>3. CASE \E k \in DOMAIN connections' : msg \in ToSet(connections'[k].inbox)
    BY <1>1, <1>3, <2>3, IssuedIs
  <2>4. CASE \E c \in Clients : msg \in ToSet(queue'[c])
    BY <1>2, <2>4, IssuedIs
  <2>5. \/ \E i \in DOMAIN log' : msg = log'[i]
        \/ \E k \in DOMAIN connections' : connections'[k].hand.stage # "idle" /\ msg = connections'[k].hand.msg
        \/ \E k \in DOMAIN connections' : msg \in ToSet(connections'[k].inbox)
        \/ \E c \in Clients : msg \in ToSet(queue'[c])
    <3>1. msg \in InRows' => \E i \in DOMAIN log' : msg = log'[i]
      BY DEF InRows
    <3>2. msg \in InHands' =>
             \E k \in DOMAIN connections' : connections'[k].hand.stage # "idle" /\ msg = connections'[k].hand.msg
      BY DEF InHands
    <3>3. msg \in InInboxes' => \E k \in DOMAIN connections' : msg \in ToSet(connections'[k].inbox)
      BY DEF InInboxes
    <3>4. msg \in InQueues' => \E c \in Clients : msg \in ToSet(queue'[c])
      BY DEF InQueues
    <3>5. QED
      BY <3>1, <3>2, <3>3, <3>4 DEF Issued
  <2>6. QED
    BY <2>1, <2>2, <2>3, <2>4, <2>5
<1>5. Issued' \subseteq Issued
  BY <1>4
<1>6. IssuedOnce'
  BY <1>2, <1>5, IssuedLess
<1>7. ASSUME ~failed', NEW op \in Accepted PROVE op \in Accepted'
  <2>1. CASE \E i \in DOMAIN log : op = log[i].op
    BY <1>1, <2>1 DEF Accepted
  <2>2. CASE \E k \in DOMAIN connections : Storing(k) /\ op = connections[k].hand.msg.op
    <3>1. PICK k \in DOMAIN connections : Storing(k) /\ op = connections[k].hand.msg.op
      BY <2>2
    <3>2. CASE connections'[k].hand = connections[k].hand
      <4>1. Storing(k)' /\ op = connections'[k].hand.msg.op /\ k \in DOMAIN connections'
        BY <1>1, <3>1, <3>2 DEF Storing
      <4>2. QED
        BY <4>1 DEF Accepted
    <3>3. CASE \E i \in DOMAIN log' : log'[i].nonce = connections[k].hand.msg.nonce
      <4>1. PICK i \in DOMAIN log' : log'[i].nonce = connections[k].hand.msg.nonce
        BY <3>3
      <4>2. log'[i] \in Issued /\ connections[k].hand.msg \in Issued
        <5>1. connections[k].hand.msg \in Issued
          BY <3>1, IssuedIs DEF Storing
        <5>2. log'[i] \in Issued'
          BY DEF Issued, InRows
        <5>3. QED
          BY <1>5, <5>1, <5>2
      <4>3. log'[i].op = op
        BY <3>1, <4>1, <4>2 DEF IssuedOnce
      <4>4. QED
        BY <4>3 DEF Accepted
    <3>4. QED
      BY <1>3, <1>7, <3>1, <3>2, <3>3
  <2>3. QED
    BY <2>1, <2>2, AcceptedIs
<1>8. QED
  BY <1>5, <1>6, <1>7

\* Where no handler takes an operation up, nothing is accepted.
LEMMA ServerAccepts ==
    ASSUME ServerStep, StoresHands,
           \A k \in DOMAIN connections : Storing(k)' => connections'[k].hand = connections[k].hand
    PROVE  Accepted' \subseteq Accepted
<1>1. /\ DOMAIN connections' = DOMAIN connections
      /\ \A i \in DOMAIN log : i \in DOMAIN log' /\ log'[i] = log[i]
  BY DEF ServerStep
<1>2. ASSUME NEW op \in Accepted' PROVE op \in Accepted
  <2>1. CASE \E i \in DOMAIN log' : op = log'[i].op
    BY <1>1, <2>1, AcceptedIs DEF StoresHands
  <2>2. CASE \E k \in DOMAIN connections' : Storing(k)' /\ op = connections'[k].hand.msg.op
    BY <1>1, <2>2, AcceptedIs DEF Storing
  <2>3. QED
    BY <2>1, <2>2 DEF Accepted
<1>3. QED
  BY <1>2

----------------------------------------------------------------------------
(* Steps of the server and who follows. *)

\* The server sends the client nothing, and accepted what it took from it.
Untold(k) ==
    LET x == connections[k]
        y == connections'[k]
    IN ~failed' /\ y.whole /\ y.socket = "open" =>
           /\ x.whole /\ y.out = x.out
           /\ \A msg \in ToSet(x.inbox) \ ToSet(y.inbox) : msg.op \in Accepted'

\* Who follows and is not sent anything follows.
LEMMA UntoldFollows ==
    ASSUME TypeOK, ServerStep, ChannelGrows, gap => gap', fanned' = fanned,
           ~failed' => Accepted \subseteq Accepted',
           NEW c \in Clients, JoinerFollows(c), conn[c] # 0 => Untold(conn[c])
    PROVE  JoinerFollows(c)'
<1> SUFFICES ASSUME GotWhole(c)', ~gap', ~failed', ChannelReady'
             PROVE  \E a \in Nat : Following(c, a)'
  BY DEF JoinerFollows
<1> DEFINE k == conn[c]
<1>1. conn' = conn /\ doc' = doc /\ joined' = joined
  BY DEF ServerStep, clientVars, pageVars
<1>2. k # 0 /\ connections'[k].whole /\ connections'[k].socket = "open"
  BY <1>1 DEF GotWhole
<1>3. k \in DOMAIN connections
  BY <1>2, ConnParts
<1>4. /\ connections[k].whole /\ connections'[k].out = connections[k].out
      /\ \A msg \in ToSet(connections[k].inbox) \ ToSet(connections'[k].inbox) : msg.op \in Accepted'
  BY <1>2 DEF Untold
<1>5. connections[k].socket = "open"
  BY <1>2, <1>3 DEF ServerStep, Served
<1>6. ~gap /\ ~failed /\ ChannelReady
  BY PublishedStays DEF ServerStep
<1>7. PICK a \in Nat : Following(c, a)
  BY <1>2, <1>4, <1>5, <1>6 DEF JoinerFollows, GotWhole
<1>8. Shared(c) \subseteq Shared(c)'
  <2>1. Accepted \subseteq Accepted'
    OBVIOUS
  <2>2. \A msg \in ToSet(connections[k].inbox) :
           msg \in ToSet(connections'[k].inbox) \/ msg.op \in Accepted'
    BY <1>4
  <2>3. QED
    BY <1>1, <2>1, <2>2 DEF Shared, OpsOf
<1>9. FannedOps' = FannedOps /\ \A i \in DOMAIN log : log'[i] = log[i]
  BY PublishedStays DEF ChannelGrows
<1>10. Following(c, a)'
  BY <1>1, <1>2, <1>4, <1>7, <1>8, <1>9, FollowingMore
<1>11. QED
  BY <1>10

\* A step that changes one connection on the server's end, and may store what
\* is in its hand and publish what it had stored.
LEMMA OneServedJoin ==
    ASSUME TypeOK, JoinInv, ServerStep, UNCHANGED <<memory, gap, fanned>>, ChannelGrows, StoresHands,
           NEW k \in DOMAIN connections, NEW r, connections' = [connections EXCEPT ![k] = r],
           r.hand.stage = "append" => r.hand = connections[k].hand,
           ~failed' => /\ connections[k].hand.stage = "publish" =>
                             r.hand = connections[k].hand \/ connections[k].hand.seq \in ToSet(channel')
                       /\ \A i \in DOMAIN log' :
                             i \in DOMAIN log \/ (r.hand.stage = "publish" /\ r.hand.seq = i),
           AckLast(r),
           \A c \in Clients : conn[c] = k => Untold(k) \/ JoinerFollows(c)'
    PROVE  JoinInv'
<1>1. /\ DOMAIN connections' = DOMAIN connections /\ connections'[k] = r
      /\ \A l \in DOMAIN connections : l # k => connections'[l] = connections[l]
  OBVIOUS
<1>2. /\ UNCHANGED clientVars
      /\ failed => failed'
      /\ \A i \in DOMAIN log : i \in DOMAIN log' /\ log'[i] = log[i]
  BY DEF ServerStep
<1>3. ~failed' => Accepted \subseteq Accepted'
  BY ServerIssues DEF JoinInv
<1>4. IssuedOnce'
  BY ServerIssues DEF JoinInv
<1>5. Accepted' \subseteq Accepted
  <2>1. \A l \in DOMAIN connections : Storing(l)' => connections'[l].hand = connections[l].hand
    BY <1>1 DEF Storing
  <2>2. QED
    BY <2>1, ServerAccepts
<1>6. ~failed' => Accepted' = Accepted
  BY <1>3, <1>4, <1>5
<1>7. StoredIsPublished'
  <2> SUFFICES ASSUME ~failed', NEW i \in DOMAIN log'
               PROVE  i \in ToSet(channel') \/ \E l \in DOMAIN connections' :
                          connections'[l].hand.stage = "publish" /\ connections'[l].hand.seq = i
    BY DEF StoredIsPublished
  <2>1. CASE i \in DOMAIN log
    <3>0. ~failed /\ StoredIsPublished
      BY <1>2 DEF JoinInv
    <3>1. i \in ToSet(channel) \/ \E l \in DOMAIN connections :
              connections[l].hand.stage = "publish" /\ connections[l].hand.seq = i
      BY <2>1, <3>0 DEF StoredIsPublished
    <3>2. ToSet(channel) \subseteq ToSet(channel')
      BY PublishedStays
    <3>3. ASSUME NEW l \in DOMAIN connections, connections[l].hand.stage = "publish",
                 connections[l].hand.seq = i
          PROVE  connections'[l].hand = connections[l].hand \/ i \in ToSet(channel')
      BY <1>1, <3>3
    <3>4. QED
      BY <1>1, <3>1, <3>2, <3>3
  <2>2. CASE i \notin DOMAIN log
    BY <1>1, <2>2
  <2>3. QED
    BY <2>1, <2>2
<1>8. MemoryShows'
  <2> SUFFICES ASSUME ~gap', ~failed'
               PROVE  Built(memory', Accepted') /\ \A op \in Accepted' : Shows(memory', op)
    BY DEF MemoryShows
  <2>1. ~gap /\ ~failed /\ MemoryShows /\ memory' = memory
    BY <1>2 DEF JoinInv
  <2>2. Built(memory, Accepted) /\ \A op \in Accepted : Shows(memory, op)
    BY <2>1 DEF MemoryShows
  <2>3. QED
    BY <1>6, <2>1, <2>2
<1>9. AckComesLast'
  BY <1>1 DEF JoinInv, AckComesLast
<1>10. ASSUME NEW c \in Clients PROVE JoinerFollows(c)'
  <2>1. CASE conn[c] = k /\ JoinerFollows(c)'
    BY <2>1
  <2>2. CASE conn[c] # 0 => Untold(conn[c])
    BY <1>3, <1>4, <2>2, UntoldFollows DEF JoinInv
  <2>3. CASE conn[c] # 0 /\ conn[c] # k
    <3>1. conn[c] \in DOMAIN connections
      BY <2>3, ConnParts
    <3>2. Untold(conn[c])
      BY <1>1, <2>3, <3>1 DEF Untold
    <3>3. QED
      BY <2>2, <3>2
  <2>4. QED
    BY <2>1, <2>2, <2>3
<1>11. QED
  BY <1>4, <1>7, <1>8, <1>9, <1>10 DEF JoinInv

\* The table and the channel stay.
LEMMA TablesStay ==
    ASSUME log' = log, channel' = channel
    PROVE  ChannelGrows /\ StoresHands
BY DEF ChannelGrows, StoresHands

\* The same for a step that leaves table, channel and hands alone.
LEMMA OneLeftJoin ==
    ASSUME TypeOK, JoinInv, ServerStep, UNCHANGED <<memory, gap, fanned, log, channel>>,
           NEW k \in DOMAIN connections, NEW r, connections' = [connections EXCEPT ![k] = r],
           r.hand = connections[k].hand, AckLast(r),
           \A c \in Clients : conn[c] = k => Untold(k) \/ JoinerFollows(c)'
    PROVE  JoinInv'
BY TablesStay, OneServedJoin

\* JOIN_ACK has been told last, and no broadcast since.
LEMMA ToldLast ==
    ASSUME NEW M, NEW out \in Seq(M), NEW m \in M, m.type = "JOIN_ACK",
           \A msg \in ToSet(out) : msg.type # "JOIN_ACK"
    PROVE  LET more == Append(out, m)
               a == Len(out) + 1
           IN /\ a \in Nat /\ a # 0 /\ a \in 0..Len(more) /\ AckAt(more, a)
              /\ more[a] = m /\ Awaited(more, a) = {}
<1> DEFINE more == Append(out, m)
           a == Len(out) + 1
<1>1. /\ Len(more) = a /\ Len(out) \in Nat /\ more[a] = m
      /\ \A j \in 1..Len(out) : more[j] = out[j]
  OBVIOUS
<1>2. \A j \in 1..Len(out) : out[j].type # "JOIN_ACK"
  BY DEF ToSet
<1> HIDE DEF more
<1>3. AckAt(more, a)
  BY <1>1, <1>2 DEF AckAt
<1>4. Awaited(more, a) = {}
  BY <1>1 DEF Awaited
<1>5. QED
  BY <1>1, <1>3, <1>4 DEF more

\* The document in memory shows all that was fanned out.
LEMMA MemoryFollows ==
    ASSUME TypeOK, JoinInv, ~gap, ~failed, NEW out, NEW a, Awaited(out, a) = {},
           NEW ops, Accepted \subseteq ops
    PROVE  Follows(memory, out, a, ops, log, FannedOps)
<1>1. Built(memory, Accepted) /\ \A op \in Accepted : Shows(memory, op)
  BY DEF JoinInv, MemoryShows
<1>2. FannedOps \subseteq Accepted
  BY ChannelIsStored
<1>3. Built(memory, ops)
  BY <1>1, BuiltMore
<1>4. QED
  BY <1>1, <1>2, <1>3 DEF Follows

\* Reading, registering and refusing tell a joiner nothing that it follows.
LEMMA JoiningKeepsJoin ==
    ASSUME TypeOK, SyncInv, JoinInv, NEW k \in DOMAIN connections,
           ReadMissed(k) \/ Register(k) \/ RejectEarly(k)
    PROVE  JoinInv'
<1> DEFINE x == connections[k]
<1>1. x \in Connection
  BY DEF TypeOK
<1>2. UNCHANGED <<memory, gap, fanned, log, channel>> /\ ServerStep
  BY JoiningServes DEF Joining, ReadMissed, Register, RejectEarly, serverVars, storeVars
<1>3. x.stage # "live"
  BY DEF ReadMissed, Register, RejectEarly, Registered
<1>4. ~x.whole /\ \A msg \in ToSet(x.out) : msg.type # "JOIN_ACK"
  BY <1>3 DEF JoinInv, AckComesLast, AckLast
<1>5. ASSUME NEW r, connections' = [connections EXCEPT ![k] = r], r.hand = x.hand, ~r.whole,
             \A msg \in ToSet(r.out) : msg.type # "JOIN_ACK"
      PROVE  JoinInv'
  <2>1. AckLast(r)
    BY <1>5 DEF AckLast
  <2>2. connections'[k] = r
    BY <1>5
  <2>3. Untold(k)
    BY <1>5, <2>2 DEF Untold
  <2>4. QED
    BY <1>2, <1>5, <2>1, <2>3, OneLeftJoin
<1>6. CASE ReadMissed(k)
  <2> DEFINE r == [x EXCEPT !.stage = "missed", !.upto = Len(log)]
  <2>1. r.hand = x.hand /\ r.whole = x.whole /\ r.out = x.out
    BY <1>1, ConnectionParts
  <2>2. connections' = [connections EXCEPT ![k] = r]
    BY <1>6 DEF ReadMissed
  <2> HIDE DEF r
  <2>3. QED
    BY <1>4, <1>5, <2>1, <2>2
<1>7. CASE Register(k)
  <2> DEFINE r == [x EXCEPT !.stage = "registered"]
  <2>1. r.hand = x.hand /\ r.whole = x.whole /\ r.out = x.out
    BY <1>1, ConnectionParts
  <2>2. connections' = [connections EXCEPT ![k] = r]
    BY <1>7 DEF Register
  <2> HIDE DEF r
  <2>3. QED
    BY <1>4, <1>5, <2>1, <2>2
<1>8. CASE RejectEarly(k)
  <2> DEFINE told == Told(x, Close)
             r == [told EXCEPT !.inbox = Tail(@), !.socket = "closing"]
  <2>1. Close \in ServerMessage /\ Close.type = "CLOSE"
    BY DEF ServerMessage, Close
  <2>2. told \in Connection /\ ToSet(told.out) \subseteq ToSet(x.out) \cup {Close} /\ told.hand = x.hand
    BY <1>1, <2>1, ToldSets, ToldParts
  <2>3. told.whole = x.whole
    BY <1>1, ConnectionParts DEF Told
  <2>4. connections' = [connections EXCEPT ![k] = r]
    BY <1>8 DEF RejectEarly
  <2> HIDE DEF told
  <2>5. r.hand = x.hand /\ r.whole = x.whole /\ r.out = told.out
    BY <2>2, <2>3, ConnectionParts
  <2> HIDE DEF r
  <2>6. QED
    BY <1>4, <1>5, <2>1, <2>2, <2>4, <2>5
<1>9. QED
  BY <1>6, <1>7, <1>8

\* All nodes are sent: what was fanned out shows in them, and what will be
\* comes behind them.
LEMMA SendAckKeepsJoin ==
    ASSUME TypeOK, SyncInv, JoinInv, NEW k \in DOMAIN connections, SendAck(k)
    PROVE  JoinInv'
<1> DEFINE x == connections[k]
           whole == x.since = 0 \/ Oversized(Missed(x.since, x.upto))
           ack == IF whole THEN JoinAck(memory, 0, 0) ELSE JoinAck(EmptyDoc, x.since, x.upto)
           told == Told(x, ack)
           r == [told EXCEPT !.stage = "live", !.whole = whole]
<1>1. x \in Connection
  BY DEF TypeOK
<1>2. UNCHANGED <<memory, gap, fanned, log, channel, clientVars, failed>> /\ ServerStep
  BY JoiningServes DEF Joining, SendAck, serverVars, storeVars
<1>3. x.stage = "registered" /\ connections' = [connections EXCEPT ![k] = r]
  BY DEF SendAck
<1>4. ~x.whole /\ \A msg \in ToSet(x.out) : msg.type # "JOIN_ACK"
  BY <1>3 DEF JoinInv, AckComesLast, AckLast
<1>5. whole \in BOOLEAN
  OBVIOUS
<1> HIDE DEF whole
<1>6. ack \in ServerMessage /\ ack.type = "JOIN_ACK"
  <2>1. memory \in Document /\ EmptyDoc \in Document /\ 0 \in 0..Len(log)
    BY DEF TypeOK, EmptyDoc, Document
  <2>2. QED
    BY <1>1, <2>1, ConnectionParts DEF JoinAck, ServerMessage
<1>7. whole => ack.nodes = memory /\ ack.from = 0 /\ ack.to = 0
  BY DEF JoinAck
<1> HIDE DEF ack
<1>8. /\ told \in Connection /\ told.hand = x.hand /\ told.socket = x.socket /\ told.inbox = x.inbox
      /\ x.socket = "open" => told.out = Append(x.out, ack)
  BY <1>1, <1>6, ToldParts, ToldSets, ConnectionParts
<1> HIDE DEF told
<1>9. /\ r.hand = x.hand /\ r.stage = "live" /\ r.whole = whole /\ r.socket = x.socket
      /\ r.out = told.out /\ r.inbox = x.inbox
  BY <1>8, ConnectionParts
<1> HIDE DEF r
<1>10. AckLast(r)
  BY <1>9 DEF AckLast
<1>11. connections'[k] = r
  BY <1>3
<1>12. ASSUME NEW c \in Clients, conn[c] = k PROVE JoinerFollows(c)'
  <2> SUFFICES ASSUME GotWhole(c)', ~gap', ~failed' PROVE \E a \in Nat : Following(c, a)'
    BY DEF JoinerFollows
  <2> DEFINE more == Append(x.out, ack)
  <2>1. conn'[c] = k /\ whole /\ x.socket = "open"
    BY <1>2, <1>9, <1>11, <1>12 DEF GotWhole, clientVars
  <2>2. r.out = more
    BY <1>8, <1>9, <2>1
  <2>3. PICK a \in Nat : /\ a # 0 /\ a \in 0..Len(more) /\ AckAt(more, a)
                          /\ more[a] = ack /\ Awaited(more, a) = {}
    BY SMTT(60), <1>1, <1>4, <1>6, ConnectionParts, ToldLast
  <2> HIDE DEF more
  <2>4. Accepted \subseteq Shared(c)'
    <3>1. Accepted \subseteq Accepted'
      BY <1>2, TablesStay, ServerIssues DEF JoinInv
    <3>2. QED
      BY <3>1 DEF Shared
  <2>5. FannedOps' = FannedOps
    BY <1>2 DEF FannedOps, StoredOp
  <2>6. Follows(memory, more, a, Shared(c)', log, FannedOps)
    BY <1>2, <2>3, <2>4, MemoryFollows
  <2>7. Following(c, a)'
    BY <1>2, <1>7, <1>11, <2>1, <2>2, <2>3, <2>5, <2>6 DEF Following
  <2>8. QED
    BY <2>3, <2>7
<1>13. QED
  BY <1>2, <1>3, <1>9, <1>10, <1>12, OneLeftJoin

\* Who got past the guard with the same nonce was accepted with the same
\* operation.
LEMMA StandingIsAccepted ==
    ASSUME IssuedOnce, NEW msg \in Issued, Stands(msg.nonce)
    PROVE  msg.op \in Accepted
<1>1. CASE \E i \in DOMAIN log : log[i].nonce = msg.nonce
  <2>1. PICK i \in DOMAIN log : log[i].nonce = msg.nonce
    BY <1>1
  <2>2. log[i] \in Issued
    BY IssuedIs
  <2>3. QED
    BY <2>1, <2>2, AcceptedIs DEF IssuedOnce
<1>2. CASE \E k \in DOMAIN connections : Storing(k) /\ NonceInHand(k) = msg.nonce
  <2>1. PICK k \in DOMAIN connections : Storing(k) /\ NonceInHand(k) = msg.nonce
    BY <1>2
  <2>2. connections[k].hand.msg \in Issued /\ connections[k].hand.msg.nonce = msg.nonce
    BY <2>1, IssuedIs DEF Storing, NonceInHand
  <2>3. QED
    BY <2>1, <2>2, AcceptedIs DEF IssuedOnce
<1>3. QED
  BY <1>1, <1>2 DEF Stands, HasStored

\* What is taken up is accepted, and shows in memory unless there is a gap.
LEMMA TakeKeepsJoin ==
    ASSUME TypeOK, SyncInv, JoinInv, NEW k \in DOMAIN connections, Take(k)
    PROVE  JoinInv'
<1> DEFINE x == connections[k]
           msg == Head(x.inbox)
           hand == [Idle EXCEPT !.stage = "append", !.msg = msg]
           r == [x EXCEPT !.inbox = Tail(@), !.hand = hand]
<1>1. x.inbox # << >> /\ x.hand.stage = "idle"
  BY DEF Take, Waiting
<1>2. /\ x \in Connection /\ msg \in ToSet(x.inbox) /\ msg \in Message
      /\ ToSet(x.inbox) = {msg} \cup ToSet(Tail(x.inbox))
  BY <1>1, InboxParts
<1>3. hand.stage = "append" /\ hand.msg = msg
  BY DEF Idle
<1>4. /\ connections' = [connections EXCEPT ![k] = r]
      /\ UNCHANGED <<clientVars, log, channel, fanned, failed>>
      /\ memory' = Apply(memory, msg.op) /\ gap' = (gap \/ ~Applicable(memory, msg.op))
  BY DEF Take, Accept, storeVars
<1>5. ServerStep
  BY TakeServes
<1> HIDE DEF msg, hand
<1>6. /\ r.whole = x.whole /\ r.socket = x.socket /\ r.stage = x.stage /\ r.out = x.out
      /\ r.inbox = Tail(x.inbox) /\ r.hand = hand
  BY <1>2, ConnectionParts
<1> HIDE DEF r
<1>7. /\ connections'[k] = r /\ DOMAIN connections' = DOMAIN connections
      /\ \A l \in DOMAIN connections : l # k => connections'[l] = connections[l]
  BY <1>4
<1>8. IssuedOnce'
  BY <1>4, <1>5, TablesStay, ServerIssues DEF JoinInv
<1>9. ~failed' => Accepted \subseteq Accepted'
  BY <1>4, <1>5, TablesStay, ServerIssues DEF JoinInv
<1>10. msg.op \in Accepted'
  <2>1. Storing(k)' /\ connections'[k].hand.msg = msg
    BY <1>3, <1>6, <1>7 DEF Storing
  <2>2. QED
    BY <1>7, <2>1 DEF Accepted
<1>11. Accepted' \subseteq Accepted \cup {msg.op}
  <2>1. ASSUME NEW op \in Accepted' PROVE op \in Accepted \cup {msg.op}
    <3>1. CASE \E i \in DOMAIN log' : op = log'[i].op
      BY <1>4, <3>1, AcceptedIs
    <3>2. CASE \E l \in DOMAIN connections' : Storing(l)' /\ op = connections'[l].hand.msg.op
      BY <1>3, <1>6, <1>7, <3>2, AcceptedIs DEF Storing
    <3>3. QED
      BY <3>1, <3>2 DEF Accepted
  <2>2. QED
    BY <2>1
<1>12. StoredIsPublished'
  <2> SUFFICES ASSUME ~failed, NEW i \in DOMAIN log
               PROVE  i \in ToSet(channel) \/ \E l \in DOMAIN connections :
                          connections'[l].hand.stage = "publish" /\ connections'[l].hand.seq = i
    BY <1>4, <1>7 DEF StoredIsPublished
  <2>1. i \in ToSet(channel) \/ \E l \in DOMAIN connections :
            connections[l].hand.stage = "publish" /\ connections[l].hand.seq = i
    BY DEF JoinInv, StoredIsPublished
  <2>2. QED
    BY <1>1, <1>7, <2>1
<1>13. MemoryShows'
  <2> SUFFICES ASSUME ~gap', ~failed'
               PROVE  Built(memory', Accepted') /\ \A op \in Accepted' : Shows(memory', op)
    BY DEF MemoryShows
  <2>1. ~gap /\ ~failed /\ Applicable(memory, msg.op)
    BY <1>4
  <2>2. Built(memory, Accepted) /\ \A op \in Accepted : Shows(memory, op)
    BY <2>1 DEF JoinInv, MemoryShows
  <2>3. Accepted' \in SUBSET Operation
    <3>1. TypeOK'
      BY TakeTyped
    <3>2. Accepted \in SUBSET Operation /\ msg.op \in Operation
      BY <1>2, AcceptedTypes, MessageParts DEF JoinInv
    <3>3. QED
      BY <1>11, <3>2
  <2>4. Built(memory, Accepted')
    BY <1>9, <2>2, BuiltMore
  <2>5. Built(memory', Accepted')
    BY <1>4, <1>10, <2>3, <2>4, BuiltApply
  <2>6. memory \in Document /\ msg.op \in Operation
    BY <1>10, <2>3 DEF TypeOK
  <2>7. Shows(memory', msg.op) /\ \A op : Shows(memory, op) => Shows(memory', op)
    BY <1>4, <2>1, <2>6, ReadyIs, AppliedShows
  <2>8. QED
    BY <1>11, <2>2, <2>5, <2>7
<1>14. AckComesLast'
  <2>1. AckLast(r)
    BY <1>6 DEF JoinInv, AckComesLast, AckLast
  <2>2. QED
    BY <1>7, <2>1 DEF JoinInv, AckComesLast
<1>15. \A l \in DOMAIN connections : Untold(l)
  BY <1>2, <1>6, <1>7, <1>10 DEF Untold
<1>16. ASSUME NEW c \in Clients PROVE JoinerFollows(c)'
  <2>1. conn[c] # 0 => Untold(conn[c])
    BY <1>15, ConnParts
  <2>2. gap => gap'
    BY <1>4
  <2>3. QED
    BY <1>4, <1>5, <1>9, <2>1, <2>2, TablesStay, UntoldFollows DEF JoinInv
<1>17. QED
  BY <1>8, <1>12, <1>13, <1>14, <1>16 DEF JoinInv

\* A replay was accepted before; other refusals are failures.
LEMMA RefusingKeepsJoin ==
    ASSUME TypeOK, SyncInv, JoinInv, NEW k \in DOMAIN connections, RefuseReplay(k) \/ Refuse(k)
    PROVE  JoinInv'
<1> DEFINE x == connections[k]
           msg == Head(x.inbox)
           r == [x EXCEPT !.inbox = Tail(@)]
<1>1. x.inbox # << >> /\ connections' = [connections EXCEPT ![k] = r]
  BY DEF RefuseReplay, Refuse, Waiting, Discard
<1>2. /\ x \in Connection /\ msg \in ToSet(x.inbox)
      /\ ToSet(x.inbox) = {msg} \cup ToSet(Tail(x.inbox))
  BY <1>1, InboxParts
<1>3. UNCHANGED <<memory, gap, fanned, log, channel>> /\ ServerStep
  BY HandleServes DEF RefuseReplay, Refuse, serverVars, storeVars
<1>4. failed' \/ (msg.nonce \in nonces /\ failed' = failed)
  BY DEF RefuseReplay, Refuse, serverVars
<1> HIDE DEF msg
<1>5. /\ r.whole = x.whole /\ r.socket = x.socket /\ r.stage = x.stage /\ r.out = x.out
      /\ r.inbox = Tail(x.inbox) /\ r.hand = x.hand
  BY <1>2, ConnectionParts
<1> HIDE DEF r
<1>6. AckLast(r)
  BY <1>5 DEF JoinInv, AckComesLast, AckLast
<1>7. ~failed' => msg.op \in Accepted'
  <2> SUFFICES ASSUME ~failed' PROVE msg.op \in Accepted'
    OBVIOUS
  <2>1. Stands(msg.nonce)
    BY <1>4 DEF SyncInv, NothingForgotten
  <2>2. msg \in Issued
    BY <1>2, IssuedIs
  <2>3. msg.op \in Accepted
    BY <2>1, <2>2, StandingIsAccepted DEF JoinInv
  <2>4. Accepted \subseteq Accepted'
    BY <1>3, TablesStay, ServerIssues DEF JoinInv
  <2>5. QED
    BY <2>3, <2>4
<1>8. connections'[k] = r
  BY <1>1
<1>9. Untold(k)
  BY <1>2, <1>5, <1>7, <1>8 DEF Untold
<1>10. QED
  BY <1>1, <1>3, <1>5, <1>6, <1>9, OneLeftJoin

\* A handler that fails lets go of what it accepted, which is recorded.
LEMMA FailingKeepsJoin ==
    ASSUME TypeOK, SyncInv, JoinInv, NEW k \in DOMAIN connections, HandlerFails(k)
    PROVE  JoinInv'
<1> DEFINE x == connections[k]
           r == [x EXCEPT !.hand = Idle]
<1>1. x \in Connection /\ connections' = [connections EXCEPT ![k] = r]
  BY DEF TypeOK, HandlerFails
<1>2. UNCHANGED <<memory, gap, fanned, log>> /\ failed' /\ ServerStep
  BY HandleServes DEF HandlerFails
<1>3. channel' = channel \/ channel' = Append(channel, x.hand.seq)
  BY DEF HandlerFails
<1>4. ChannelGrows /\ StoresHands
  <2>1. channel \in Seq(DOMAIN log)
    BY DEF TypeOK
  <2>2. QED
    BY <1>2, <1>3, <2>1 DEF ChannelGrows, StoresHands
<1>5. r.whole = x.whole /\ r.stage = x.stage /\ r.out = x.out /\ r.hand.stage # "append"
  BY <1>1, ConnectionParts DEF Idle
<1> HIDE DEF r
<1>6. AckLast(r)
  BY <1>5 DEF JoinInv, AckComesLast, AckLast
<1>7. Untold(k)
  BY <1>2 DEF Untold
<1>8. QED
  BY <1>1, <1>2, <1>4, <1>5, <1>6, <1>7, OneServedJoin

\* What was accepted is stored, and will be published.
LEMMA PersistKeepsJoin ==
    ASSUME TypeOK, SyncInv, JoinInv, NEW k \in DOMAIN connections, Persist(k)
    PROVE  JoinInv'
<1> DEFINE x == connections[k]
           hand == [x.hand EXCEPT !.stage = "publish", !.seq = Len(log) + 1]
           r == [x EXCEPT !.hand = hand]
<1>1. x \in Connection /\ x.hand \in Hand /\ x.hand.stage = "append"
  BY ConnectionParts DEF TypeOK, Persist
<1>2. /\ Len(log) + 1 \in DOMAIN log' /\ log'[Len(log) + 1] = x.hand.msg
      /\ \A i \in DOMAIN log : i \in DOMAIN log' /\ log'[i] = log[i]
      /\ \A i \in DOMAIN log' : i \in DOMAIN log \/ i = Len(log) + 1
  BY PersistTyped
<1>3. hand.stage = "publish" /\ hand.seq = Len(log) + 1
  BY <1>1, HandParts
<1>4. connections' = [connections EXCEPT ![k] = r] /\ UNCHANGED <<memory, gap, fanned, channel>>
  BY ZenonT(60), <1>1, ConnectionParts DEF Persist
<1>5. ServerStep
  BY PersistServes
<1> HIDE DEF hand
<1>6. /\ r.whole = x.whole /\ r.stage = x.stage /\ r.out = x.out /\ r.hand = hand
      /\ r.inbox = x.inbox
  BY <1>1, ConnectionParts
<1> HIDE DEF r
<1>7. ChannelGrows /\ StoresHands
  BY <1>1, <1>2, <1>4 DEF ChannelGrows, StoresHands, Storing
<1>8. AckLast(r)
  BY <1>6 DEF JoinInv, AckComesLast, AckLast
<1>9. connections'[k] = r
  BY <1>4
<1>10. Untold(k)
  BY <1>6, <1>9 DEF Untold
<1>11. QED
  BY <1>1, <1>2, <1>3, <1>4, <1>5, <1>6, <1>7, <1>8, <1>10, OneServedJoin

\* What was stored is published.
LEMMA PublishKeepsJoin ==
    ASSUME TypeOK, SyncInv, JoinInv, NEW k \in DOMAIN connections, Publish(k)
    PROVE  JoinInv'
<1> DEFINE x == connections[k]
           hand == [x.hand EXCEPT !.stage = "acknowledge"]
           r == [x EXCEPT !.hand = hand]
<1>1. x \in Connection /\ x.hand \in Hand /\ x.hand.stage = "publish"
  BY ConnectionParts DEF TypeOK, Publish
<1>2. hand.stage = "acknowledge" /\ x.hand.seq \in DOMAIN log
  BY <1>1, HandParts
<1>3. /\ connections' = [connections EXCEPT ![k] = r] /\ UNCHANGED <<memory, gap, fanned, log>>
      /\ channel' = Append(channel, x.hand.seq)
  BY <1>1, ConnectionParts DEF Publish
<1>4. ServerStep
  BY HandleServes
<1> HIDE DEF hand
<1>5. /\ r.whole = x.whole /\ r.stage = x.stage /\ r.out = x.out /\ r.hand = hand
      /\ r.inbox = x.inbox
  BY <1>1, ConnectionParts
<1> HIDE DEF r
<1>6. channel \in Seq(DOMAIN log)
  BY DEF TypeOK
<1>7. ChannelGrows /\ StoresHands
  BY <1>3, <1>6 DEF ChannelGrows, StoresHands
<1>8. x.hand.seq \in ToSet(channel')
  BY <1>2, <1>3, <1>6, AppendElements
<1>9. AckLast(r)
  BY <1>5 DEF JoinInv, AckComesLast, AckLast
<1>10. connections'[k] = r
  BY <1>3
<1>11. Untold(k)
  BY <1>5, <1>10 DEF Untold
<1>12. QED
  BY <1>2, <1>3, <1>4, <1>5, <1>7, <1>8, <1>9, <1>11, OneServedJoin

\* What goes to an open socket goes behind what is on its way.
LEMMA ToldOut ==
    ASSUME NEW x \in Connection, NEW m
    PROVE  /\ Told(x, m).out = IF x.socket = "open" THEN Append(x.out, m) ELSE x.out
           /\ Told(x, m).whole = x.whole
<1>1. CASE x.socket = "open"
  <2>1. Told(x, m) = [x EXCEPT !.out = Append(@, m)]
    BY <1>1 DEF Told
  <2>2. QED
    BY <1>1, <2>1, ConnectionParts
<1>2. CASE x.socket # "open"
  BY <1>2 DEF Told
<1>3. QED
  BY <1>1, <1>2

\* Who follows and is told something that is neither a broadcast nor JOIN_ACK
\* follows.
LEMMA FollowingTold ==
    ASSUME TypeOK, NEW c \in Clients, conn[c] # 0, NEW a \in Nat, Following(c, a),
           NEW m \in ServerMessage, m.type \notin {"BROADCAST", "JOIN_ACK"},
           conn'[c] = conn[c], connections'[conn[c]].out = Append(connections[conn[c]].out, m),
           doc'[c] = doc[c], joined'[c] = joined[c], Shared(c) \subseteq Shared(c)',
           log' = log, FannedOps' = FannedOps
    PROVE  Following(c, a)'
<1> DEFINE out == connections[conn[c]].out
           more == Append(out, m)
           M == ServerMessage
<1>1. a \in 0..Len(out) /\ AckAt(out, a)
  BY DEF Following
<1>2. out \in Seq(M) /\ m \in M
  BY ConnParts, ConnectionParts
<1> HIDE DEF M
<1>3. /\ Len(more) = Len(out) + 1 /\ Len(out) \in Nat /\ more[Len(out) + 1] = m
      /\ \A j \in 1..Len(out) : more[j] = out[j]
  BY <1>2
<1>4. a \in 0..Len(more) /\ AckAt(more, a)
  <2>1. m.type # "JOIN_ACK"
    OBVIOUS
  <2> HIDE DEF more
  <2>2. \A j \in 1..Len(more) : j \in 1..Len(out) \/ (j = Len(out) + 1 /\ j # a)
    BY <1>1, <1>3
  <2>3. ASSUME NEW j \in 1..Len(more) PROVE more[j].type = "JOIN_ACK" <=> j = a
    <3>1. CASE j \in 1..Len(out)
      BY <1>1, <1>3, <3>1 DEF AckAt
    <3>2. CASE j = Len(out) + 1 /\ j # a
      BY <1>3, <2>1, <3>2
    <3>3. QED
      BY <2>2, <3>1, <3>2
  <2>4. a \in 0..Len(more)
    BY <1>1, <1>3
  <2>5. QED
    BY <2>3, <2>4 DEF AckAt
<1>5. \A d : Follows(d, out, a, Shared(c), log, FannedOps) => Follows(d, more, a, Shared(c)', log, FannedOps)
  BY <1>1, <1>2, FollowsTold, FollowsMore
<1>6. CASE a = 0
  BY <1>4, <1>5, <1>6 DEF Following
<1>7. CASE a # 0
  <2>1. more[a] = out[a]
    BY <1>1, <1>3, <1>7
  <2>2. QED
    BY <1>4, <1>5, <1>7, <2>1 DEF Following
<1>8. QED
  BY <1>6, <1>7

\* sendToOriginator: an acknowledgement is nothing to follow.
LEMMA AcknowledgeKeepsJoin ==
    ASSUME TypeOK, SyncInv, JoinInv, NEW k \in DOMAIN connections, Acknowledge(k)
    PROVE  JoinInv'
<1> DEFINE x == connections[k]
           ack == OpAck(x.hand.msg.clientSeq, x.hand.seq)
           told == Told(x, ack)
           r == [told EXCEPT !.hand = Idle]
<1>1. x \in Connection /\ x.hand \in Hand /\ x.hand.stage = "acknowledge"
  BY ConnectionParts DEF TypeOK, Acknowledge
<1>2. ack \in ServerMessage /\ ack.type = "OP_ACK"
  <2>1. x.hand.seq \in DOMAIN log /\ x.hand.msg.clientSeq \in Nat
    BY <1>1, HandParts, MessageParts
  <2>2. QED
    BY <2>1 DEF OpAck, ServerMessage
<1>3. /\ connections' = [connections EXCEPT ![k] = r]
      /\ UNCHANGED <<memory, gap, fanned, log, channel, clientVars, failed>> /\ ServerStep
  BY HandleServes DEF Acknowledge, serverVars, storeVars
<1> HIDE DEF ack
<1>4. /\ told \in Connection /\ told.socket = x.socket /\ told.inbox = x.inbox /\ told.stage = x.stage
      /\ ToSet(told.out) \subseteq ToSet(x.out) \cup {ack}
      /\ told.out = IF x.socket = "open" THEN Append(x.out, ack) ELSE x.out
      /\ told.whole = x.whole
  BY <1>1, <1>2, ToldParts, ToldSets, ToldOut
<1> HIDE DEF told
<1>5. /\ r.whole = x.whole /\ r.stage = x.stage /\ r.socket = x.socket /\ r.inbox = x.inbox
      /\ r.out = told.out /\ r.hand = Idle
  BY <1>4, ConnectionParts
<1> HIDE DEF r
<1>6. connections'[k] = r
  BY <1>3
<1>7. AckLast(r)
  BY <1>2, <1>4, <1>5 DEF JoinInv, AckComesLast, AckLast
<1>8. ChannelGrows /\ StoresHands
  BY <1>3, TablesStay
<1>9. ASSUME NEW c \in Clients, conn[c] = k PROVE JoinerFollows(c)'
  <2> SUFFICES ASSUME GotWhole(c)', ~gap', ~failed', ChannelReady' PROVE \E a \in Nat : Following(c, a)'
    BY DEF JoinerFollows
  <2>1. conn'[c] = k /\ k # 0 /\ x.whole /\ x.socket = "open" /\ ~gap /\ ~failed /\ ChannelReady
    BY <1>3, <1>5, <1>6, <1>8, <1>9, PublishedStays DEF GotWhole, clientVars
  <2>2. PICK a \in Nat : Following(c, a)
    BY <1>9, <2>1 DEF JoinInv, JoinerFollows, GotWhole
  <2>3. Shared(c) \subseteq Shared(c)'
    <3>1. Accepted \subseteq Accepted'
      BY <1>3, <1>8, ServerIssues DEF JoinInv
    <3>2. QED
      BY <1>5, <1>6, <1>9, <2>1, <3>1 DEF Shared
  <2>4. FannedOps' = FannedOps
    BY <1>3, <1>8, PublishedStays
  <2>5. Following(c, a)'
    BY <1>2, <1>3, <1>4, <1>5, <1>6, <1>9, <2>1, <2>2, <2>3, <2>4, FollowingTold DEF clientVars, pageVars
  <2>6. QED
    BY <2>5
<1>10. Idle.stage = "idle"
  BY DEF Idle
<1>11. QED
  BY <1>1, <1>3, <1>5, <1>7, <1>8, <1>9, <1>10, OneServedJoin

\* Who follows and is told the next operation of the channel follows.
LEMMA FollowingFanned ==
    ASSUME TypeOK, ChannelReady, fanned < Len(channel), fanned' = fanned + 1, UNCHANGED <<log, channel>>,
           NEW c \in Clients, conn[c] # 0, NEW a \in Nat, Following(c, a),
           conn'[c] = conn[c],
           connections'[conn[c]].out = Append(connections[conn[c]].out, Broadcast(channel[fanned + 1])),
           doc'[c] = doc[c], joined'[c] = joined[c], Shared(c) \subseteq Shared(c)'
    PROVE  Following(c, a)'
<1> DEFINE out == connections[conn[c]].out
           m == Broadcast(channel[fanned + 1])
           more == Append(out, m)
           M == ServerMessage
           op == StoredOp(fanned + 1)
<1>1. a \in 0..Len(out) /\ AckAt(out, a)
  BY DEF Following
<1>2. fanned \in Nat /\ fanned + 1 \in DOMAIN channel
  BY ChannelIsStored DEF TypeOK
<1>3. m \in M /\ m.type = "BROADCAST" /\ log[m.serverSeq].op = op
  BY <1>2, ChannelIsStored DEF Broadcast, ServerMessage, StoredOp
<1>4. out \in Seq(M)
  BY ConnParts, ConnectionParts
<1> HIDE DEF M, m
<1>5. /\ Len(more) = Len(out) + 1 /\ Len(out) \in Nat /\ more[Len(out) + 1] = m
      /\ \A j \in 1..Len(out) : more[j] = out[j]
  BY <1>3, <1>4
<1>6. a \in 0..Len(more) /\ AckAt(more, a)
  <2>1. a \in 0..Len(more) /\ a # Len(out) + 1
    BY <1>1, <1>5
  <2>2. more[Len(out) + 1].type # "JOIN_ACK"
    BY <1>3, <1>5
  <2>3. \A j \in 1..Len(out) : more[j].type = "JOIN_ACK" <=> j = a
    BY <1>1, <1>5 DEF AckAt
  <2>4. \A j \in 1..Len(more) : j \in 1..Len(out) \/ j = Len(out) + 1
    <3> HIDE DEF more, out
    <3>1. QED
      BY <1>5
  <2>5. QED
    BY <2>1, <2>2, <2>3, <2>4 DEF AckAt
<1>7. Ready(op, InsertedBy(FannedOps)) /\ FannedOps' = FannedOps \cup {op}
  <2>1. (fanned + 1) - 1 = fanned /\ 1..(fanned + 1) = 1..fanned \cup {fanned + 1}
    BY <1>2
  <2>2. \A n : StoredOp(n)' = StoredOp(n)
    BY DEF StoredOp
  <2>3. FannedOps' = {StoredOp(n) : n \in 1..(fanned + 1)}
    BY <2>2 DEF FannedOps
  <2>4. FannedOps' = FannedOps \cup {op}
    BY <2>1, <2>3 DEF FannedOps
  <2>5. Ready(op, InsertedBy(FannedOps))
    BY <1>2, <2>1 DEF ChannelReady, FannedOps
  <2>6. QED
    BY <2>4, <2>5
<1> HIDE DEF op
<1>8. ASSUME NEW d, Follows(d, out, a, Shared(c), log, FannedOps)
      PROVE  Follows(d, more, a, Shared(c)', log, FannedOps')
  <2>1. Follows(d, more, a, Shared(c), log, FannedOps \cup {op})
    BY <1>1, <1>3, <1>4, <1>7, <1>8, FollowsFanned
  <2>2. QED
    BY <1>7, <2>1, FollowsMore
<1> HIDE DEF more
<1>9. connections'[conn'[c]].out = more
  BY DEF more, m
<1>10. CASE a = 0
  BY <1>6, <1>8, <1>9, <1>10 DEF Following
<1>11. CASE a # 0
  <2>1. more[a] = out[a]
    BY <1>1, <1>5, <1>11
  <2>2. QED
    BY <1>6, <1>8, <1>9, <1>11, <2>1 DEF Following
<1>12. QED
  BY <1>10, <1>11

\* The fan-out reaches every joiner that follows.
LEMMA FanOutKeepsJoin ==
    ASSUME TypeOK, SyncInv, JoinInv, FanOut
    PROVE  JoinInv'
<1> DEFINE m == Broadcast(channel[fanned + 1])
<1>1. /\ UNCHANGED <<clientVars, memory, log, channel, gap, failed>> /\ fanned' = fanned + 1
      /\ fanned < Len(channel) /\ DOMAIN connections' = DOMAIN connections
  BY FanOutTyped DEF FanOut
<1>2. m \in ServerMessage /\ m.type = "BROADCAST"
  BY FanOutTyped DEF Broadcast, ServerMessage
<1>3. \A k \in DOMAIN connections :
         connections'[k] = IF Registered(k) THEN Told(connections[k], m) ELSE connections[k]
  BY FanOutTyped
<1>4. ServerStep
  BY FanOutServes
<1> HIDE DEF m
<1>5. ASSUME NEW k \in DOMAIN connections
      PROVE  LET x == connections[k]
                 y == connections'[k]
             IN /\ y.whole = x.whole /\ y.stage = x.stage /\ y.socket = x.socket
                /\ y.inbox = x.inbox /\ y.hand = x.hand
                /\ ToSet(y.out) \subseteq ToSet(x.out) \cup {m}
                /\ y.out = IF Registered(k) /\ x.socket = "open" THEN Append(x.out, m) ELSE x.out
  <2>1. connections[k] \in Connection
    BY DEF TypeOK
  <2>2. /\ Told(connections[k], m).whole = connections[k].whole
        /\ Told(connections[k], m).out =
              IF connections[k].socket = "open" THEN Append(connections[k].out, m) ELSE connections[k].out
    BY <2>1, ToldOut
  <2>4. CASE Registered(k)
    <3>1. connections'[k] = Told(connections[k], m)
      BY <1>3, <2>4
    <3>2. QED
      BY <1>2, <2>1, <2>2, <2>4, <3>1, ToldSets
  <2>5. CASE ~Registered(k)
    BY <1>3, <2>5
  <2>6. QED
    BY <2>4, <2>5
<1>6. ChannelGrows /\ StoresHands
  BY <1>1, TablesStay
<1>7. IssuedOnce'
  BY <1>4, <1>6, ServerIssues DEF JoinInv
<1>8. ~failed' => Accepted' = Accepted
  <2>1. Accepted' \subseteq Accepted
    BY <1>4, <1>5, <1>6, ServerAccepts DEF Storing
  <2>2. QED
    BY <1>4, <1>6, <2>1, ServerIssues DEF JoinInv
<1>9. StoredIsPublished'
  BY <1>1, <1>5 DEF JoinInv, StoredIsPublished
<1>10. MemoryShows'
  BY <1>1, <1>8 DEF JoinInv, MemoryShows
<1>11. AckComesLast'
  <2>1. \A k \in DOMAIN connections : AckLast(connections'[k])
    BY <1>2, <1>5 DEF JoinInv, AckComesLast, AckLast
  <2>2. QED
    BY <1>1, <2>1 DEF AckComesLast
<1>12. ASSUME NEW c \in Clients PROVE JoinerFollows(c)'
  <2> SUFFICES ASSUME GotWhole(c)', ~gap', ~failed', ChannelReady' PROVE \E a \in Nat : Following(c, a)'
    BY DEF JoinerFollows
  <2> DEFINE k == conn[c]
  <2>1. conn'[c] = k /\ k # 0 /\ k \in DOMAIN connections
    BY <1>1, ConnParts DEF GotWhole, clientVars
  <2>2. connections[k].whole /\ connections[k].socket = "open"
    BY <1>5, <2>1 DEF GotWhole
  <2>3. ~gap /\ ~failed /\ ChannelReady
    BY <1>1, <1>6, PublishedStays
  <2>4. PICK a \in Nat : Following(c, a)
    BY <2>1, <2>2, <2>3 DEF JoinInv, JoinerFollows, GotWhole
  <2>5. Registered(k)
    BY <2>1, <2>2 DEF JoinInv, AckComesLast, AckLast, Registered
  <2>6. connections'[k].out = Append(connections[k].out, Broadcast(channel[fanned + 1]))
    BY <1>5, <2>1, <2>2, <2>5 DEF m
  <2>7. Shared(c) \subseteq Shared(c)'
    BY <1>5, <1>8, <2>1 DEF Shared
  <2>8. Following(c, a)'
    BY <1>1, <2>1, <2>3, <2>4, <2>6, <2>7, FollowingFanned DEF clientVars, pageVars
  <2>9. QED
    BY <2>8
<1>13. QED
  BY <1>7, <1>9, <1>10, <1>11, <1>12 DEF JoinInv

\* Forgetting a nonce, and doing nothing, concern nobody.
LEMMA OtherKeepsJoin ==
    ASSUME TypeOK, SyncInv, JoinInv, Expire \/ UNCHANGED vars
    PROVE  JoinInv'
<1>1. UNCHANGED <<clientVars, connections, memory, storeVars, gap, failed>>
  BY DEF Expire, vars, serverVars
<1>2. /\ log' = log /\ channel' = channel /\ fanned' = fanned /\ queue' = queue /\ typed' = typed
      /\ doc' = doc /\ joined' = joined /\ conn' = conn
  BY <1>1 DEF storeVars, clientVars, pageVars
<1>3. Issued' = Issued /\ Accepted' = Accepted /\ FannedOps' = FannedOps
  BY <1>1, <1>2 DEF Issued, InRows, InHands, InInboxes, InQueues, Accepted, Storing, FannedOps, StoredOp
<1>4. IssuedOnce'
  BY <1>2, <1>3 DEF JoinInv, IssuedOnce
<1>5. StoredIsPublished' /\ MemoryShows' /\ AckComesLast'
  BY <1>1, <1>2, <1>3 DEF JoinInv, StoredIsPublished, MemoryShows, AckComesLast
<1>6. ChannelReady' = ChannelReady
  BY <1>2 DEF ChannelReady, StoredOp
<1>7. ASSUME NEW c \in Clients PROVE JoinerFollows(c)'
  <2>1. \A a : Following(c, a)' <=> Following(c, a)
    BY <1>1, <1>2, <1>3 DEF Following, Shared
  <2>2. JoinerFollows(c)
    BY DEF JoinInv
  <2>3. GotWhole(c)' <=> GotWhole(c)
    BY <1>1, <1>2 DEF GotWhole
  <2>4. QED
    BY <1>1, <1>6, <2>1, <2>2, <2>3 DEF JoinerFollows
<1>8. QED
  BY <1>4, <1>5, <1>7 DEF JoinInv

----------------------------------------------------------------------------
(* Steps of an editor and who follows. *)

\* An editor accepts nothing and lets go of nothing accepted.
LEMMA ClientAccepts ==
    ASSUME NEW c \in Clients, ClientStep(c)
    PROVE  /\ Accepted' = Accepted /\ FannedOps' = FannedOps /\ ChannelReady' = ChannelReady
           /\ UNCHANGED <<memory, log, channel, fanned, gap, failed>>
<1>1. UNCHANGED <<memory, log, channel, fanned, gap, failed>>
  BY DEF ClientStep, serverVars, storeVars
<1>2. Idle.stage # "append"
  BY DEF Idle
<1>3. \A k : k \in DOMAIN connections' /\ Storing(k)' <=> k \in DOMAIN connections /\ Storing(k)
  BY <1>2 DEF ClientStep, Storing
<1>4. \A k \in DOMAIN connections : connections'[k].hand = connections[k].hand
  BY DEF ClientStep
<1>5. \A op : op \in Accepted' <=> op \in Accepted
  <2>1. \A op \in Accepted' : op \in Accepted
    BY <1>1, <1>3, <1>4 DEF Accepted
  <2>2. \A op \in Accepted : op \in Accepted'
    BY <1>1, <1>3, <1>4 DEF Accepted
  <2>3. QED
    BY <2>1, <2>2
<1>6. FannedOps' = FannedOps /\ ChannelReady' = ChannelReady
  BY <1>1 DEF FannedOps, ChannelReady, StoredOp
<1>7. QED
  BY <1>1, <1>5, <1>6

\* What an editor queues and sends is what it had queued, or is new.
LEMMA ClientIssues ==
    ASSUME NEW c \in Clients, ClientStep(c), NEW new, ToSet(queue'[c]) \subseteq ToSet(queue[c]) \cup new,
           \A k \in DOMAIN connections' : \A msg \in ToSet(connections'[k].inbox) :
               \/ k \in DOMAIN connections /\ msg \in ToSet(connections[k].inbox)
               \/ msg \in ToSet(queue[c]) \cup new
    PROVE  Issued' \subseteq Issued \cup new
<1>1. log' = log
  BY ClientAccepts
<1>2. ASSUME NEW msg \in InRows' PROVE msg \in Issued
  BY <1>1, <1>2 DEF Issued, InRows
<1>3. ASSUME NEW msg \in InHands' PROVE msg \in Issued
  <2>1. PICK k \in DOMAIN connections' : connections'[k].hand.stage # "idle" /\ msg = connections'[k].hand.msg
    BY <1>3 DEF InHands
  <2>2. k \in DOMAIN connections /\ connections'[k].hand = connections[k].hand
    BY <2>1 DEF ClientStep, Idle
  <2>3. QED
    BY <2>1, <2>2, IssuedIs
<1>4. ASSUME NEW msg \in InInboxes' PROVE msg \in Issued \cup new
  <2>1. PICK k \in DOMAIN connections' : msg \in ToSet(connections'[k].inbox)
    BY <1>4 DEF InInboxes
  <2>2. QED
    BY <2>1, IssuedIs
<1>5. ASSUME NEW msg \in InQueues' PROVE msg \in Issued \cup new
  <2>1. PICK d \in Clients : msg \in ToSet(queue'[d])
    BY <1>5 DEF InQueues
  <2>2. d # c => queue'[d] = queue[d]
    BY DEF ClientStep
  <2>3. QED
    BY <2>1, <2>2, IssuedIs
<1>6. QED
  BY <1>2, <1>3, <1>4, <1>5 DEF Issued

\* An editor's step leaves what the others follow alone.
LEMMA ClientKeepsJoin ==
    ASSUME TypeOK, SyncInv, JoinInv, NEW c \in Clients, ClientStep(c),
           \A d \in Clients : d # c => doc'[d] = doc[d] /\ joined'[d] = joined[d],
           IssuedOnce', AckComesLast', JoinerFollows(c)'
    PROVE  JoinInv'
<1>1. /\ Accepted' = Accepted /\ FannedOps' = FannedOps /\ ChannelReady' = ChannelReady
      /\ UNCHANGED <<memory, log, channel, fanned, gap, failed>>
  BY ClientAccepts
<1>2. StoredIsPublished'
  <2>1. \A k \in DOMAIN connections : k \in DOMAIN connections' /\ connections'[k].hand = connections[k].hand
    BY DEF ClientStep
  <2>2. QED
    BY <1>1, <2>1 DEF JoinInv, StoredIsPublished
<1>3. MemoryShows'
  BY <1>1 DEF JoinInv, MemoryShows
<1>4. ASSUME NEW d \in Clients PROVE JoinerFollows(d)'
  <2>1. CASE d = c
    BY <2>1
  <2>2. CASE d # c
    <3> SUFFICES ASSUME GotWhole(d)', ~gap', ~failed', ChannelReady' PROVE \E a \in Nat : Following(d, a)'
      BY DEF JoinerFollows
    <3>1. conn'[d] = conn[d] /\ doc'[d] = doc[d] /\ joined'[d] = joined[d]
      BY <2>2 DEF ClientStep
    <3>2. conn[d] # 0 /\ conn[d] \in DOMAIN connections /\ conn[d] # conn[c]
      <4>1. conn[d] # 0
        BY <3>1 DEF GotWhole
      <4>2. conn[d] \in DOMAIN connections
        BY <4>1, ConnParts
      <4>3. QED
        BY <2>2, <4>1, <4>2 DEF SyncInv, Connected, AtOneEnd
    <3>3. connections'[conn[d]] = connections[conn[d]]
      BY <3>2 DEF ClientStep
    <3>4. PICK a \in Nat : Following(d, a)
      BY <1>1, <3>1, <3>3 DEF JoinInv, JoinerFollows, GotWhole
    <3>5. Shared(d)' = Shared(d)
      BY <1>1, <3>1, <3>3 DEF Shared
    <3>6. Following(d, a)'
      BY <1>1, <3>1, <3>2, <3>3, <3>4, <3>5, FollowingMore
    <3>7. QED
      BY <3>6
  <2>3. QED
    BY <2>1, <2>2
<1>5. QED
  BY <1>2, <1>3, <1>4 DEF JoinInv

\* connect(): nothing was sent over the new connection.
LEMMA ConnectKeepsJoin ==
    ASSUME TypeOK, SyncInv, JoinInv, NEW c \in Clients, Connect(c)
    PROVE  JoinInv'
<1> DEFINE n == Len(connections) + 1
           x == Opened(c, lastSeq[c])
<1>1. /\ n \in DOMAIN connections' /\ connections'[n] = x
      /\ \A k \in DOMAIN connections : k \in DOMAIN connections' /\ connections'[k] = connections[k]
      /\ \A k \in DOMAIN connections' : k \in DOMAIN connections \/ k = n
  BY ConnectTyped
<1>2. /\ conn' = [conn EXCEPT ![c] = n]
      /\ UNCHANGED <<serverVars, queue, typed, clientSeq, doc, joined>>
  BY DEF Connect, pageVars
<1>3. conn'[c] = n
  BY <1>2 DEF TypeOK
<1>4. /\ x.whole = FALSE /\ x.inbox = << >> /\ x.out = << >> /\ x.hand = Idle
  BY DEF Opened
<1> HIDE DEF x, n
<1>5. ClientStep(c)
  BY <1>1, <1>2, <1>4 DEF ClientStep, TypeOK
<1>6. ToSet(<< >>) = {}
  BY DEF ToSet
<1>7. Issued' \subseteq Issued
  <2>1. \A k \in DOMAIN connections' : \A msg \in ToSet(connections'[k].inbox) :
            k \in DOMAIN connections /\ msg \in ToSet(connections[k].inbox)
    BY <1>1, <1>4, <1>6
  <2>2. Issued' \subseteq Issued \cup {}
    BY <1>2, <1>5, <2>1, ClientIssues
  <2>3. QED
    BY <2>2
<1>8. IssuedOnce'
  BY <1>2, <1>7, IssuedLess DEF JoinInv
<1>9. AckComesLast'
  BY <1>1, <1>4, <1>6 DEF JoinInv, AckComesLast, AckLast
<1>10. JoinerFollows(c)'
  BY <1>1, <1>3, <1>4 DEF JoinerFollows, GotWhole
<1>11. QED
  BY <1>2, <1>5, <1>8, <1>9, <1>10, ClientKeepsJoin

\* A connection that is over shows nothing, and a new page has none.
LEMMA LeavingKeepsJoin ==
    ASSUME TypeOK, SyncInv, JoinInv, NEW c \in Clients, ReceiveClose(c) \/ Drop(c) \/ Reload(c)
    PROVE  JoinInv'
<1>1. UNCHANGED <<queue, typed, serverVars>>
  BY DEF ReceiveClose, Drop, Reload
<1>2. conn'[c] = 0 /\ \A d \in Clients : d # c =>
          conn'[d] = conn[d] /\ clientSeq'[d] = clientSeq[d] /\ doc'[d] = doc[d] /\ joined'[d] = joined[d]
  BY DEF ReceiveClose, Drop, Reload, pageVars, TypeOK
<1>3. /\ DOMAIN connections' = DOMAIN connections
      /\ \A k \in DOMAIN connections : k # conn[c] => connections'[k] = connections[k]
      /\ \A k \in DOMAIN connections :
            /\ connections'[k].hand = connections[k].hand /\ AckLast(connections'[k])
            /\ ToSet(connections'[k].inbox) \subseteq ToSet(connections[k].inbox)
  <2>1. CASE Reload(c)
    BY <2>1 DEF Reload, JoinInv, AckComesLast
  <2>2. CASE ReceiveClose(c) \/ Drop(c)
    <3>1. conn[c] # 0 /\ \E n \in Arrived(conn[c]) : Cut(conn[c], n)
      BY <2>2 DEF ReceiveClose, Drop, HasMessage
    <3>2. PICK n \in Arrived(conn[c]) : Cut(conn[c], n)
      BY <3>1
    <3>3. /\ DOMAIN connections' = DOMAIN connections
          /\ \A k \in DOMAIN connections : k # conn[c] => connections'[k] = connections[k]
          /\ connections'[conn[c]].hand = connections[conn[c]].hand
      BY <3>1, <3>2, CutTyped
    <3> DEFINE x == connections[conn[c]]
               y == connections'[conn[c]]
    <3>4. x \in Connection /\ conn[c] \in DOMAIN connections
      BY <3>1, ConnParts
    <3>5. y.whole = FALSE /\ y.out = << >> /\ y.inbox = SubSeq(x.inbox, 1, n)
      <4> DEFINE r == [x EXCEPT !.socket = "gone", !.stage = IF Registered(conn[c]) THEN "live" ELSE "join",
                                !.since = 0, !.upto = 0, !.whole = FALSE,
                                !.inbox = SubSeq(@, 1, n), !.out = << >>]
      <4>1. r.whole = FALSE /\ r.out = << >> /\ r.inbox = SubSeq(x.inbox, 1, n)
        BY <3>4, ConnectionParts
      <4>2. connections' = [connections EXCEPT ![conn[c]] = r]
        BY <3>2 DEF Cut
      <4> HIDE DEF r
      <4>3. QED
        BY <3>4, <4>1, <4>2
    <3>6. ToSet(SubSeq(x.inbox, 1, n)) \subseteq ToSet(x.inbox)
      <4>1. x.inbox \in Seq(Message) /\ n \in 0..Len(x.inbox)
        BY <3>4, ConnectionParts DEF Arrived
      <4> DEFINE M == Message
                 s == x.inbox
      <4>2. s \in Seq(M) /\ n \in 0..Len(s)
        BY <4>1
      <4> HIDE DEF M, s
      <4>3. /\ DOMAIN SubSeq(s, 1, n) = 1..n /\ DOMAIN s = 1..Len(s) /\ n <= Len(s) /\ Len(s) \in Nat
            /\ \A i \in 1..n : SubSeq(s, 1, n)[i] = s[i]
        BY <4>2
      <4>4. ToSet(SubSeq(s, 1, n)) \subseteq ToSet(s)
        BY <4>2, <4>3 DEF ToSet
      <4>5. QED
        BY <4>4 DEF s
    <3>7. AckLast(y)
      <4>1. ToSet(<< >>) = {}
        BY DEF ToSet
      <4>2. QED
        BY <3>5, <4>1 DEF AckLast
    <3>8. \A k \in DOMAIN connections : AckLast(connections[k])
      BY DEF JoinInv, AckComesLast
    <3>9. QED
      BY <3>3, <3>5, <3>6, <3>7, <3>8
  <2>3. QED
    BY <2>1, <2>2
<1>4. ClientStep(c)
  BY <1>1, <1>2, <1>3 DEF ClientStep
<1>5. Issued' \subseteq Issued \cup {}
  BY <1>1, <1>3, <1>4, ClientIssues
<1>6. IssuedOnce'
  BY <1>1, <1>5, IssuedLess DEF JoinInv
<1>7. AckComesLast'
  BY <1>3 DEF AckComesLast
<1>8. JoinerFollows(c)'
  BY <1>2 DEF JoinerFollows, GotWhole
<1>9. QED
  BY <1>2, <1>4, <1>6, <1>7, <1>8, ClientKeepsJoin

\* An insert gets a clock that is above its anchor's.
LEMMA EditsAreAboveAnchors ==
    ASSUME TypeOK, NEW c \in Clients, NEW op \in Edits(c), op.type = "INSERT"
    PROVE  op.after.clock < op.uid.clock
<1>1. doc[c].list \in Seq(Uids)
  BY DEF TypeOK, Document
<1>2. Clock(doc[c]) \in Nat /\ \A u \in ToSet(doc[c].list) : u.clock <= Clock(doc[c])
  <2>1. \A v \in Uids : v.clock \in Nat
    BY DEF Uids, UID
  <2>2. QED
    BY <1>1, <2>1, GreatestClock DEF Clock
<1>3. PICK a \in VisibleUids(doc[c]) \cup {Root} :
         op = InsertOp([clock |-> Clock(doc[c]) + 1, site |-> c], a)
  BY DEF Edits, InsertOp, DeleteOp
<1>4. op.uid.clock = Clock(doc[c]) + 1 /\ op.after = a
  BY <1>3 DEF InsertOp
<1>5. CASE a = Root
  BY <1>2, <1>4, <1>5 DEF Root
<1>6. CASE a \in ToSet(doc[c].list)
  <2>1. a.clock \in Nat
    <3>1. a \in Uids
      BY <1>1, <1>6 DEF ToSet
    <3>2. QED
      BY <3>1 DEF Uids, UID
  <2>2. QED
    BY <1>2, <1>4, <1>6, <2>1
<1>7. QED
  BY <1>3, <1>5, <1>6 DEF VisibleUids

\* A new nonce is drawn for what is typed.
LEMMA TypingIssuesOnce ==
    ASSUME TypeOK, IssuedOnce, NEW c \in Clients, NEW msg \in Message, msg.nonce = <<c, typed[c]>>,
           msg.op \in Edits(c), Issued' \subseteq Issued \cup {msg}, typed' = [typed EXCEPT ![c] = @ + 1]
    PROVE  IssuedOnce'
<1>1. \A m \in Issued : m.nonce \in Nonce /\ m.nonce[1] \in Clients /\ m.nonce[2] \in Nat
  BY IssuedTypes, MessageParts DEF Nonce
<1>2. \A d \in Clients : typed[d] \in Nat /\ typed'[d] = IF d = c THEN typed[d] + 1 ELSE typed[d]
  BY DEF TypeOK
<1>3. \A m \in Issued : m.nonce # msg.nonce
  <2> SUFFICES ASSUME NEW m \in Issued, m.nonce = msg.nonce PROVE FALSE
    OBVIOUS
  <2>1. m.nonce[1] = c /\ m.nonce[2] = typed[c]
    OBVIOUS
  <2>2. m.nonce[2] < typed[m.nonce[1]]
    BY DEF IssuedOnce
  <2>3. QED
    BY <1>2, <2>1, <2>2
<1>4. \A m1, m2 \in Issued' : m1.nonce = m2.nonce => m1 = m2
  BY <1>3 DEF IssuedOnce
<1>5. \A m \in Issued' : m.nonce[2] < typed'[m.nonce[1]]
  <2> TAKE m \in Issued'
  <2>1. CASE m \in Issued
    <3>1. m.nonce[2] < typed[m.nonce[1]]
      BY <2>1 DEF IssuedOnce
    <3>2. QED
      BY <1>1, <1>2, <2>1, <3>1
  <2>2. CASE m = msg
    <3>1. m.nonce[1] = c /\ m.nonce[2] = typed[c]
      BY <2>2
    <3>2. QED
      BY <1>2, <3>1
  <2>3. QED
    BY <2>1, <2>2
<1>6. \A m \in Issued' : m.op.type = "INSERT" => m.op.after.clock < m.op.uid.clock
  BY EditsAreAboveAnchors DEF IssuedOnce
<1>7. QED
  BY <1>4, <1>5, <1>6 DEF IssuedOnce

\* localInsert and localDelete: the client shows what it sends, which is no
\* broadcast's operation yet.
LEMMA TypeKeepsJoin ==
    ASSUME TypeOK, SyncInv, JoinInv, NEW c \in Clients, Type(c)
    PROVE  JoinInv'
<1>1. PICK msg \in Message :
         /\ msg.nonce = <<c, typed[c]>> /\ msg.op \in Edits(c)
         /\ doc' = [doc EXCEPT ![c] = Apply(@, msg.op)]
         /\ queue' = [queue EXCEPT ![c] = Append(@, msg)]
         /\ SentUp(conn[c], <<msg>>)
  BY TypeParts
<1>2. /\ clientSeq' = [clientSeq EXCEPT ![c] = @ + 1] /\ typed' = [typed EXCEPT ![c] = @ + 1]
      /\ UNCHANGED <<conn, joined, serverVars>>
  BY DEF Type
<1>3. queue[c] \in Seq(Message) /\ doc[c] \in Document
  BY DEF TypeOK
<1>4. /\ queue'[c] = Append(queue[c], msg) /\ doc'[c] = Apply(doc[c], msg.op)
      /\ \A d \in Clients : d # c => doc'[d] = doc[d] /\ joined'[d] = joined[d]
  BY <1>1, <1>2 DEF TypeOK
<1>5. ToSet(queue'[c]) = ToSet(queue[c]) \cup {msg}
  BY <1>3, <1>4, AppendElements
<1> DEFINE k == conn[c]
           x == connections[k]
           y == connections'[k]
<1>6. /\ DOMAIN connections' = DOMAIN connections
      /\ \A l \in DOMAIN connections : l # k => connections'[l] = connections[l]
      /\ k # 0 => /\ k \in DOMAIN connections
                  /\ y.whole = x.whole /\ y.stage = x.stage /\ y.socket = x.socket /\ y.out = x.out
                  /\ y.hand = x.hand /\ ToSet(y.inbox) = ToSet(x.inbox) \cup {msg}
  <2>1. CASE k = 0
    BY <1>1, <2>1 DEF SentUp
  <2>2. CASE k # 0
    <3> DEFINE r == [x EXCEPT !.inbox = @ \o <<msg>>]
    <3>1. k \in DOMAIN connections /\ x \in Connection
      BY <2>2, ConnParts
    <3>2. /\ r.whole = x.whole /\ r.stage = x.stage /\ r.socket = x.socket /\ r.out = x.out
          /\ r.hand = x.hand /\ r.inbox = x.inbox \o <<msg>>
      BY <3>1, ConnectionParts
    <3>3. connections' = [connections EXCEPT ![k] = r]
      BY <1>1, <2>2 DEF SentUp
    <3>4. x.inbox \in Seq(Message) /\ <<msg>> \in Seq(Message) /\ ToSet(<<msg>>) = {msg}
      BY <3>1, ConnectionParts DEF ToSet
    <3>5. ToSet(x.inbox \o <<msg>>) = ToSet(x.inbox) \cup {msg}
      BY <3>4, LastElement
    <3> HIDE DEF r
    <3>6. QED
      BY <3>1, <3>2, <3>3, <3>5
  <2>3. QED
    BY <2>1, <2>2
<1>7. k = 0 => connections' = connections
  BY <1>1 DEF SentUp
<1>8. ClientStep(c)
  <2>1. \A l \in DOMAIN connections : connections'[l].hand = connections[l].hand
    BY <1>6, <1>7
  <2>2. QED
    BY <1>1, <1>2, <1>6, <2>1 DEF ClientStep, TypeOK
<1>9. Issued' \subseteq Issued \cup {msg}
  <2>1. \A l \in DOMAIN connections' : \A m \in ToSet(connections'[l].inbox) :
            (l \in DOMAIN connections /\ m \in ToSet(connections[l].inbox)) \/ m = msg
    BY <1>6, <1>7
  <2>2. QED
    BY <1>5, <1>8, <2>1, ClientIssues
<1>10. IssuedOnce'
  BY <1>1, <1>2, <1>9, TypingIssuesOnce DEF JoinInv
<1>11. AckComesLast'
  BY <1>6, <1>7 DEF JoinInv, AckComesLast, AckLast
<1>12. JoinerFollows(c)'
  <2> SUFFICES ASSUME GotWhole(c)', ~gap', ~failed', ChannelReady' PROVE \E a \in Nat : Following(c, a)'
    BY DEF JoinerFollows
  <2>1. /\ Accepted' = Accepted /\ FannedOps' = FannedOps /\ ChannelReady' = ChannelReady
        /\ UNCHANGED <<log, gap, failed, conn, joined>>
    BY <1>2, <1>8, ClientAccepts
  <2>2. k # 0 /\ GotWhole(c)
    BY <1>6, <2>1 DEF GotWhole
  <2>3. PICK a \in Nat : Following(c, a)
    BY <2>1, <2>2 DEF JoinInv, JoinerFollows
  <2>4. Shared(c)' = Shared(c) \cup {msg.op}
    BY <1>6, <2>1, <2>2 DEF Shared, OpsOf
  <2>5. Shared(c)' \in SUBSET Operation /\ msg.op \in Shared(c)'
    BY <1>1, <2>2, <2>4, AcceptedTypes, MessageParts DEF JoinInv
  <2>6. y.out = x.out
    BY <1>6, <2>2
  <2>7. \A d, b : Follows(d, x.out, b, Shared(c), log, FannedOps) =>
                      Follows(d, x.out, b, Shared(c)', log, FannedOps)
    BY <2>4, FollowsMore
  <2>8. CASE a = 0
    <3>1. Follows(doc[c], x.out, 0, Shared(c)', log, FannedOps)
      BY <2>3, <2>7, <2>8 DEF Following
    <3>2. Follows(doc'[c], x.out, 0, Shared(c)', log, FannedOps)
      BY <1>4, <2>5, <3>1, FollowsTyped
    <3>3. Following(c, a)'
      BY <2>1, <2>3, <2>6, <2>8, <3>2 DEF Following
    <3>4. QED
      BY <3>3
  <2>9. CASE a # 0
    <3>1. Following(c, a)'
      BY <2>1, <2>3, <2>6, <2>7, <2>9 DEF Following
    <3>2. QED
      BY <3>1
  <2>10. QED
    BY <2>8, <2>9
<1>13. QED
  BY <1>4, <1>8, <1>10, <1>11, <1>12, ClientKeepsJoin

\* Where JOIN_ACK is when the first message is received.
LEMMA AckAtTail ==
    ASSUME NEW M, NEW out \in Seq(M), out # << >>, NEW a \in 0..Len(out), AckAt(out, a),
           NEW b, b = (IF a = 0 THEN 0 ELSE a - 1)
    PROVE  /\ b \in Nat /\ b \in 0..Len(Tail(out)) /\ AckAt(Tail(out), b)
           /\ b # 0 => Tail(out)[b] = out[a]
           /\ Head(out).type = "JOIN_ACK" <=> a = 1
<1> DEFINE rest == Tail(out)
<1>1. /\ Len(out) \in Nat /\ Len(out) # 0 /\ Len(rest) = Len(out) - 1 /\ Head(out) = out[1]
      /\ \A i \in 1..(Len(out) - 1) : rest[i] = out[i + 1]
  OBVIOUS
<1> HIDE DEF rest
<1>2. b \in 0..Len(rest) /\ b \in Nat
  BY <1>1
<1>3. ASSUME NEW i \in 1..Len(rest) PROVE rest[i].type = "JOIN_ACK" <=> i = b
  <2>1. i \in 1..(Len(out) - 1) /\ i + 1 \in 1..Len(out) /\ rest[i] = out[i + 1]
    BY <1>1
  <2>2. out[i + 1].type = "JOIN_ACK" <=> i + 1 = a
    BY <2>1 DEF AckAt
  <2>3. i + 1 = a <=> i = b
    BY <2>1
  <2>4. QED
    BY <2>1, <2>2, <2>3
<1>4. b # 0 => rest[b] = out[a]
  BY <1>1
<1>5. out[1].type = "JOIN_ACK" <=> 1 = a
  BY <1>1 DEF AckAt
<1>6. QED
  BY <1>1, <1>2, <1>3, <1>4, <1>5 DEF AckAt, rest

\* OP_ACK and BROADCAST: a broadcast that was awaited takes effect, and one
\* before JOIN_ACK was not.
LEMMA ReceivedKeepsJoin ==
    ASSUME TypeOK, SyncInv, JoinInv, NEW c \in Clients, ReceiveAck(c) \/ ReceiveBroadcast(c)
    PROVE  JoinInv'
<1> DEFINE k == conn[c]
           x == connections[k]
           y == connections'[k]
<1>1. /\ k # 0 /\ x.out # << >> /\ Incoming(c).type \in {"OP_ACK", "BROADCAST"} /\ Received(c)
      /\ UNCHANGED <<conn, clientSeq, typed, joined, serverVars>>
  BY DEF ReceiveAck, ReceiveBroadcast, HasMessage
<1>2. k \in DOMAIN connections /\ x \in Connection
  BY <1>1, ConnParts
<1>3. /\ DOMAIN connections' = DOMAIN connections /\ y = [x EXCEPT !.out = Tail(@)]
      /\ \A l \in DOMAIN connections : l # k => connections'[l] = connections[l]
  BY <1>1, <1>2, ReceivedTyped
<1>4. /\ y.whole = x.whole /\ y.socket = x.socket /\ y.stage = x.stage
      /\ y.inbox = x.inbox /\ y.out = Tail(x.out) /\ y.hand = x.hand
  BY <1>2, <1>3, ConnectionParts
<1>5. /\ \A d \in Clients : d # c => queue'[d] = queue[d] /\ doc'[d] = doc[d] /\ joined'[d] = joined[d]
      /\ ToSet(queue'[c]) \subseteq ToSet(queue[c])
      /\ doc'[c] = IF Incoming(c).type = "BROADCAST" /\ joined[c]
                   THEN Apply(doc[c], log[Incoming(c).serverSeq].op) ELSE doc[c]
  <2>1. CASE ReceiveAck(c)
    <3>1. /\ queue' = [queue EXCEPT ![c] = Without(@, Incoming(c).clientSeq)] /\ queue[c] \in Seq(Message)
          /\ UNCHANGED <<doc, joined>> /\ Incoming(c).type = "OP_ACK"
      BY <2>1 DEF ReceiveAck, TypeOK, HasMessage
    <3>2. ToSet(Without(queue[c], Incoming(c).clientSeq)) \subseteq ToSet(queue[c])
      BY <3>1, OmitElements DEF Without
    <3>3. QED
      BY <3>1, <3>2 DEF TypeOK
  <2>2. CASE ReceiveBroadcast(c)
    <3>1. /\ doc' = IF joined[c] THEN [doc EXCEPT ![c] = Apply(@, log[Incoming(c).serverSeq].op)] ELSE doc
          /\ UNCHANGED <<queue, joined>> /\ Incoming(c).type = "BROADCAST"
      BY <2>2 DEF ReceiveBroadcast, HasMessage
    <3>2. QED
      BY <3>1 DEF TypeOK
  <2>3. QED
    BY <2>1, <2>2
<1>6. ClientStep(c)
  <2>1. \A l \in DOMAIN connections : connections'[l].hand = connections[l].hand
    BY <1>3, <1>4
  <2>2. QED
    BY <1>1, <1>3, <1>5, <2>1 DEF ClientStep
<1>7. IssuedOnce'
  <2>1. Issued' \subseteq Issued \cup {}
    BY <1>3, <1>4, <1>5, <1>6, ClientIssues
  <2>2. QED
    BY <1>1, <2>1, IssuedLess DEF JoinInv
<1>8. AckComesLast'
  <2>1. ToSet(y.out) \subseteq ToSet(x.out)
    BY <1>1, <1>4, IncomingParts
  <2>2. AckLast(y)
    BY <1>2, <1>4, <2>1 DEF JoinInv, AckComesLast, AckLast
  <2>3. QED
    BY <1>3, <2>2 DEF JoinInv, AckComesLast
<1>9. JoinerFollows(c)'
  <2> SUFFICES ASSUME GotWhole(c)', ~gap', ~failed', ChannelReady' PROVE \E b \in Nat : Following(c, b)'
    BY DEF JoinerFollows
  <2> DEFINE out == x.out
             M == ServerMessage
  <2>1. /\ Accepted' = Accepted /\ FannedOps' = FannedOps /\ ChannelReady' = ChannelReady
        /\ UNCHANGED <<log, gap, failed, conn, joined>>
    BY <1>1, <1>6, ClientAccepts
  <2>2. GotWhole(c)
    BY <1>1, <1>4, <2>1 DEF GotWhole
  <2>3. PICK a \in Nat : Following(c, a)
    BY <2>1, <2>2 DEF JoinInv, JoinerFollows
  <2>4. a \in 0..Len(out) /\ AckAt(out, a)
    BY <2>3 DEF Following
  <2>5. out \in Seq(M) /\ out # << >> /\ Incoming(c) = Head(out)
    BY <1>1, <1>2, ConnectionParts DEF Incoming
  <2>6. Shared(c)' = Shared(c)
    BY <1>4, <2>1 DEF Shared
  <2>7. PICK b : b = IF a = 0 THEN 0 ELSE a - 1
    OBVIOUS
  <2> HIDE DEF M
  <2>8. /\ b \in Nat /\ b \in 0..Len(Tail(out)) /\ AckAt(Tail(out), b)
        /\ b # 0 => Tail(out)[b] = out[a]
        /\ a # 1
    <3>1. Head(out).type # "JOIN_ACK"
      BY <1>1, <2>5
    <3>2. QED
      BY <2>4, <2>5, <2>7, <3>1, AckAtTail
  <2>9. Head(out) = out[1] /\ 1 \in 1..Len(out)
    BY <2>5
  <2>10. CASE a = 0
    <3>1. joined[c] /\ Follows(doc[c], out, a, Shared(c), log, FannedOps)
      BY <2>3, <2>10 DEF Following
    <3>2. Built(doc[c], Shared(c)) /\ doc[c] \in Document
      BY <3>1 DEF Follows, Built
    <3>3. 1 \in Awaited(out, a) <=> Incoming(c).type = "BROADCAST"
      BY <2>5, <2>9, <2>10 DEF Awaited
    <3>4. CASE 1 \in Awaited(out, a)
      <4> DEFINE op == OpAt(out, log, 1)
      <4>1. op \in Accepted
        BY <1>1, <3>4, AwaitedIsStored
      <4>2. op \in Shared(c) /\ Shared(c) \in SUBSET Operation
        BY <1>1, <4>1, AcceptedTypes DEF Shared, JoinInv
      <4>3. Ready(op, ToSet(doc[c].list))
        <5>1. Ready(op, ToSet(doc[c].list) \cup InsertedBy(AwaitedBefore(out, a, log, 1)))
          BY <3>1, <3>4 DEF Follows
        <5>2. \A i \in Awaited(out, a) : ~(i < 1)
          BY <2>10 DEF Awaited
        <5>3. AwaitedBefore(out, a, log, 1) = {}
          BY <5>2 DEF AwaitedBefore
        <5>4. InsertedBy({}) = {}
          BY DEF InsertedBy, Inserting
        <5>5. QED
          BY <5>1, <5>3, <5>4
      <4>4. doc'[c] = Apply(doc[c], op)
        BY <1>5, <2>5, <2>9, <3>1, <3>3, <3>4 DEF OpAt
      <4> HIDE DEF op
      <4>5. /\ Built(doc'[c], Shared(c)) /\ ToSet(doc[c].list) \subseteq ToSet(doc'[c].list)
            /\ Shows(doc'[c], op) /\ \A o : Shows(doc[c], o) => Shows(doc'[c], o)
        <5>1. doc[c] \in Document /\ op \in Operation
          BY <3>2, <4>2
        <5>2. Built(Apply(doc[c], op), Shared(c))
          BY <3>2, <4>2, BuiltApply
        <5>3. ToSet(doc[c].list) \subseteq ToSet(Apply(doc[c], op).list)
          BY <5>1, ApplyIs
        <5>4. /\ Shows(Apply(doc[c], op), op)
              /\ \A o : Shows(doc[c], o) => Shows(Apply(doc[c], op), o)
          BY <4>3, <5>1, AppliedShows
        <5>5. QED
          BY <4>4, <5>2, <5>3, <5>4
      <4>6. Follows(doc'[c], Tail(out), b, Shared(c), log, FannedOps)
        BY <2>4, <2>5, <2>7, <3>1, <4>5, FollowsTail DEF op
      <4>7. QED
        BY <1>4, <2>1, <2>6, <2>7, <2>8, <2>10, <3>1, <4>6 DEF Following
    <3>5. CASE 1 \notin Awaited(out, a)
      <4>1. doc'[c] = doc[c]
        BY <1>5, <3>3, <3>5
      <4>2. Follows(doc'[c], Tail(out), b, Shared(c), log, FannedOps)
        BY <2>4, <2>5, <2>7, <3>1, <3>2, <3>5, <4>1, FollowsTail
      <4>3. QED
        BY <1>4, <2>1, <2>6, <2>7, <2>8, <2>10, <3>1, <4>2 DEF Following
    <3>6. QED
      BY <3>4, <3>5
  <2>11. CASE a # 0
    <3> DEFINE d == out[a].nodes
    <3>1. out[a].from = 0 /\ out[a].to = 0 /\ Follows(d, out, a, Shared(c), log, FannedOps)
      BY <2>3, <2>11 DEF Following
    <3>2. Built(d, Shared(c)) /\ 1 \notin Awaited(out, a) /\ b # 0
      <4>1. 1 \notin Awaited(out, a)
        <5>1. a \in Nat /\ ~(a + 1 <= 1)
          BY <2>8, <2>11
        <5>2. QED
          BY <5>1 DEF Awaited
      <4>2. b # 0
        BY <2>7, <2>8, <2>11
      <4>3. QED
        BY <3>1, <4>1, <4>2 DEF Follows
    <3> HIDE DEF d
    <3>3. Follows(d, Tail(out), b, Shared(c), log, FannedOps)
      BY <2>4, <2>5, <2>7, <3>1, <3>2, FollowsTail
    <3>4. Tail(out)[b] = out[a]
      BY <2>8, <3>2
    <3>5. Following(c, b)'
      BY <1>4, <2>1, <2>6, <2>8, <3>1, <3>2, <3>3, <3>4 DEF Following, d
    <3>6. QED
      BY <2>8, <3>5
  <2>12. QED
    BY <2>10, <2>11
<1>10. QED
  BY <1>5, <1>6, <1>7, <1>8, <1>9, ClientKeepsJoin

\* The nodes of JOIN_ACK become the client's document.
LEMMA JoinAckKeepsJoin ==
    ASSUME TypeOK, SyncInv, JoinInv, NEW c \in Clients, ReceiveJoinAck(c)
    PROVE  JoinInv'
<1> DEFINE k == conn[c]
           x == connections[k]
           ack == Incoming(c)
           r == [x EXCEPT !.out = Tail(@), !.inbox = @ \o queue[c]]
<1>1. /\ k # 0 /\ x.out # << >> /\ ack.type = "JOIN_ACK"
      /\ connections' = [connections EXCEPT ![k] = r]
      /\ UNCHANGED <<queue, conn, clientSeq, typed, serverVars>>
      /\ joined' = [joined EXCEPT ![c] = TRUE]
      /\ doc' = [doc EXCEPT ![c] = FoldLeft(Apply, ack.nodes, Missed(ack.from, ack.to))]
  BY DEF ReceiveJoinAck, HasMessage
<1>2. k \in DOMAIN connections /\ x \in Connection
  BY <1>1, ConnParts
<1>3. /\ r.whole = x.whole /\ r.socket = x.socket /\ r.stage = x.stage
      /\ r.inbox = x.inbox \o queue[c] /\ r.out = Tail(x.out) /\ r.hand = x.hand
  BY ZenonT(60), <1>2, ConnectionParts
<1> HIDE DEF r
<1>4. /\ DOMAIN connections' = DOMAIN connections /\ connections'[k] = r
      /\ \A l \in DOMAIN connections : l # k => connections'[l] = connections[l]
  BY <1>1, <1>2
<1>5. ToSet(r.inbox) = ToSet(x.inbox) \cup ToSet(queue[c])
  <2>1. x.inbox \in Seq(Message) /\ queue[c] \in Seq(Message)
    BY <1>2, ConnectionParts DEF TypeOK
  <2>2. ToSet(x.inbox \o queue[c]) = ToSet(x.inbox) \cup ToSet(queue[c])
    BY <2>1, ConcatElements
  <2>3. QED
    BY <1>3, <2>2
<1>6. ClientStep(c)
  <2>1. \A l \in DOMAIN connections : connections'[l].hand = connections[l].hand
    BY <1>3, <1>4
  <2>2. QED
    BY <1>1, <1>4, <2>1 DEF ClientStep
<1>7. /\ \A d \in Clients : d # c => doc'[d] = doc[d] /\ joined'[d] = joined[d]
      /\ joined'[c] /\ doc'[c] = FoldLeft(Apply, ack.nodes, Missed(ack.from, ack.to))
  BY <1>1 DEF TypeOK
<1>8. IssuedOnce'
  <2>1. Issued' \subseteq Issued \cup {}
    BY <1>1, <1>4, <1>5, <1>6, ClientIssues
  <2>2. QED
    BY <1>1, <2>1, IssuedLess DEF JoinInv
<1>9. AckComesLast'
  <2>1. ToSet(r.out) \subseteq ToSet(x.out)
    BY <1>1, <1>3, IncomingParts
  <2>2. AckLast(r)
    BY <1>2, <1>3, <2>1 DEF JoinInv, AckComesLast, AckLast
  <2>3. QED
    BY <1>4, <2>2 DEF JoinInv, AckComesLast
<1>10. JoinerFollows(c)'
  <2> SUFFICES ASSUME GotWhole(c)', ~gap', ~failed', ChannelReady' PROVE \E b \in Nat : Following(c, b)'
    BY DEF JoinerFollows
  <2> DEFINE out == x.out
             M == ServerMessage
             d == ack.nodes
  <2>1. /\ Accepted' = Accepted /\ FannedOps' = FannedOps /\ ChannelReady' = ChannelReady
        /\ UNCHANGED <<log, gap, failed, conn>>
    BY <1>1, <1>6, ClientAccepts
  <2>2. GotWhole(c)
    BY <1>1, <1>3, <1>4, <2>1 DEF GotWhole
  <2>3. PICK a \in Nat : Following(c, a)
    BY <2>1, <2>2 DEF JoinInv, JoinerFollows
  <2>4. a \in 0..Len(out) /\ AckAt(out, a)
    BY <2>3 DEF Following
  <2>5. out \in Seq(M) /\ out # << >> /\ ack = Head(out)
    BY <1>1, <1>2, ConnectionParts DEF Incoming
  <2>6. Shared(c) \subseteq Shared(c)'
    BY <1>4, <1>5, <2>1 DEF Shared, OpsOf
  <2> HIDE DEF M
  <2>7. 0 \in 0..Len(Tail(out)) /\ AckAt(Tail(out), 0) /\ a = 1
    <3>1. PICK b : b = IF a = 0 THEN 0 ELSE a - 1
      OBVIOUS
    <3>2. a = 1 /\ b \in 0..Len(Tail(out)) /\ AckAt(Tail(out), b)
      BY <1>1, <2>4, <2>5, <3>1, AckAtTail
    <3>3. b = 0
      BY <3>1, <3>2
    <3>4. QED
      BY <3>2, <3>3
  <2>8. out[1] = ack
    BY <2>5
  <2>9. ack.from = 0 /\ ack.to = 0 /\ Follows(d, out, a, Shared(c), log, FannedOps)
    BY <2>3, <2>7, <2>8 DEF Following
  <2>10. Built(d, Shared(c)) /\ d \in Document /\ 1 \notin Awaited(out, a)
    BY <2>7, <2>9 DEF Follows, Built, Awaited
  <2>11. doc'[c] = d
    <3>1. Missed(0, 0) = << >>
      BY DEF Missed
    <3>2. FoldLeft(Apply, d, << >>) = d
      BY <2>10, OperationsStay, FoldApplyEmpty DEF Replayed
    <3>3. QED
      BY <1>7, <2>9, <3>1, <3>2
  <2> HIDE DEF d
  <2>12. Follows(d, Tail(out), 0, Shared(c), log, FannedOps)
    BY <2>4, <2>5, <2>7, <2>9, <2>10, FollowsTail
  <2>13. Follows(d, Tail(out), 0, Shared(c)', log, FannedOps)
    BY <2>6, <2>12, FollowsMore
  <2>14. Following(c, 0)'
    BY <1>3, <1>4, <1>7, <2>1, <2>7, <2>11, <2>13 DEF Following
  <2>15. QED
    BY <2>14
<1>11. QED
  BY <1>6, <1>7, <1>8, <1>9, <1>10, ClientKeepsJoin

----------------------------------------------------------------------------
(* Joiners are current. *)

\* Nothing was typed, and who has joined shows the empty document.
LEMMA InitJoin == Init => JoinInv
<1> SUFFICES ASSUME Init PROVE JoinInv
  OBVIOUS
<1>1. /\ connections \in Seq(Connection) /\ Len(connections) = Cardinality(Clients)
      /\ \A k \in DOMAIN connections :
            /\ connections[k].inbox = << >> /\ connections[k].out = << >> /\ connections[k].hand = Idle
      /\ \A c \in Clients : conn[c] \in DOMAIN connections /\ connections[conn[c]].client = c
  BY InitParts
<1>2. ToSet(<< >>) = {} /\ Idle.stage = "idle"
  BY DEF ToSet, Idle
<1>3. /\ log = << >> /\ channel = << >> /\ fanned = 0 /\ memory = EmptyDoc
      /\ doc = [c \in Clients |-> EmptyDoc] /\ joined = [c \in Clients |-> c \notin Roaming]
      /\ \A c \in Clients : queue[c] = << >>
  BY DEF Init
<1>4. \A k \in DOMAIN connections :
         connections[k] = IF SetToSeq(Clients)[k] \in Roaming THEN Opened(SetToSeq(Clients)[k], 0)
                          ELSE Joined(SetToSeq(Clients)[k])
  BY DEF Init
<1>5. \A c : /\ Opened(c, 0).whole = FALSE /\ Opened(c, 0).client = c
             /\ Joined(c).whole = TRUE /\ Joined(c).client = c /\ Joined(c).stage = "live"
  BY DEF Opened, Joined
<1>6. Issued = {} /\ Accepted = {}
  <2>1. DOMAIN log = {}
    BY <1>3
  <2>2. \A msg : msg \notin Issued
    BY <1>1, <1>2, <1>3, <2>1, IssuedIs
  <2>3. \A op : op \notin Accepted
    BY <1>1, <1>2, <2>1, AcceptedIs DEF Storing
  <2>4. QED
    BY <2>2, <2>3
<1>7. IssuedOnce
  BY <1>6 DEF IssuedOnce
<1>8. StoredIsPublished
  <2>1. DOMAIN log = {}
    BY <1>3
  <2>2. QED
    BY <2>1 DEF StoredIsPublished
<1>9. MemoryShows
  BY <1>3, <1>6, EmptyIsBuilt DEF MemoryShows
<1>10. AckComesLast
  BY <1>1, <1>2, <1>4, <1>5 DEF AckComesLast, AckLast
<1>11. ASSUME NEW c \in Clients, GotWhole(c) PROVE Following(c, 0)
  <2>1. conn[c] \in DOMAIN connections /\ connections[conn[c]].out = << >>
    BY <1>1
  <2>2. c \notin Roaming
    BY <1>1, <1>4, <1>5, <1>11, <2>1 DEF GotWhole
  <2>3. joined[c] /\ doc[c] = EmptyDoc
    BY <1>3, <2>2
  <2>4. Awaited(<< >>, 0) = {} /\ AckAt(<< >>, 0) /\ 0 \in 0..Len(<< >>)
    BY DEF Awaited, AckAt
  <2>5. FannedOps = {}
    BY <1>3 DEF FannedOps
  <2>6. Follows(EmptyDoc, << >>, 0, Shared(c), log, FannedOps)
    BY <2>4, <2>5, EmptyIsBuilt DEF Follows
  <2>7. QED
    BY <2>1, <2>3, <2>4, <2>6 DEF Following
<1>12. QED
  BY <1>7, <1>8, <1>9, <1>10, <1>11 DEF JoinInv, JoinerFollows

\* Every step keeps what joiners rest on.
LEMMA NextKeepsJoin == TypeOK /\ SyncInv /\ JoinInv /\ [Next]_vars => JoinInv'
<1> SUFFICES ASSUME TypeOK, SyncInv, JoinInv, [Next]_vars PROVE JoinInv'
  OBVIOUS
<1>1. CASE UNCHANGED vars
  BY <1>1, OtherKeepsJoin
<1>2. ASSUME NEW c \in Clients, Connect(c) \/ Type(c) \/ Receive(c) \/ Drop(c) \/ Reload(c)
      PROVE  JoinInv'
  BY <1>2, ConnectKeepsJoin, TypeKeepsJoin, JoinAckKeepsJoin, ReceivedKeepsJoin, LeavingKeepsJoin
     DEF Receive
<1>3. ASSUME NEW k \in DOMAIN connections, Joining(k) \/ RejectEarly(k)
      PROVE  JoinInv'
  BY <1>3, JoiningKeepsJoin, SendAckKeepsJoin DEF Joining
<1>4. ASSUME NEW k \in DOMAIN connections, Handle(k) \/ Refuse(k) \/ HandlerFails(k)
      PROVE  JoinInv'
  BY <1>4, TakeKeepsJoin, RefusingKeepsJoin, FailingKeepsJoin, PersistKeepsJoin, PublishKeepsJoin,
     AcknowledgeKeepsJoin DEF Handle
<1>5. CASE FanOut
  BY <1>5, FanOutKeepsJoin
<1>6. CASE Expire
  BY <1>6, OtherKeepsJoin
<1>7. CASE Rest
  BY <1>7, OtherKeepsJoin DEF Rest
<1>8. QED
  BY <1>1, <1>2, <1>3, <1>4, <1>5, <1>6, <1>7 DEF Next

\* What is accepted was issued once, memory shows it, and whom all nodes were
\* sent shows it or is going to be told (handleJoin, handleOperation, fanOut).
THEOREM JoinInvariance == Spec => [](TypeOK /\ SyncInv /\ JoinInv)
<1>1. Init => TypeOK /\ SyncInv /\ JoinInv
  BY InitTyped, InitSync, InitJoin
<1>2. TypeOK /\ SyncInv /\ JoinInv /\ [Next]_vars => (TypeOK /\ SyncInv /\ JoinInv)'
  BY NextTyped, NextKeepsSync, NextKeepsJoin
<1>3. QED
  BY <1>1, <1>2, PTL DEF Spec

\* Where no published operation met a gap, each finds what it needs in those
\* before it.
LEMMA OrderlyIsReady ==
    ASSUME TypeOK, SyncInv, JoinInv, Orderly
    PROVE  ChannelReady
<1> SUFFICES ASSUME NEW n \in DOMAIN channel
             PROVE  Ready(StoredOp(n), InsertedBy({StoredOp(m) : m \in 1..(n - 1)}))
  BY DEF ChannelReady
<1> DEFINE S == {StoredOp(m) : m \in 1..(n - 1)}
           V == {d \in Document : Built(d, S)}
           s == SubSeq(Published, 1, n - 1)
<1>1. /\ DOMAIN channel = 1..Len(channel) /\ Len(channel) \in Nat /\ n \in 1..Len(channel)
      /\ \A m \in DOMAIN channel : StoredOp(m) \in Accepted
  BY ChannelIsStored
<1>2. Accepted \in SUBSET Operation
  BY AcceptedTypes DEF JoinInv
<1>3. \A m \in 1..(n - 1) : m \in DOMAIN channel
  BY <1>1
<1>4. S \in SUBSET Operation /\ StoredOp(n) \in Operation
  BY <1>1, <1>2, <1>3
<1>5. /\ \A m \in DOMAIN channel : Published[m] = StoredOp(m)
      /\ DOMAIN Published = 1..Len(channel)
  BY <1>1 DEF Published, StoredOp
<1>6. s \in Seq(S)
  <2> DEFINE O == Operation
             P == Published
             k == n - 1
  <2>1. \A m \in 1..k : P[m] \in S
    BY <1>3, <1>5
  <2>2. P \in Seq(O)
    <3>1. P = [m \in 1..Len(channel) |-> StoredOp(m)]
      BY <1>1 DEF Published, StoredOp
    <3>2. \A m \in 1..Len(channel) : StoredOp(m) \in O
      BY <1>1, <1>2
    <3> HIDE DEF O, P
    <3>3. QED
      BY <1>1, <3>1, <3>2
  <2>3. k \in Nat /\ k <= Len(P) /\ SubSeq(P, 1, k) = s
    <3>1. DOMAIN P = 1..Len(channel) /\ k \in Nat /\ k <= Len(channel)
      BY <1>1, <1>5
    <3>2. Len(P) = Len(channel)
      <4> HIDE DEF P, O, k
      <4>1. QED
        BY <1>1, <2>2, <3>1
    <3>3. QED
      BY <3>1, <3>2
  <2> HIDE DEF O, P, S, s, k
  <2>4. /\ s \in Seq(O) /\ Len(s) = k
        /\ \A m \in 1..k : s[m] = P[m]
    BY <2>2, <2>3
  <2>5. \A m \in 1..Len(s) : s[m] \in S
    BY <2>1, <2>4
  <2>6. QED
    BY <2>4, <2>5, SeqOfMembers
<1> HIDE DEF S
<1>7. ApplyStaysIn(V, S)
  BY <1>4, BuiltApply DEF ApplyStaysIn, Built
<1>8. EmptyDoc \in V
  BY EmptyIsBuilt DEF Built
<1> HIDE DEF V, s
<1>9. FoldLeft(Apply, EmptyDoc, s) \in V
  BY <1>6, <1>7, <1>8, FoldApplyStays DEF Replayed
<1>10. Applicable(FoldLeft(Apply, EmptyDoc, s), StoredOp(n))
  BY <1>1, <1>5 DEF Orderly, s
<1>11. ToSet(FoldLeft(Apply, EmptyDoc, s).list) \subseteq InsertedBy(S)
  BY <1>9 DEF V, Built
<1>12. Ready(StoredOp(n), ToSet(FoldLeft(Apply, EmptyDoc, s).list))
  BY <1>4, <1>10, ReadyIs
<1>13. Ready(StoredOp(n), InsertedBy(S))
  BY <1>11, <1>12, ReadyMore
<1>14. QED
  BY <1>13 DEF S

\* When nothing is under way, everything accepted was fanned out.
LEMMA QuietMeansFanned ==
    ASSUME TypeOK, JoinInv, Quiet, ~failed
    PROVE  FannedOps = Accepted
<1>1. FannedOps \subseteq Accepted
  BY ChannelIsStored
<1>2. \A k \in DOMAIN connections : connections[k].hand.stage = "idle"
  BY DEF Quiet, Idle
<1>3. ASSUME NEW op \in Accepted PROVE op \in FannedOps
  <2>1. PICK i \in DOMAIN log : op = log[i].op
    BY <1>2, AcceptedIs DEF Storing
  <2>2. i \in ToSet(channel)
    BY <1>2 DEF JoinInv, StoredIsPublished
  <2>3. PICK n \in DOMAIN channel : channel[n] = i
    BY <2>2 DEF ToSet
  <2>4. n \in 1..fanned
    BY <2>3, ChannelIsStored DEF Quiet
  <2>5. QED
    BY <2>1, <2>3, <2>4 DEF FannedOps, StoredOp
<1>4. QED
  BY <1>1, <1>3

\* Where nobody drew a UID twice, a UID means one insert.
LEMMA OrderlyMeansOneOp ==
    ASSUME TypeOK, JoinInv, Quiet, Orderly
    PROVE  OneOpPerUid(Inserting(Accepted))
<1> SUFFICES ASSUME NEW o1 \in Inserting(Accepted), NEW o2 \in Inserting(Accepted), o1.uid = o2.uid
             PROVE  o1 = o2
  BY DEF OneOpPerUid
<1>1. \A k \in DOMAIN connections : ~Storing(k)
  BY DEF Quiet, Idle, Storing
<1>2. PICK i \in DOMAIN log : o1 = log[i].op
  BY <1>1, AcceptedIs DEF Inserting
<1>3. PICK j \in DOMAIN log : o2 = log[j].op
  BY <1>1, AcceptedIs DEF Inserting
<1>4. log[i].nonce = log[j].nonce
  BY <1>2, <1>3 DEF Orderly, Inserting
<1>5. log[i] \in Issued /\ log[j] \in Issued
  BY IssuedIs
<1>6. QED
  BY <1>2, <1>3, <1>4, <1>5 DEF JoinInv, IssuedOnce

\* Who got all nodes in JOIN_ACK shows the document when nothing is under way,
\* whatever was applied, stored, published and fanned out between the steps of
\* its JOIN, as long as no operation met a gap and no UID was drawn twice
\* (websocket-server.ts, handleJoin; pubsub fan-out).
THEOREM JoinersAreCurrent == Spec => []JoinerIsCurrent
<1>1. TypeOK /\ SyncInv /\ JoinInv => JoinerIsCurrent
  <2> SUFFICES ASSUME TypeOK, SyncInv, JoinInv, Quiet, Orderly,
                      NEW c \in Clients, conn[c] # 0, connections[conn[c]].whole
               PROVE  doc[c] = memory
    BY DEF JoinerIsCurrent
  <2> DEFINE k == conn[c]
  <2>1. k \in DOMAIN connections /\ connections[k] \in Connection
    BY ConnParts
  <2>2. connections[k].inbox = << >> /\ connections[k].out = << >> /\ ToSet(<< >>) = {}
    BY <2>1 DEF Quiet, ToSet
  <2>3. connections[k].socket = "open"
    BY <2>1, <2>2, ConnectionParts DEF SyncInv, Connected, AtOneEnd
  <2>4. ~gap /\ ~failed
    BY DEF Orderly
  <2>5. PICK a \in Nat : Following(c, a)
    BY <2>3, <2>4, OrderlyIsReady DEF JoinInv, JoinerFollows, GotWhole
  <2>6. a = 0
    BY <2>2, <2>5 DEF Following
  <2>7. Follows(doc[c], << >>, 0, Shared(c), log, FannedOps)
    BY <2>2, <2>5, <2>6 DEF Following
  <2>8. Awaited(<< >>, 0) = {}
    BY DEF Awaited
  <2>9. Shared(c) = Accepted
    BY <2>2 DEF Shared, OpsOf
  <2>10. Built(doc[c], Accepted) /\ \A op \in Accepted : Shows(doc[c], op)
    BY <2>4, <2>7, <2>8, <2>9, QuietMeansFanned DEF Follows
  <2>11. Built(memory, Accepted) /\ \A op \in Accepted : Shows(memory, op)
    BY <2>4 DEF JoinInv, MemoryShows
  <2>12. Accepted \in SUBSET Operation /\ AboveAnchors(Inserting(Accepted))
    BY AcceptedTypes DEF JoinInv
  <2>13. QED
    BY <2>10, <2>11, <2>12, OrderlyMeansOneOp, BuiltOnce
<1>2. QED
  BY <1>1, JoinInvariance, PTL
=============================================================================
