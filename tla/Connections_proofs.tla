-------------------------- MODULE Connections_proofs --------------------------
(***************************************************************************)
(* Proofs about Connections, for any number of connections and any limits: *)
(* the gate counts the sockets that wait for their JOIN, sessions and      *)
(* presence records go with their sockets, and the heartbeat cuts peers    *)
(* that have fallen silent.                                                *)
(***************************************************************************)
EXTENDS Connections, FiniteSetTheorems, TLAPS

Running == {c \in Conns : timer[c] = "running"}

\* A timer runs exactly while its socket is there and has said nothing, until
\* it goes off.
TimersWait ==
    \A c \in Conns :
        /\ timer[c] = "running" => Attached(c) /\ early[c] = 0
        /\ Attached(c) /\ early[c] = 0 => timer[c] \in {"running", "fired"}
        /\ socket[c] \in {"none", "refused"} => timer[c] = "none" /\ early[c] = 0
        /\ stage[c] # "waiting" => early[c] > 0

\* Heartbeats are missed by sessions whose peers are silent only, and the
\* first one takes the flag that only a pong brings back.
HeartbeatsMissed ==
    \A c \in Conns :
        /\ missed[c] > 0 => c \in sessions \cap silent
        /\ missed[c] > 0 /\ socket[c] = "open" => c \notin alive

IInv ==
    /\ ConnTypeOK /\ TimersWait /\ GateIsExact
    /\ NoGhosts /\ HeartbeatsMissed /\ SilentPeerIsCut

\* No socket is there at the start.
LEMMA InitIInv == Init => IInv
<1> SUFFICES ASSUME Init PROVE IInv
  OBVIOUS
<1>1. ConnTypeOK
  BY ConnsAssumption, LimitsAssumption DEF Init, ConnTypeOK
<1>2. TimersWait
  BY DEF Init, TimersWait, Attached
<1>3. GateIsExact
  <2>1. {c \in Conns : timer[c] = "running"} = {}
    BY DEF Init
  <2>2. QED
    BY <2>1, FS_EmptySet DEF Init, GateIsExact
<1>4. NoGhosts /\ HeartbeatsMissed /\ SilentPeerIsCut
  BY DEF Init, NoGhosts, SessionsHaveSockets, RecordsOfSessions, HeartbeatsMissed, SilentPeerIsCut
<1>5. QED
  BY <1>1, <1>2, <1>3, <1>4 DEF IInv

----------------------------------------------------------------------------
(* Types and timers. *)

\* Every step keeps the types: the counter stays at its limit because Connect
\* asks first and all others take from it.
LEMMA TypesKept == IInv /\ [Next]_vars => ConnTypeOK'
<1> SUFFICES ASSUME IInv, [Next]_vars PROVE ConnTypeOK'
  OBVIOUS
<1> USE ConnsAssumption, LimitsAssumption DEF IInv, ConnTypeOK
<1>1. ASSUME NEW c \in Conns, Joining(c) PROVE ConnTypeOK'
  <2>1. CASE Connect(c)
    BY <2>1 DEF Connect, joinVars, sessionVars, ghostVars
  <2>2. CASE EarlyMessage(c)
    BY <2>2 DEF EarlyMessage, StopTimer, sessionVars, ghostVars
  <2>3. CASE JoinTimesOut(c)
    BY <2>3 DEF JoinTimesOut, joinVars, sessionVars, ghostVars
  <2>4. CASE JoinFails(c)
    BY <2>4 DEF JoinFails, gateVars, sessionVars, ghostVars
  <2>5. CASE Register(c)
    BY <2>5 DEF Register, gateVars
  <2>6. QED
    BY <1>1, <2>1, <2>2, <2>3, <2>4, <2>5 DEF Joining
<1>2. ASSUME NEW c \in Conns, Working(c) PROVE ConnTypeOK'
  <2>1. CASE Send(c)
    BY <2>1 DEF Send, gateVars, ghostVars
  <2>2. CASE HandlePresence(c)
    BY <2>2 DEF HandlePresence, Set, gateVars, joinVars
  <2>3. CASE StopTyping(c)
    BY <2>3 DEF StopTyping, Set, gateVars, joinVars
  <2>4. CASE Pong(c)
    BY <2>4 DEF Pong, gateVars, joinVars, ghostVars
  <2>5. QED
    BY <1>2, <2>1, <2>2, <2>3, <2>4 DEF Working
<1>3. ASSUME NEW c \in Conns, Close(c) PROVE ConnTypeOK'
  BY <1>3 DEF Close, StopTimer, joinVars
<1>4. ASSUME NEW c \in Conns, FallSilent(c) PROVE ConnTypeOK'
  BY <1>4 DEF FallSilent, gateVars, joinVars, sessionVars, ghostVars
<1>5. CASE Beat
  BY <1>5 DEF Beat, gateVars, joinVars, Smaller
<1>6. CASE Tick
  BY <1>6 DEF Tick, joinVars, ghostVars, Smaller
<1>7. CASE UNCHANGED vars
  BY <1>7 DEF vars, gateVars, joinVars, sessionVars, ghostVars
<1>8. QED
  BY <1>1, <1>2, <1>3, <1>4, <1>5, <1>6, <1>7 DEF Next

\* Every step keeps the timers: who speaks stops his, who closes too, and a
\* socket is closed by the server only when its timer is over or stopped.
LEMMA TimersKept == IInv /\ [Next]_vars => TimersWait'
<1> SUFFICES ASSUME IInv, [Next]_vars PROVE TimersWait'
  OBVIOUS
<1> USE ConnsAssumption, LimitsAssumption DEF IInv, ConnTypeOK, TimersWait, Attached
<1>1. ASSUME NEW c \in Conns, Joining(c) PROVE TimersWait'
  <2>1. CASE Connect(c)
    BY <2>1 DEF Connect, joinVars, sessionVars, ghostVars
  <2>2. CASE EarlyMessage(c)
    BY <2>2 DEF EarlyMessage, StopTimer, sessionVars, ghostVars
  <2>3. CASE JoinTimesOut(c)
    BY <2>3 DEF JoinTimesOut, joinVars, sessionVars, ghostVars
  <2>4. CASE JoinFails(c)
    BY <2>4 DEF JoinFails, gateVars, sessionVars, ghostVars
  <2>5. CASE Register(c)
    BY <2>5 DEF Register, gateVars
  <2>6. QED
    BY <1>1, <2>1, <2>2, <2>3, <2>4, <2>5 DEF Joining
<1>2. ASSUME NEW c \in Conns, Working(c) PROVE TimersWait'
  <2>1. CASE Send(c)
    BY <2>1 DEF Send, gateVars, ghostVars
  <2>2. CASE HandlePresence(c)
    BY <2>2 DEF HandlePresence, Set, gateVars, joinVars
  <2>3. CASE StopTyping(c)
    BY <2>3 DEF StopTyping, Set, gateVars, joinVars
  <2>4. CASE Pong(c)
    BY <2>4 DEF Pong, gateVars, joinVars, ghostVars
  <2>5. QED
    BY <1>2, <2>1, <2>2, <2>3, <2>4 DEF Working
<1>3. ASSUME NEW c \in Conns, Close(c) PROVE TimersWait'
  BY <1>3 DEF Close, StopTimer, joinVars
<1>4. ASSUME NEW c \in Conns, FallSilent(c) PROVE TimersWait'
  BY <1>4 DEF FallSilent, gateVars, joinVars, sessionVars, ghostVars
<1>5. CASE Beat
  BY <1>5 DEF Beat, Cut, Beating, gateVars, joinVars
<1>6. CASE Tick
  BY <1>6 DEF Tick, joinVars, ghostVars
<1>7. CASE UNCHANGED vars
  BY <1>7 DEF vars, gateVars, joinVars, sessionVars, ghostVars
<1>8. QED
  BY <1>1, <1>2, <1>3, <1>4, <1>5, <1>6, <1>7 DEF Next

----------------------------------------------------------------------------
(* The gate. *)

\* What GateIsExact asks for: nobody closes before his first message, and
\* nobody sends a second one before his session exists.
Orderly ==
    \A c \in Conns :
        /\ early[c] <= 1 /\ (timer[c] = "fired" => early[c] = 0)
        /\ socket[c] = "closed" => early[c] = 1 \/ timer[c] = "fired"

\* Every step keeps the gate exact: connecting starts one timer and counts one
\* more; the first message stops it, or it goes off, and counts one less.
LEMMA GateKept == IInv /\ [Next]_vars => GateIsExact'
<1> SUFFICES ASSUME IInv, [Next]_vars, Orderly' PROVE GateIsExact'
  BY DEF GateIsExact, Orderly
<1> USE ConnsAssumption DEF Running
<1>1. /\ IsFiniteSet(Running) /\ Cardinality(Running) \in Nat
      /\ pendingAuthCount \in Int
  BY FS_Subset, FS_CardinalityType DEF IInv, ConnTypeOK
<1>2. Orderly => pendingAuthCount = Cardinality(Running)
  BY DEF IInv, GateIsExact, Orderly
<1>3. ASSUME pendingAuthCount' = Cardinality(Running') PROVE GateIsExact'
  BY <1>3 DEF GateIsExact
<1>4. ASSUME Orderly, pendingAuthCount' = pendingAuthCount, Running' = Running PROVE GateIsExact'
  BY <1>2, <1>3, <1>4
<1> HIDE DEF Running
<1>5. ASSUME NEW c \in Conns, Connect(c) PROVE GateIsExact'
  <2>1. Orderly
    BY <1>5 DEF IInv, ConnTypeOK, TimersWait, Orderly, Connect, joinVars
  <2>2. CASE socket'[c] = "refused"
    <3>1. pendingAuthCount' = pendingAuthCount /\ timer' = timer
      BY <1>5, <2>2 DEF IInv, ConnTypeOK, Connect
    <3>2. QED
      BY <1>4, <2>1, <3>1 DEF Running
  <2>3. CASE socket'[c] # "refused"
    <3>1. /\ timer' = [timer EXCEPT ![c] = "running"]
          /\ pendingAuthCount' = pendingAuthCount + 1 /\ timer[c] = "none"
      BY <1>5, <2>3 DEF IInv, ConnTypeOK, TimersWait, Connect
    <3>2. Running' = Running \cup {c} /\ c \notin Running
      BY <3>1 DEF IInv, ConnTypeOK, Running
    <3>3. QED
      BY <1>1, <1>2, <1>3, <2>1, <3>1, <3>2, FS_AddElement
  <2>4. QED
    BY <2>2, <2>3
<1>6. ASSUME NEW c \in Conns, EarlyMessage(c) PROVE GateIsExact'
  <2>1. /\ early[c] = 0 /\ timer[c] = "running" /\ Orderly
    BY <1>6 DEF IInv, ConnTypeOK, TimersWait, Attached, Orderly, EarlyMessage, StopTimer
  <2>2. Running' = Running \ {c} /\ c \in Running
    BY <1>6, <2>1 DEF IInv, ConnTypeOK, EarlyMessage, StopTimer, Running
  <2>3. pendingAuthCount' = pendingAuthCount - 1
    BY <1>6 DEF EarlyMessage
  <2>4. QED
    BY <1>1, <1>2, <1>3, <2>1, <2>2, <2>3, FS_RemoveElement
<1>7. ASSUME NEW c \in Conns, JoinTimesOut(c) PROVE GateIsExact'
  <2>1. Orderly
    BY <1>7 DEF IInv, ConnTypeOK, TimersWait, Attached, Orderly, JoinTimesOut, joinVars
  <2>2. Running' = Running \ {c} /\ c \in Running
    BY <1>7 DEF IInv, ConnTypeOK, JoinTimesOut, Running
  <2>3. pendingAuthCount' = pendingAuthCount - 1
    BY <1>7 DEF JoinTimesOut
  <2>4. QED
    BY <1>1, <1>2, <1>3, <2>1, <2>2, <2>3, FS_RemoveElement
<1>8. ASSUME NEW c \in Conns, Close(c) PROVE GateIsExact'
  <2>1. timer[c] # "running" /\ timer' = timer /\ Orderly
    BY <1>8 DEF IInv, ConnTypeOK, TimersWait, Attached, Orderly, Close, StopTimer, joinVars
  <2>2. QED
    BY <1>4, <1>8, <2>1 DEF Close, Running
<1>9. ASSUME \/ \E c \in Conns : \/ JoinFails(c) \/ Register(c) \/ Working(c) \/ FallSilent(c)
             \/ Beat \/ Tick \/ UNCHANGED vars
      PROVE  GateIsExact'
  <2>1. timer' = timer /\ pendingAuthCount' = pendingAuthCount
    BY <1>9 DEF JoinFails, Register, Working, Send, HandlePresence, StopTyping, Pong, FallSilent,
                Beat, Tick, vars, gateVars
  <2>2. \A c \in Conns : early[c] <= early'[c] /\ early[c] \in Nat /\ early'[c] \in Nat
    BY <1>9 DEF IInv, ConnTypeOK, JoinFails, Register, Working, Send, HandlePresence, StopTyping, Pong,
                FallSilent, Beat, Tick, vars, joinVars
  <2>3. \A c \in Conns : socket[c] = "closed" => socket'[c] = "closed" /\ timer[c] # "running"
    BY <1>9 DEF IInv, ConnTypeOK, TimersWait, Attached, JoinFails, Register, Working, Send, HandlePresence,
                StopTyping, Pong, FallSilent, Beat, Cut, Beating, Tick, vars
  <2>4. \A c \in Conns : socket[c] = "closed" => early'[c] = early[c]
    BY <1>9 DEF IInv, ConnTypeOK, Attached, JoinFails, Register, Working, Send, HandlePresence, StopTyping,
                Pong, FallSilent, Beat, Tick, vars, joinVars
  <2>5. Orderly
    BY <2>1, <2>2, <2>3, <2>4 DEF Orderly
  <2>6. QED
    BY <1>4, <2>1, <2>5 DEF Running
<1>10. QED
  BY <1>5, <1>6, <1>7, <1>8, <1>9 DEF Next, Joining

----------------------------------------------------------------------------
(* Sessions, records, heartbeats. *)

\* Every step keeps sessions and records with their sockets: close events
\* take both away, and nothing sets a record without asking for the session
\* but what is left of its queue.
LEMMA GhostsKept == IInv /\ [Next]_vars => NoGhosts'
<1> SUFFICES ASSUME IInv, [Next]_vars PROVE NoGhosts'
  OBVIOUS
<1> USE ConnsAssumption, LimitsAssumption
    DEF IInv, ConnTypeOK, NoGhosts, SessionsHaveSockets, RecordsOfSessions, Attached
<1>1. ASSUME NEW c \in Conns, Joining(c) PROVE NoGhosts'
  <2>1. CASE Connect(c)
    BY <2>1 DEF Connect, joinVars, sessionVars, ghostVars
  <2>2. CASE EarlyMessage(c)
    BY <2>2 DEF EarlyMessage, StopTimer, sessionVars, ghostVars
  <2>3. CASE JoinTimesOut(c)
    BY <2>3 DEF JoinTimesOut, joinVars, sessionVars, ghostVars
  <2>4. CASE JoinFails(c)
    BY <2>4 DEF JoinFails, gateVars, sessionVars, ghostVars
  <2>5. CASE Register(c)
    BY <2>5 DEF Register, gateVars
  <2>6. QED
    BY <1>1, <2>1, <2>2, <2>3, <2>4, <2>5 DEF Joining
<1>2. ASSUME NEW c \in Conns, Working(c) PROVE NoGhosts'
  <2>1. CASE Send(c)
    BY <2>1 DEF Send, gateVars, ghostVars
  <2>2. CASE HandlePresence(c)
    BY <2>2 DEF HandlePresence, Set, gateVars, joinVars
  <2>3. CASE StopTyping(c)
    BY <2>3 DEF StopTyping, Set, gateVars, joinVars
  <2>4. CASE Pong(c)
    BY <2>4 DEF Pong, gateVars, joinVars, ghostVars
  <2>5. QED
    BY <1>2, <2>1, <2>2, <2>3, <2>4 DEF Working
<1>3. ASSUME NEW c \in Conns, Close(c) PROVE NoGhosts'
  BY <1>3 DEF Close, StopTimer, joinVars
<1>4. ASSUME NEW c \in Conns, FallSilent(c) PROVE NoGhosts'
  BY <1>4 DEF FallSilent, gateVars, joinVars, sessionVars, ghostVars
<1>5. CASE Beat
  BY <1>5 DEF Beat, Cut, Beating, gateVars, joinVars
<1>6. CASE Tick
  BY <1>6 DEF Tick, joinVars, ghostVars, Smaller
<1>7. CASE UNCHANGED vars
  BY <1>7 DEF vars, gateVars, joinVars, sessionVars, ghostVars
<1>8. QED
  BY <1>1, <1>2, <1>3, <1>4, <1>5, <1>6, <1>7 DEF Next

\* Every step keeps what is known of silent peers: the first heartbeat takes
\* their flag, no pong brings it back, and the second one closes the socket.
LEMMA SilenceKept == IInv /\ [Next]_vars => HeartbeatsMissed' /\ SilentPeerIsCut'
<1> DEFINE P == HeartbeatsMissed /\ SilentPeerIsCut
<1> SUFFICES ASSUME IInv, [Next]_vars PROVE P'
  OBVIOUS
<1> USE ConnsAssumption, LimitsAssumption
    DEF IInv, ConnTypeOK, TimersWait, HeartbeatsMissed, SilentPeerIsCut, Attached
<1>1. ASSUME NEW c \in Conns, Joining(c) PROVE P'
  <2>1. CASE Connect(c)
    BY <2>1 DEF Connect, joinVars, sessionVars, ghostVars
  <2>2. CASE EarlyMessage(c)
    BY <2>2 DEF EarlyMessage, StopTimer, sessionVars, ghostVars
  <2>3. CASE JoinTimesOut(c)
    BY <2>3 DEF JoinTimesOut, joinVars, sessionVars, ghostVars
  <2>4. CASE JoinFails(c)
    BY <2>4 DEF JoinFails, gateVars, sessionVars, ghostVars
  <2>5. CASE Register(c)
    BY <2>5 DEF Register, gateVars
  <2>6. QED
    BY <1>1, <2>1, <2>2, <2>3, <2>4, <2>5 DEF Joining
<1>2. ASSUME NEW c \in Conns, Working(c) PROVE P'
  <2>1. CASE Send(c)
    BY <2>1 DEF Send, gateVars, ghostVars
  <2>2. CASE HandlePresence(c)
    BY <2>2 DEF HandlePresence, Set, gateVars, joinVars
  <2>3. CASE StopTyping(c)
    BY <2>3 DEF StopTyping, Set, gateVars, joinVars
  <2>4. CASE Pong(c)
    BY <2>4 DEF Pong, gateVars, joinVars, ghostVars
  <2>5. QED
    BY <1>2, <2>1, <2>2, <2>3, <2>4 DEF Working
<1>3. ASSUME NEW c \in Conns, Close(c) PROVE P'
  BY <1>3 DEF Close, StopTimer, joinVars
<1>4. ASSUME NEW c \in Conns, FallSilent(c) PROVE P'
  BY <1>4 DEF FallSilent, gateVars, joinVars, sessionVars, ghostVars
<1>5. CASE Beat
  BY <1>5 DEF Beat, Cut, Beating, gateVars, joinVars, Smaller
<1>6. CASE Tick
  BY <1>6 DEF Tick, joinVars, ghostVars
<1>7. CASE UNCHANGED vars
  BY <1>7 DEF vars, gateVars, joinVars, sessionVars, ghostVars
<1>8. QED
  BY <1>1, <1>2, <1>3, <1>4, <1>5, <1>6, <1>7 DEF Next

----------------------------------------------------------------------------
\* The inductive invariant of the connections.
THEOREM ConnectionsInvariance == Spec => []IInv
<1>1. IInv /\ [Next]_vars => IInv'
  BY TypesKept, TimersKept, GateKept, GhostsKept, SilenceKept DEF IInv
<1>2. QED
  BY <1>1, InitIInv, PTL DEF Spec

\* Types; the counter of sockets that have not joined never passes its limit
\* (MAX_PENDING_AUTH in websocket-server.ts).
THEOREM ConnectionsTypeCorrect == Spec => []ConnTypeOK
<1>1. IInv => ConnTypeOK
  BY DEF IInv
<1>2. QED
  BY <1>1, ConnectionsInvariance, PTL

\* pendingAuthCount counts the sockets whose joinTimeout is running, as long
\* as clients keep to what the gate expects of them.
THEOREM GateStaysExact == Spec => []GateIsExact
<1>1. IInv => GateIsExact
  BY DEF IInv
<1>2. QED
  BY <1>1, ConnectionsInvariance, PTL

\* handleDisconnect leaves no session and no presence record behind, but for
\* the cases NoGhosts names.
THEOREM SessionsLeaveNoGhosts == Spec => []NoGhosts
<1>1. IInv => NoGhosts
  BY DEF IInv
<1>2. QED
  BY <1>1, ConnectionsInvariance, PTL

\* The heartbeat closes the socket of a peer that has gone silent the second
\* time it comes round.
THEOREM HeartbeatCutsSilentPeers == Spec => []SilentPeerIsCut
<1>1. IInv => SilentPeerIsCut
  BY DEF IInv
<1>2. QED
  BY <1>1, ConnectionsInvariance, PTL
=============================================================================
