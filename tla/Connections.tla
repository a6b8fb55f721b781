---------------------------- MODULE Connections ----------------------------
(***************************************************************************)
(* Connections to one worker and the presence records of one document      *)
(* (src/server/transport/websocket-server.ts, session-manager.ts,          *)
(* src/server/sync/presence-manager.ts): the gate for sockets that have    *)
(* not joined, the timeout of a JOIN, the heartbeat, the disconnect and    *)
(* the records in Redis with their TTL.                                    *)
(*                                                                         *)
(* Time goes in ticks of ten seconds. What takes less than that (the 3 s   *)
(* of a typing timer, a pong, a Redis command) happens between two ticks.  *)
(***************************************************************************)
EXTENDS Integers, FiniteSets

CONSTANTS
    Conns,              \* connections, each of which is made once
    Members,            \* those of users who may see the document
    MaxPendingAuth,     \* MAX_PENDING_AUTH
    JoinTimeout,        \* ticks: the 10 s of joinTimeout
    HeartbeatInterval,  \* ticks: heartbeatIntervalMs
    IdleLimit,          \* ticks: heartbeatTimeoutMs * 2
    PresenceTTL,        \* ticks: PRESENCE_TTL_SECONDS
    MaxEarly            \* bound: messages of a client before its JOIN_ACK

ASSUME ConnsAssumption == IsFiniteSet(Conns) /\ Members \subseteq Conns

ASSUME LimitsAssumption ==
    /\ MaxPendingAuth \in Nat \ {0} /\ MaxEarly \in Nat
    /\ JoinTimeout \in Nat \ {0} /\ HeartbeatInterval \in Nat \ {0}
    /\ IdleLimit \in Nat /\ PresenceTTL \in Nat \ {0}

VARIABLES
    socket,            \* socket[c]: readyState as the server has it
    silent,            \* those whose peer is gone without a word
    pendingAuthCount,
    timer,             \* timer[c]: its joinTimeout
    waited,            \* waited[c]: ticks the timer has run
    stage,             \* stage[c]: how far its JOIN is
    early,             \* early[c]: messages it sent before its JOIN_ACK
    sessions,          \* the connections that have a session in the map
    alive,             \* the sessions with isAlive
    idle,              \* idle[c]: ticks since lastActivity, as far as it matters
    queued,            \* the sessions with a PRESENCE waiting behind an OPERATION
    typing,            \* the sessions with a typing timer
    record,            \* record[c]: ticks since its record was set; at PresenceTTL there is none
    clock,             \* ticks since the last heartbeat
    missed,            \* ghost: heartbeats since the peer of a session fell silent
    orphans,           \* ghost: sessions registered after their socket had closed
    undead             \* ghost: those whose record was written after its DEL, or whose DEL failed

gateVars == <<pendingAuthCount, timer, waited>>
joinVars == <<stage, early>>
sessionVars == <<sessions, alive, idle, queued, typing>>
ghostVars == <<missed, orphans, undead>>
vars == <<socket, silent, gateVars, joinVars, sessionVars, record, clock, ghostVars>>

Attached(c) == socket[c] \in {"open", "closing"}

Smaller(m, n) == IF m <= n THEN m ELSE n

ConnTypeOK ==
    /\ socket \in [Conns -> {"none", "refused", "open", "closing", "closed"}]
    /\ silent \subseteq Conns
    /\ pendingAuthCount \in Int /\ pendingAuthCount <= MaxPendingAuth
    /\ timer \in [Conns -> {"none", "running", "fired", "cleared"}]
    /\ waited \in [Conns -> 0..JoinTimeout]
    /\ stage \in [Conns -> {"waiting", "joining", "failed", "stuck", "joined"}]
    /\ early \in [Conns -> 0..MaxEarly]
    /\ sessions \subseteq {c \in Members : stage[c] \in {"stuck", "joined"}}
    /\ alive \subseteq Conns
    /\ idle \in [Conns -> 0..(IdleLimit + 1)]
    /\ queued \subseteq Conns /\ typing \subseteq Conns
    /\ record \in [Conns -> 0..PresenceTTL]
    /\ clock \in 0..HeartbeatInterval
    /\ missed \in [Conns -> 0..2]
    /\ orphans \subseteq Conns /\ undead \subseteq Conns

Init ==
    /\ socket = [c \in Conns |-> "none"]
    /\ silent = {}
    /\ pendingAuthCount = 0
    /\ timer = [c \in Conns |-> "none"]
    /\ waited = [c \in Conns |-> 0]
    /\ stage = [c \in Conns |-> "waiting"]
    /\ early = [c \in Conns |-> 0]
    /\ sessions = {} /\ alive = {} /\ queued = {} /\ typing = {}
    /\ idle = [c \in Conns |-> 0]
    /\ record = [c \in Conns |-> PresenceTTL]
    /\ clock = 0
    /\ missed = [c \in Conns |-> 0] /\ orphans = {} /\ undead = {}

----------------------------------------------------------------------------
(* The gate and the JOIN. *)

\* One too many.
ConnectOneMore(c) ==
    /\ socket[c] = "none"
    /\ IF pendingAuthCount > MaxPendingAuth
       THEN socket' = [socket EXCEPT ![c] = "refused"] /\ UNCHANGED <<pendingAuthCount, timer>>
       ELSE /\ socket' = [socket EXCEPT ![c] = "open"]
            /\ timer' = [timer EXCEPT ![c] = "running"]
            /\ pendingAuthCount' = pendingAuthCount + 1
    /\ UNCHANGED <<silent, waited, joinVars, sessionVars, record, clock, ghostVars>>

Connect(c) ==
    /\ socket[c] = "none"
    /\ IF pendingAuthCount >= MaxPendingAuth
       THEN socket' = [socket EXCEPT ![c] = "refused"] /\ UNCHANGED <<pendingAuthCount, timer>>
       ELSE /\ socket' = [socket EXCEPT ![c] = "open"]
            /\ timer' = [timer EXCEPT ![c] = "running"]
            /\ pendingAuthCount' = pendingAuthCount + 1
    /\ UNCHANGED <<silent, waited, joinVars, sessionVars, record, clock, ghostVars>>

StopTimer(c) ==
    /\ timer' = [timer EXCEPT ![c] = IF @ = "running" THEN "cleared" ELSE @]
    /\ waited' = [waited EXCEPT ![c] = 0]

\* Any message while there is no session: it is taken for a JOIN, which the
\* first one may be, and counted as one that waits no more. It may also come
\* while the server is closing the socket. (The hook sends one JOIN when its
\* socket opens, and then whatever is typed before the JOIN_ACK.)
EarlyMessage(c) ==
    /\ Attached(c) /\ c \notin silent /\ c \notin sessions
    /\ early[c] < MaxEarly
    /\ early' = [early EXCEPT ![c] = @ + 1]
    /\ StopTimer(c)
    /\ pendingAuthCount' = pendingAuthCount - 1
    /\ \/ /\ stage[c] = "waiting"
          /\ stage' = [stage EXCEPT ![c] = "joining"]
          /\ UNCHANGED socket
       \/ /\ stage' = [stage EXCEPT ![c] = IF @ = "waiting" THEN "failed" ELSE @]
          /\ socket' = [socket EXCEPT ![c] = "closing"]
    /\ UNCHANGED <<silent, sessionVars, record, clock, ghostVars>>

\* The slot of a socket that said nothing is not given back.
JoinTimesOutUncounted(c) ==
    /\ timer[c] = "running" /\ waited[c] = JoinTimeout
    /\ timer' = [timer EXCEPT ![c] = "fired"] /\ waited' = [waited EXCEPT ![c] = 0]
    /\ socket' = [socket EXCEPT ![c] = "closing"]
    /\ UNCHANGED <<silent, pendingAuthCount, joinVars, sessionVars, record, clock, ghostVars>>

\* It never closes the socket.
JoinTimesOutOpen(c) ==
    /\ timer[c] = "running" /\ waited[c] = JoinTimeout
    /\ timer' = [timer EXCEPT ![c] = "fired"] /\ waited' = [waited EXCEPT ![c] = 0]
    /\ pendingAuthCount' = pendingAuthCount - 1
    /\ UNCHANGED <<socket, silent, joinVars, sessionVars, record, clock, ghostVars>>

JoinTimesOut(c) ==
    /\ timer[c] = "running" /\ waited[c] = JoinTimeout
    /\ timer' = [timer EXCEPT ![c] = "fired"] /\ waited' = [waited EXCEPT ![c] = 0]
    /\ pendingAuthCount' = pendingAuthCount - 1
    /\ socket' = [socket EXCEPT ![c] = "closing"]
    /\ UNCHANGED <<silent, joinVars, sessionVars, record, clock, ghostVars>>

\* No permission, no document or no such user.
JoinFails(c) ==
    /\ stage[c] = "joining"
    /\ stage' = [stage EXCEPT ![c] = "failed"]
    /\ socket' = [socket EXCEPT ![c] = IF Attached(c) THEN "closing" ELSE @]
    /\ UNCHANGED <<silent, gateVars, early, sessionVars, record, clock, ghostVars>>

\* registerSession, whatever has become of the socket, and the first record.
\* When Redis fails behind it handleJoin ends there: the session stays and its
\* client gets no JOIN_ACK.
Register(c) ==
    /\ stage[c] = "joining" /\ c \in Members
    /\ \E outcome \in {"joined", "stuck"} : stage' = [stage EXCEPT ![c] = outcome]
    /\ sessions' = sessions \cup {c}
    /\ alive' = alive \cup {c}
    /\ idle' = [idle EXCEPT ![c] = 0]
    /\ record' = [record EXCEPT ![c] = 0]
    /\ orphans' = IF Attached(c) THEN orphans ELSE orphans \cup {c}
    /\ UNCHANGED <<socket, silent, gateVars, early, queued, typing, clock, missed, undead>>

----------------------------------------------------------------------------
(* A session's messages. *)

Send(c) ==
    /\ Attached(c) /\ c \notin silent /\ c \in sessions
    /\ IF stage[c] = "stuck"
       THEN early[c] < MaxEarly /\ early' = [early EXCEPT ![c] = @ + 1]
       ELSE UNCHANGED early
    /\ idle' = [idle EXCEPT ![c] = 0]
    /\ queued' \in {queued, queued \cup {c}}
    /\ UNCHANGED <<socket, silent, gateVars, stage, sessions, alive, typing, record, clock, ghostVars>>

\* The SET of updatePresence.
Set(c) ==
    /\ record' = [record EXCEPT ![c] = 0]
    /\ undead' = IF c \in sessions THEN undead ELSE undead \cup {c}

\* handleClientPresence, when the handler of the operation before it is done:
\* the loop over the queue does not ask whether the session is still there.
HandlePresence(c) ==
    /\ c \in queued
    /\ queued' = queued \ {c}
    /\ typing' \in {typing \cup {c}, typing \ {c}}
    /\ Set(c)
    /\ UNCHANGED <<socket, silent, gateVars, joinVars, sessions, alive, idle, clock, missed, orphans>>

\* The timer does not ask either.
StopTypingOfAnyone(c) ==
    /\ c \in typing
    /\ typing' = typing \ {c}
    /\ record' = [record EXCEPT ![c] = 0]
    /\ UNCHANGED <<socket, silent, gateVars, joinVars, sessions, alive, idle, queued, clock, ghostVars>>

\* The typing timer. It does ask.
StopTyping(c) ==
    /\ c \in typing
    /\ typing' = typing \ {c}
    /\ IF c \in sessions THEN Set(c) ELSE UNCHANGED <<record, undead>>
    /\ UNCHANGED <<socket, silent, gateVars, joinVars, sessions, alive, idle, queued, clock, missed, orphans>>

----------------------------------------------------------------------------
(* The heartbeat, and how connections end. *)

Pong(c) ==
    /\ socket[c] = "open" /\ c \notin silent /\ c \in sessions \ alive
    /\ alive' = alive \cup {c}
    /\ UNCHANGED <<socket, silent, gateVars, joinVars, sessions, idle, queued, typing, record, clock, ghostVars>>

\* Only those that have joined.
BeatingJoined == {c \in sessions : Attached(c) /\ stage[c] = "joined"}

Beating == {c \in sessions : Attached(c)}

\* The sockets of sessions that have not answered the last ping, or have sent
\* no message for too long, are terminated; the others are pinged.
Cut == {c \in Beating : c \notin alive \/ idle[c] > IdleLimit}

Beat ==
    /\ clock = HeartbeatInterval
    /\ clock' = 0
    /\ socket' = [c \in Conns |-> IF c \in Cut THEN "closing" ELSE socket[c]]
    /\ alive' = alive \ Beating
    /\ missed' = [c \in Conns |-> IF c \in sessions \cap silent THEN Smaller(2, missed[c] + 1) ELSE missed[c]]
    /\ UNCHANGED <<silent, gateVars, joinVars, sessions, idle, queued, typing, record, orphans, undead>>

\* The close event, from a peer that closes, a connection that breaks or a
\* socket the server has closed: handleDisconnect removes the session and the
\* record, if there is a session by now.
Close(c) ==
    /\ Attached(c)
    /\ socket[c] = "open" => c \notin silent
    /\ socket' = [socket EXCEPT ![c] = "closed"]
    /\ silent' = silent \ {c}
    /\ StopTimer(c)
    /\ sessions' = sessions \ {c}
    /\ alive' = alive \ {c}
    /\ idle' = [idle EXCEPT ![c] = 0]
    /\ missed' = [missed EXCEPT ![c] = 0]
    /\ IF c \in sessions
       THEN \/ record' = [record EXCEPT ![c] = PresenceTTL] /\ UNCHANGED undead
            \/ undead' = undead \cup {c} /\ UNCHANGED record
       ELSE UNCHANGED <<record, undead>>
    /\ UNCHANGED <<pendingAuthCount, joinVars, queued, typing, clock, orphans>>

FallSilent(c) ==
    /\ socket[c] = "open"
    /\ silent' = silent \cup {c}
    /\ UNCHANGED <<socket, gateVars, joinVars, sessionVars, record, clock, ghostVars>>

\* Records are set without a TTL.
TickWithoutTTL ==
    /\ clock < HeartbeatInterval
    /\ typing = {}
    /\ \A c \in Conns : timer[c] = "running" => waited[c] < JoinTimeout
    /\ \A c \in sessions \ silent : socket[c] = "open" => c \in alive
    /\ clock' = clock + 1
    /\ waited' = [c \in Conns |-> IF timer[c] = "running" THEN waited[c] + 1 ELSE waited[c]]
    /\ idle' = [c \in Conns |-> IF c \in sessions THEN Smaller(IdleLimit + 1, idle[c] + 1) ELSE idle[c]]
    /\ UNCHANGED <<socket, silent, pendingAuthCount, timer, joinVars, sessions, alive, queued, typing,
                   record, ghostVars>>

\* A timer that has run out goes off before the next tick, and a client that
\* has been pinged and is there has answered by then.
Tick ==
    /\ clock < HeartbeatInterval
    /\ typing = {}
    /\ \A c \in Conns : timer[c] = "running" => waited[c] < JoinTimeout
    /\ \A c \in sessions \ silent : socket[c] = "open" => c \in alive
    /\ clock' = clock + 1
    /\ waited' = [c \in Conns |-> IF timer[c] = "running" THEN waited[c] + 1 ELSE waited[c]]
    /\ idle' = [c \in Conns |-> IF c \in sessions THEN Smaller(IdleLimit + 1, idle[c] + 1) ELSE idle[c]]
    /\ record' = [c \in Conns |-> Smaller(PresenceTTL, record[c] + 1)]
    /\ UNCHANGED <<socket, silent, pendingAuthCount, timer, joinVars, sessions, alive, queued, typing, ghostVars>>

Joining(c) == Connect(c) \/ EarlyMessage(c) \/ JoinTimesOut(c) \/ JoinFails(c) \/ Register(c)

Working(c) == Send(c) \/ HandlePresence(c) \/ StopTyping(c) \/ Pong(c)

Next ==
    \/ \E c \in Conns : Joining(c) \/ Working(c) \/ Close(c) \/ FallSilent(c)
    \/ Beat \/ Tick

\* Time passes, timers go off, queries and handlers end, and a socket that is
\* being closed gets its close event (ws destroys it after a while if the peer
\* does not answer). Nobody is obliged to send anything or to stay.
Fairness ==
    /\ SF_vars(Tick) /\ WF_vars(Beat)
    /\ \A c \in Conns :
          /\ WF_vars(JoinTimesOut(c)) /\ WF_vars(JoinFails(c) \/ Register(c))
          /\ WF_vars(HandlePresence(c)) /\ WF_vars(StopTyping(c)) /\ WF_vars(Pong(c))
          /\ WF_vars(socket[c] = "closing" /\ Close(c))

Spec == Init /\ [][Next]_vars

FairSpec == Spec /\ Fairness

----------------------------------------------------------------------------
\* pendingAuthCount is the number of sockets that wait for their JOIN ("Track
\* unauthenticated connections"), although it goes up at one place and down at
\* two, in callbacks that race each other, as long as nobody closes before his
\* first message and nobody sends a second one before his session exists.
GateIsExact ==
    (\A c \in Conns :
        /\ early[c] <= 1 /\ (timer[c] = "fired" => early[c] = 0)
        /\ socket[c] = "closed" => early[c] = 1 \/ timer[c] = "fired")
    => pendingAuthCount = Cardinality({c \in Conns : timer[c] = "running"})

\* A peer that goes away without closing is cut at the second heartbeat at the
\* latest (startHeartbeat: "Clients that don't respond ... are terminated",
\* though not within the HEARTBEAT_TIMEOUT_MS of that comment), whenever it
\* sent its last message, pong or JOIN.
SilentPeerIsCut == \A c \in sessions \cap silent : socket[c] = "open" => missed[c] <= 1

SessionsHaveSockets == \A c \in sessions : Attached(c) \/ c \in orphans

RecordsOfSessions == \A c \in Conns \ sessions : record[c] # PresenceTTL => c \in undead

\* What a connection leaves behind. A session whose socket has closed was
\* registered after that, by a JOIN that was still under way, and nothing ever
\* removes it; every other one goes with its socket, whatever its stage. When
\* a session is gone its record is gone, whatever timers and messages it has
\* left behind, unless its queue was still being worked off or Redis refused
\* the DEL.
NoGhosts == SessionsHaveSockets /\ RecordsOfSessions

\* In these cases, and for orphans, the TTL takes the record away.
RecordsFade ==
    \A c \in Conns :
        (socket[c] = "closed" /\ stage[c] # "joining") ~> (record[c] = PresenceTTL)

\* Nobody hangs: a socket that was accepted gets its JOIN_ACK or is closed,
\* by the timeout, by a JOIN that fails, or, when the JOIN broke off behind
\* its registration, by the heartbeat.
EveryoneIsAnswered ==
    \A c \in Conns : (socket[c] = "open") ~> (stage[c] = "joined" \/ socket[c] = "closed")
=============================================================================
