------------------------- MODULE ReplicatedDocument -------------------------
(***************************************************************************)
(* What collaborative editing promises, whatever carries the operations:   *)
(* replicas of one document, some of them writing sites, exchange the      *)
(* operations their users produce. A replica applies an operation any time *)
(* after its causal predecessors and any number of times.                  *)
(*                                                                         *)
(* A site is a browser tab's ClientRGADocument (src/client/crdt/           *)
(* client-rga.ts); a replica that is no site is a server's RGADocument     *)
(* (src/crdt/rga-document.ts), which runs the same algorithm but types     *)
(* nothing. LiveEditing implements this module.                            *)
(***************************************************************************)
EXTENDS RGA

CONSTANTS
    Replicas,   \* every copy of the document
    Sites,      \* the copies somebody types into
    MaxClock    \* bound: a site stops typing when its clock reaches it

ASSUME SitesAssumption == Sites \subseteq Replicas /\ Sites \subseteq Nat \ {0}

ASSUME MaxClockAssumption == MaxClock \in Nat

VARIABLES
    list,   \* list[r]: the UIDs replica r holds, in document order
    tomb,   \* tomb[r]: those of them that are tombstoned
    clock,  \* clock[s]: the Lamport clock of site s
    ops     \* the operations produced so far

vars == <<list, tomb, clock, ops>>

doc(r) == [list |-> list[r], tomb |-> tomb[r]]

Inserts == {op \in ops : op.type = "INSERT"}

Operations ==
    [type : {"INSERT"}, uid : UID(Sites), after : UID(Sites) \cup {Root}]
        \cup [type : {"DELETE"}, uid : UID(Sites)]

TypeOK ==
    /\ list \in [Replicas -> Seq(UID(Sites))]
    /\ tomb \in [Replicas -> SUBSET UID(Sites)]
    /\ clock \in [Sites -> Nat]
    /\ ops \subseteq Operations

Init ==
    /\ list = [r \in Replicas |-> << >>]
    /\ tomb = [r \in Replicas |-> {}]
    /\ clock = [s \in Sites |-> 0]
    /\ ops = {}

----------------------------------------------------------------------------
(* The clock a replica takes from a remote insert it applies. *)

KeepClock(r, op) == clock

AdvanceClock(r, op) ==
    IF r \in Sites /\ op.type = "INSERT" /\ ~Holds(list[r], op.uid)
                   /\ op.uid.clock > clock[r]
    THEN [clock EXCEPT ![r] = op.uid.clock]
    ELSE clock

\* localInsert: a fresh UID behind the root or behind a visible character,
\* applied at once.
LocalInsert(s) ==
    /\ clock[s] < MaxClock
    /\ \E a \in {Root} \cup VisibleUids(doc(s)) :
          LET u == [clock |-> clock[s] + 1, site |-> s]
          IN /\ list' = [list EXCEPT ![s] = Place(@, a, u)]
             /\ clock' = [clock EXCEPT ![s] = @ + 1]
             /\ ops' = ops \cup {InsertOp(u, a)}
    /\ UNCHANGED tomb

\* A delete whose index counts the root sentinel as a character.
LocalDeleteFromRoot(s) ==
    /\ \E u \in {Root} \cup VisibleUids(doc(s)) :
          /\ tomb' = [tomb EXCEPT ![s] = @ \cup {u}]
          /\ ops' = ops \cup {DeleteOp(u)}
    /\ UNCHANGED <<list, clock>>

\* localDelete: tombstone a visible character.
LocalDelete(s) ==
    /\ \E u \in VisibleUids(doc(s)) :
          /\ tomb' = [tomb EXCEPT ![s] = @ \cup {u}]
          /\ ops' = ops \cup {DeleteOp(u)}
    /\ UNCHANGED <<list, clock>>

\* applyOperation of an operation whose predecessors the replica holds.
Deliver(r, op) ==
    /\ Applicable(doc(r), op)
    /\ list' = [list EXCEPT ![r] = Apply(doc(r), op).list]
    /\ tomb' = [tomb EXCEPT ![r] = Apply(doc(r), op).tomb]
    /\ clock' = AdvanceClock(r, op)
    /\ UNCHANGED ops

Next ==
    \/ \E s \in Sites : LocalInsert(s)
    \/ \E s \in Sites : LocalDelete(s)
    \/ \E r \in Replicas : \E op \in ops : Deliver(r, op)

Spec == Init /\ [][Next]_vars

----------------------------------------------------------------------------
(* The promises. *)

\* No two characters ever share a UID: an insert operation is determined by
\* its UID (src/crdt/uid.ts promises global uniqueness from a monotone clock).
UidsUnique == \A o1, o2 \in Inserts : o1.uid = o2.uid => o1 = o2

\* A character's clock is above its anchor's and no replica's clock is below
\* a UID it holds: what makes the scan of applyInsert stop in one place on
\* every replica.
ClocksDominate ==
    /\ \A op \in Inserts : op.after.clock < op.uid.clock
    /\ \A s \in Sites : \A u \in ToSet(list[s]) : u.clock <= clock[s]

\* Two replicas that hold two characters show them in the same order, even
\* while they hold different sets of operations.
OrderAgreement ==
    \A r, s \in Replicas :
        \A i, j \in DOMAIN list[r] : \A k, l \in DOMAIN list[s] :
            list[r][i] = list[s][k] /\ list[r][j] = list[s][l] => (i < j <=> k < l)

\* Replicas that have applied the same operations hold the same document.
Convergence ==
    \A r, s \in Replicas :
        ToSet(list[r]) = ToSet(list[s]) => list[r] = list[s]

\* What a user types appears where the cursor was: directly behind its anchor.
TypedAtCursor ==
    [][\A op \in ops' \ ops :
          op.type = "INSERT" =>
             LET s == op.uid.site
             IN Position(list'[s], op.uid) = Position(list'[s], op.after) + 1]_vars
=============================================================================
