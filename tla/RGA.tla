-------------------------------- MODULE RGA --------------------------------
(***************************************************************************)
(* The Replicated Growable Array as operators on document values: the      *)
(* algorithm that server (src/crdt/rga-document.ts) and client             *)
(* (src/client/crdt/client-rga.ts) each implement.                         *)
(*                                                                         *)
(* The linked list with its index map is a sequence of UIDs, head first,   *)
(* without the root sentinel; the tombstoned flags are the set `tomb`.     *)
(* Character values and attributes carry no control and are left out, so   *)
(* a character is its UID.                                                 *)
(***************************************************************************)
EXTENDS Integers, SequencesExt

\* A UID is a Lamport clock and the site that drew it. Site names are only
\* ever compared, so they are naturals here; site 0 is ROOT_UID's.
UID(sites) == [clock : Nat, site : sites]

Root == [clock |-> 0, site |-> 0]

\* compareUID(u, v) < 0.
Less(u, v) == \/ u.clock < v.clock
              \/ u.clock = v.clock /\ u.site < v.site

Doc(uids) == [list : Seq(uids), tomb : SUBSET uids]

EmptyDoc == [list |-> << >>, tomb |-> {}]

InsertOp(u, a) == [type |-> "INSERT", uid |-> u, after |-> a]

DeleteOp(u) == [type |-> "DELETE", uid |-> u]

----------------------------------------------------------------------------
(* Looking a UID up in the index. *)

Holds(list, u) == u \in ToSet(list)

Position(list, u) ==
    IF u = Root THEN 0 ELSE CHOOSE i \in DOMAIN list : list[i] = u

Known(list, u) == u = Root \/ Holds(list, u)

VisibleUids(doc) == ToSet(doc.list) \ doc.tomb

\* The elements of s that are not in X, in their order.
Omit(s, X) == FoldLeft(LAMBDA kept, e : IF e \in X THEN kept ELSE Append(kept, e), << >>, s)

\* toText(), a character being its UID.
Text(doc) == Omit(doc.list, doc.tomb)

----------------------------------------------------------------------------
(* Applying operations. *)

\* Where the scan to the right of position p stops: every node it passed is
\* greater than u and the next one, if any, is not.
ScanRight(list, p, u) ==
    CHOOSE k \in p..Len(list) :
        /\ \A j \in (p + 1)..k : Less(u, list[j])
        /\ k < Len(list) => ~Less(u, list[k + 1])

\* The defect the scan exists to prevent: splice right behind the anchor.
PlaceNoScan(list, a, u) == InsertAt(list, Position(list, a) + 1, u)

\* Scan past lower UIDs instead of higher ones.
PlaceWrongOrder(list, a, u) ==
    LET p == Position(list, a)
        k == CHOOSE k \in p..Len(list) :
                /\ \A j \in (p + 1)..k : Less(list[j], u)
                /\ k < Len(list) => ~Less(list[k + 1], u)
    IN InsertAt(list, k + 1, u)

Place(list, a, u) ==
    InsertAt(list, ScanRight(list, Position(list, a), u) + 1, u)

\* applyInsert: nothing for a UID already held; the causal gap (anchor not in
\* the index) leaves the document alone, whether by exception or by return.
ApplyInsert(doc, op) ==
    IF Holds(doc.list, op.uid) \/ ~Known(doc.list, op.after)
    THEN doc
    ELSE [doc EXCEPT !.list = Place(@, op.after, op.uid)]

ApplyDelete(doc, op) ==
    IF Holds(doc.list, op.uid) THEN [doc EXCEPT !.tomb = @ \cup {op.uid}] ELSE doc

Apply(doc, op) ==
    IF op.type = "INSERT" THEN ApplyInsert(doc, op) ELSE ApplyDelete(doc, op)

\* What the server's applyOperation returns: FALSE is a causal gap.
Applicable(doc, op) ==
    IF op.type = "INSERT"
    THEN Holds(doc.list, op.uid) \/ Known(doc.list, op.after)
    ELSE Holds(doc.list, op.uid)

\* gc(): unlink every tombstoned node and forget its UID.
Gc(doc) == [list |-> Text(doc), tomb |-> {}]
=============================================================================
