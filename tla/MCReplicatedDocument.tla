------------------------ MODULE MCReplicatedDocument ------------------------
(***************************************************************************)
(* Model checking of ReplicatedDocument, with the reference definition of  *)
(* the RGA's order that the scan of applyInsert computes step by step.     *)
(***************************************************************************)
EXTENDS ReplicatedDocument

\* The tree of characters under their anchors, walked depth first with the
\* newest sibling first.
RECURSIVE Walk(_, _)
Walk(u, inserts) ==
    LET kids == {op.uid : op \in {o \in inserts : o.after = u}}
        eldestLast == SetToSortSeq(kids, LAMBDA v, w : Less(w, v))
    IN FlattenSeq([i \in DOMAIN eldestLast |->
                      <<eldestLast[i]>> \o Walk(eldestLast[i], inserts)])

\* The list of every replica is that walk over the inserts it has applied
\* (rga-document.ts: "all replicas choose the same ordering"), in whatever
\* order they arrived.
ListIsTreeWalk ==
    \A r \in Replicas :
        list[r] = Walk(Root, {op \in Inserts : Holds(list[r], op.uid)})
=============================================================================
