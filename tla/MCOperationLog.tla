--------------------------- MODULE MCOperationLog ---------------------------
(***************************************************************************)
(* All causal histories of a few operations over a few UIDs, for TLC.      *)
(***************************************************************************)
EXTENDS OperationLog

CONSTANTS MaxClock, Sites, HistoryLength

MCUids == [clock : 1..MaxClock, site : Sites]

Operations == {InsertOp(u, a) : u \in MCUids, a \in MCUids \cup {Root}}
                  \cup {DeleteOp(u) : u \in MCUids}

CausalHistories == {h \in [1..HistoryLength -> Operations] : Causal(h)}
=============================================================================
