----------------------------- MODULE MCRestore -----------------------------
(***************************************************************************)
(* Instances of Restore for TLC.                                           *)
(***************************************************************************)
EXTENDS Restore

Together == {[s \in Sessions |-> 1]}
=============================================================================
