-------------------------- MODULE MCDocumentServer --------------------------
(***************************************************************************)
(* Instances of DocumentServer for TLC.                                    *)
(***************************************************************************)
EXTENDS DocumentServer

Together == {[s \in Sessions |-> 1]}

Apart == {[s \in Sessions |-> s]}

TogetherOrApart == Together \cup Apart
=============================================================================
