---------------------------- MODULE MCClientSync ----------------------------
(***************************************************************************)
(* Instances of ClientSync for TLC.                                        *)
(***************************************************************************)
EXTENDS ClientSync
=============================================================================
