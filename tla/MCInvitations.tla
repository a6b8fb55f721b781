--------------------------- MODULE MCInvitations ---------------------------
(***************************************************************************)
(* An instance of Invitations for TLC.                                     *)
(***************************************************************************)
EXTENDS Invitations
=============================================================================
