------------------------------ MODULE MCLogins ------------------------------
(***************************************************************************)
(* An instance of Logins for TLC.                                          *)
(***************************************************************************)
EXTENDS Logins, TLC

CONSTANTS r1, r2, r3, r4, r5

Five == {r1, r2, r3, r4, r5}

Tabs == Permutations(Five)
=============================================================================
