---------------------------- MODULE MCLiveEditing ----------------------------
(***************************************************************************)
(* Instances of LiveEditing for TLC.                                       *)
(***************************************************************************)
EXTENDS LiveEditing

\* Every client in a browser of its own.
OwnBrowser == [c \in Clients |-> c]

\* All clients are tabs of one browser: the client id is in its localStorage.
OneBrowser == [c \in Clients |-> 1]

\* Two clients share a worker, or each has its own: which worker is which
\* makes no difference.
SharedOrApart == {[c \in Clients |-> 1], [c \in Clients |-> c]}
=============================================================================
