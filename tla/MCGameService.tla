--------------------------- MODULE MCGameService ---------------------------
(***************************************************************************)
(* Small instances of GameService for TLC.                                 *)
(***************************************************************************)
EXTENDS GameService, TLC

CONSTANTS c, j1, j2, j3, m1, m2, p1, p2

\* j1 and j3 are the same player: a join, and the same join sent again.
Senders == (j1 :> p1) @@ (j2 :> p2) @@ (j3 :> p1)

SomeSenders == [r \in Joins |-> Senders[r]]

=============================================================================
