----------------------------- MODULE MCSockets -----------------------------
(***************************************************************************)
(* Instances of Sockets: all connections belong to one user and come from  *)
(* one address.                                                            *)
(***************************************************************************)
EXTENDS Sockets, TLC

CONSTANTS c1, c2, u, a

OneUser == [c \in Conns |-> u]

OneAddr == [c \in Conns |-> a]

One == {1}

=============================================================================
