------------------------------ MODULE MCLobby ------------------------------
(***************************************************************************)
(* Instances of Lobby: ann makes g1 and g3, bob makes g2; bob and cid list *)
(* games and join them.                                                    *)
(***************************************************************************)
EXTENDS Lobby

CONSTANTS g1, g2, g3, ann, bob, cid

MadeBy == [g \in Games |-> IF g = g2 THEN bob ELSE ann]

MadeByAnn == [g \in Games |-> ann]

=============================================================================
