------------------------------ MODULE MCParts ------------------------------
(***************************************************************************)
(* The instance of Parts for TLC: two sockets of one user from one         *)
(* address; three requests and two servers whose clocks differ; two games  *)
(* of ann, which bob lists, with one or two seats; the real scoring.       *)
(***************************************************************************)
EXTENDS Parts, TLC

CONSTANTS c1, c2, u, a, r1, r2, r3, s1, s2, g1, g2, ann, bob, cid

OneUser == [c \in Conns |-> u]

OneAddr == [c \in Conns |-> a]

Apart == (s1 :> 0) @@ (s2 :> 1)

MadeByAnn == [g \in Games |-> ann]

Alike == Permutations(Reqs)

=============================================================================
