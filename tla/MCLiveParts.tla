---------------------------- MODULE MCLiveParts ----------------------------
(***************************************************************************)
(* The instance of LiveParts for TLC: a create, a join and a move of one   *)
(* game; one socket; two first requests of user s1 and one of user s2, who *)
(* chose the same name n.                                                  *)
(***************************************************************************)
EXTENDS LiveParts, TLC

CONSTANTS c, j1, m1, p1, c1, u, a, s1, s2, r1, r2, r3, n, n1, n2

Sender == [r \in Joins |-> p1]

OneUser == [x \in Conns |-> u]

OneAddr == [x \in Conns |-> a]

Tokens == (r1 :> s1) @@ (r2 :> s1) @@ (r3 :> s2)

Chosen == [s \in Subs |-> n]

\* A subject is its own name; suffixes tell the two apart.
Self == [s \in Subs |-> s]

Suffixes == [x \in Names \X Subs |-> IF x[2] = s1 THEN n1 ELSE n2]

=============================================================================
