--------------------------- MODULE MCConnRegistry ---------------------------
(***************************************************************************)
(* Five connections: three of one user, two of another; two addresses that *)
(* do not follow the users.                                                *)
(***************************************************************************)
EXTENDS ConnRegistry, TLC

CONSTANTS c1, c2, c3, c4, c5, u1, u2, a1, a2

SomeUsers == (c1 :> u1) @@ (c2 :> u1) @@ (c3 :> u1) @@ (c4 :> u2) @@ (c5 :> u2)

SomeAddrs == (c1 :> a1) @@ (c2 :> a1) @@ (c3 :> a2) @@ (c4 :> a1) @@ (c5 :> a2)

Caps == {0, 1, 2}

=============================================================================
