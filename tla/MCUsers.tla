------------------------------ MODULE MCUsers ------------------------------
(***************************************************************************)
(* Small instances of Users: two requests of user a and one of user b, who *)
(* chose the same name n (Senders, Chosen); or one request each of a, b    *)
(* and c, where a and c chose n and b has chosen what a's name would       *)
(* become with a suffix (OneEach, Cross).                                  *)
(***************************************************************************)
EXTENDS Users, TLC

CONSTANTS a, b, c, r1, r2, r3, n, na, nb, nc

Senders == (r1 :> a) @@ (r2 :> a) @@ (r3 :> b)
OneEach == (r1 :> a) @@ (r2 :> b) @@ (r3 :> c)

Chosen == [s \in Subs |-> n]
Cross == (a :> n) @@ (b :> na) @@ (c :> n)

\* A subject is its own name; suffixes tell the three apart.
Self == [s \in Subs |-> s]

Suffix == (a :> na) @@ (b :> nb) @@ (c :> nc)

Suffixes == [x \in Names \X Subs |-> Suffix[x[2]]]

=============================================================================
