------------------------------ MODULE MCMighty ------------------------------
(***************************************************************************)
(* Small instances of Mighty for TLC: the deals, bids and calls.           *)
(***************************************************************************)
EXTENDS Mighty

H(r) == CardOf("hearts", r)
S(r) == CardOf("spades", r)
D(r) == CardOf("diamonds", r)
C(r) == CardOf("clubs", r)

\* A deal from a sequence of hands and a kitty.
Dealt(hs, k) ==
  [hands |-> [s \in Seats |-> IF s < Len(hs) THEN hs[s + 1] ELSE {}], kitty |-> k]

\* One card each and one in the kitty.
TinyDeals ==
  [n \in Sizes |->
     IF n = 4 THEN {Dealt(<<{H(13)}, {H(9)}, {C(10)}, {S(11)}>>, {D(12)})}
     ELSE {Dealt(<<{H(2)}, {S(13)}, {C(10)}, {S(11)}, {D(9)}>>, {D(12)})}]

\* The same with the code's three cards in the kitty.
KittyDeals ==
  [n \in Sizes |->
     IF n = 4
       THEN {Dealt(<<{H(13)}, {H(9)}, {C(10)}, {S(11)}>>, {D(12), D(9), D(7)})}
       ELSE {}]

\* Bids below, at and inside the limits of both tables, and above them.
AllBids ==
  {[points |-> k, suit |-> "hearts"] : k \in {2, 3, 4, 9, 10, 11}}
    \cup {[points |-> 9, suit |-> NoSuit]}

FewBids == {[points |-> 4, suit |-> NoSuit], [points |-> 9, suit |-> "hearts"],
            [points |-> 10, suit |-> "clubs"]}

OneBid == {[points |-> 10, suit |-> "clubs"]}

TinyCalls == {H(13), D(12), H(9)}

\* Four cards each.  With clubs as trump seat 0 holds the mighty and the joker,
\* with spades they are in different hands; seat 0 is void of diamonds, and a
\* joker caller is in play either way.
PlayDeals ==
  [n \in Sizes |->
     IF n = 4 THEN {Dealt(<<{S(14), Joker, H(9), C(5)}, {C(3), S(8), H(13), D(14)},
                            {H(14), C(9), S(3), D(10)}, {S(13), C(10), D(11), H(6)}>>,
                          {C(13)})}
     ELSE {}]

PlayBids == {[points |-> 10, suit |-> "spades"], [points |-> 10, suit |-> "clubs"]}

PlayCalls == {Joker, C(13)}

=============================================================================
