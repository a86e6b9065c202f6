------------------------------- MODULE Cards -------------------------------
(***************************************************************************)
(* The deck, the cards with a role of their own, and who takes a trick.    *)
(* A rank is the number RankValue gives it (ace 14 ... two 2, joker 0):    *)
(* the code compares ranks in no other way.  A trick is a record with the  *)
(* cards in the order they were played, the suit that is owed, and whether *)
(* the lead called the joker.                                              *)
(***************************************************************************)
EXTENDS Integers, Sequences

Suit == {"spades", "diamonds", "hearts", "clubs"}

NoSuit == "none"     \* the joker's suit, and the suit of a no-trump bid

Unset == "unset"    \* the empty Suit: none is named yet

Joker == [suit |-> NoSuit, rank |-> 0]

Card == [suit : Suit, rank : 2..14] \cup {Joker}

\* Stands for a nil *Card.
NoCard == [suit |-> NoSuit, rank |-> -1]

CardOf(s, r) == [suit |-> s, rank |-> r]

\* The deck of a table with n seats: 53 cards for five, 43 for four.
DeckFor(n) ==
  {c \in Card : n = 4 => /\ c.rank \notin {2, 4}
                         /\ c.rank = 3 => c.suit \in {"spades", "clubs"}}

IsPointCard(c) == c.rank >= 10

\* The two cards whose identity moves when their own suit is trump.
Mighty(trump) == CardOf(IF trump = "spades" THEN "diamonds" ELSE "spades", 14)

JokerCaller(trump) == CardOf(IF trump = "clubs" THEN "spades" ELSE "clubs", 3)

----------------------------------------------------------------------------
(* Tricks *)

Play == [seat : 0..4, card : Card]

EmptyTrick == [plays |-> <<>>, leadSuit |-> Unset, jokerCalled |-> FALSE]

CardsOf(t) == {t.plays[i].card : i \in DOMAIN t.plays}

PowerMighty == 1000
PowerJoker == 500
PowerTrump == 100
PowerLead == 10
PowerBase == 0

\* The joker counts for nothing in the first and in the last trick, when it
\* has been called, and beside the mighty.
JokerIsDead(t, trump, edge) ==
  edge \/ t.jokerCalled \/ Mighty(trump) \in CardsOf(t)

SuitPower(suit, t, trump) ==
  IF suit = trump THEN PowerTrump
  ELSE IF suit = t.leadSuit THEN PowerLead ELSE PowerBase

Power(c, t, trump, edge) ==
  CASE c = Mighty(trump) -> PowerMighty
    [] c = Joker -> IF JokerIsDead(t, trump, edge) THEN PowerBase ELSE PowerJoker
    [] OTHER -> SuitPower(c.suit, t, trump) + c.rank

\* The seat that takes trick t: the first of the strongest cards.  "edge" says
\* that t is the first or the last trick of the round.
ResolveTrick(t, trump, edge) ==
  LET power(i) == Power(t.plays[i].card, t, trump, edge)
      best == CHOOSE i \in DOMAIN t.plays :
                \A j \in DOMAIN t.plays :
                  power(j) < power(i) \/ (power(j) = power(i) /\ i <= j)
  IN  t.plays[best].seat

\* Mutant: tens do not count.
TrickPoints_DropsTens(t) == {c \in CardsOf(t) : c.rank > 10}

\* The scoring cards a trick brings its winner.
TrickPoints(t) == {c \in CardsOf(t) : IsPointCard(c)}

\* A trick its winner cannot take without showing on whose side she is.
TrickReveals(t, friend) ==
  \E i \in DOMAIN t.plays :
    \/ IsPointCard(t.plays[i].card)
    \/ t.plays[i].seat = friend /\ t.plays[i].card = Joker

=============================================================================
