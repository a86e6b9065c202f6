----------------------------- MODULE PlayProofs -----------------------------
(***************************************************************************)
(* Rounds: where the cards are, who the friend is, how long the hands are, *)
(* and that the player to move always has a card to play.  The table may   *)
(* change its size between rounds if nobody joins late and clients name no *)
(* card twice in a discard.  What a round is worth and who starts the next *)
(* is about tables that keep their size.                                   *)
(***************************************************************************)
EXTENDS MightyProofs

SizeStays == \A n \in ConfigChoices : StartSizes = {n}

\* Such a table has no late joiner.
LEMMA NobodyIsLate == SizeStays => NoLateJoiner
<1> SUFFICES ASSUME SizeStays, ~(ConfigChoices \subseteq {4}) PROVE StartSizes = {5}
  BY DEF NoLateJoiner
<1>1. PICK n \in ConfigChoices : n # 4
  OBVIOUS
<1>2. n = 5
  BY <1>1, InputsAssumption DEF Sizes
<1> QED  BY <1>2 DEF SizeStays

\* The size may change when every hand has been played out: a card kept back by
\* somebody the new table is too small for would be dealt to another.
SafeResize == SizeStays \/ (NoLateJoiner /\ DistinctDiscards)

\* Who plays: the seats of the table.  Others may sit there once it has become
\* smaller; they have no cards, and no pile in the next round.
SeatInv ==
  /\ status = "waiting" => seated \subseteq Full(numPlayers)
  /\ votes \subseteq seated /\ (status # "finished" => votes = {})
  /\ status \in {"exchanging", "calling", "playing"} => declarer \in Full(numPlayers)
  /\ status = "playing" =>
       /\ turn \in Full(numPlayers)
       /\ \A i \in DOMAIN trick.plays : trick.plays[i].seat \in Full(numPlayers)
  /\ \A s \in Seats \ Full(numPlayers) :
       hands[s] = {} /\ (status # "finished" => points[s] = {} /\ played[s] = {})

\* No friend is named and no card is played.
Untouched ==
  /\ trick = EmptyTrick /\ trickNo = 0 /\ \A s \in Seats : played[s] = {}
  /\ partnerCard = NoCard /\ partnerSeat = Nobody /\ noFriend = FALSE

\* What has not happened yet.
BoardInv ==
  /\ status \in {"waiting", "bidding", "exchanging", "calling"} => Untouched
  /\ status \in {"waiting", "bidding", "exchanging"} => \A s \in Seats : points[s] = {}
  /\ status = "waiting" => \A s \in Seats : hands[s] = {}
  /\ status # "bidding" => kitty = {}

\* A card that was played is in no hand and was played by one seat.
PlayedInv ==
  \A s, r \in Seats : /\ played[s] \cap hands[r] = {}
                      /\ s # r => played[s] \cap played[r] = {}

RoundInv == BidInv /\ SeatInv /\ BoardInv /\ OnePlacePerCard /\ PlayedInv

----------------------------------------------------------------------------
(* The steps *)

\* Where seats are counted from.
LEMMA FullSeats ==
  ASSUME NEW n \in Sizes
  PROVE  Full(n) = 0..(n - 1) /\ Full(n) \subseteq Seats
BY DEF Full, Sizes, Seats

\* After the first deal the table is full.
LEMMA TableIsFull ==
  ASSUME RoundInv, status # "waiting"
  PROVE  Full(numPlayers) \subseteq seated /\ seated \subseteq Seats
<1>1. numPlayers \in Sizes /\ seated \subseteq Seats
  BY DEF RoundInv, BidInv, TypeInv, TypeOK
<1> QED  BY <1>1, FullSeats DEF RoundInv, BidInv, CompanyInv

\* The first state.
LEMMA InitRound == Init => RoundInv
<1> SUFFICES ASSUME Init PROVE RoundInv
  OBVIOUS
<1>1. BidInv
  BY InitBids
<1>2. SeatInv
  BY DEF Init, SeatInv
<1>3. BoardInv
  BY DEF Init, BoardInv, Untouched
<1>4. OnePlacePerCard /\ PlayedInv
  BY DEF Init, OnePlacePerCard, PlayedInv
<1> QED  BY <1>1, <1>2, <1>3, <1>4 DEF RoundInv

\* A deal for a full table: every seat has a hand, the piles are empty.
LEMMA DealFacts ==
  ASSUME TypeOK, NEW table, NEW opener, NEW won, Start(table, opener, won),
         Full(numPlayers) \subseteq table, table \subseteq Seats,
         \A s \in Seats \ Full(numPlayers) : hands[s] = {} /\ won[s] = {}
  PROVE  /\ status' = "bidding" /\ turn' = opener
         /\ \A s \in Seats : points'[s] = {}
         /\ \A s \in Full(numPlayers) : Cardinality(hands'[s]) = HandSize
         /\ \A s \in Seats \ Full(numPlayers) : hands'[s] = {}
         /\ Cardinality(kitty') = KittySize
         /\ \A s \in Seats : hands'[s] \cap kitty' = {}
         /\ \A s, r \in Seats : s # r => hands'[s] \cap hands'[r] = {}
<1> DEFINE n == numPlayers
           dealt == {s \in table : s < n}
<1>1. PICK d \in Deals[n] :
        /\ hands' = [s \in Seats |-> IF s \in dealt THEN d.hands[s] ELSE hands[s]]
        /\ points' = [s \in Seats |-> IF s \in dealt THEN {} ELSE won[s]]
        /\ kitty' = d.kitty
        /\ status' = "bidding"
        /\ turn' = opener
  BY DEF Start
<1>2. n \in Sizes
  BY DEF TypeOK
<1>3. IsDeal(d, n)
  BY <1>2, DealsAssumption
<1>4. dealt = Full(n) /\ \A s \in Seats : s \in Full(n) <=> s < n
  <2>1. \A s \in Seats : s \in Full(n) <=> s < n
    BY <1>2 DEF Full, Sizes, Seats
  <2>2. Full(n) \subseteq table /\ table \subseteq Seats /\ Full(n) \subseteq Seats
    BY <1>2, FullSeats
  <2> QED  BY <2>1, <2>2
<1> HIDE DEF dealt, n
<1>5. \A s \in Seats : hands'[s] = IF s \in Full(n) THEN d.hands[s] ELSE {}
  BY <1>1, <1>4 DEF n
<1>6. \A s \in Seats : points'[s] = {}
  BY <1>1, <1>4 DEF n
<1>7. /\ \A s \in Full(n) : s \in Seats /\ Cardinality(d.hands[s]) = HandSize
      /\ Cardinality(d.kitty) = KittySize
      /\ \A s \in Seats : d.hands[s] \cap d.kitty = {}
      /\ \A s, r \in Seats : s # r => d.hands[s] \cap d.hands[r] = {}
  BY <1>2, <1>3, <1>4, FullSeats DEF IsDeal
<1> QED  BY <1>1, <1>5, <1>6, <1>7 DEF n

\* What a deal makes of the invariant, on a board without friend and tricks.
LEMMA DealRound ==
  ASSUME BidInv', numPlayers \in Sizes, UNCHANGED numPlayers, votes' = {}, Untouched',
         status' = "bidding", \A s \in Seats : points'[s] = {},
         \A s \in Seats \ Full(numPlayers) : hands'[s] = {},
         \A s \in Seats : hands'[s] \cap kitty' = {},
         \A s, r \in Seats : s # r => hands'[s] \cap hands'[r] = {}
  PROVE  RoundInv'
<1>1. SeatInv'
  BY DEF SeatInv, Untouched
<1>2. BoardInv'
  BY DEF BoardInv
<1>3. OnePlacePerCard'
  BY DEF OnePlacePerCard
<1>4. PlayedInv'
  BY DEF PlayedInv, Untouched
<1> QED  BY <1>1, <1>2, <1>3, <1>4 DEF RoundInv

\* JoinGame: newcomers come before the first deal, which the last one brings.
LEMMA JoinRound ==
  ASSUME RoundInv, NEW s \in Seats, Join(s) PROVE RoundInv'
<1> DEFINE n == numPlayers
<1>1. n \in Sizes /\ TypeOK /\ BidInv'
  BY JoinBids DEF RoundInv, BidInv, TypeInv, TypeOK
<1>2. s \in Full(n) /\ s \notin seated /\ seated' = seated \cup {s}
  BY <1>1 DEF Join, Full, Sizes, Seats
<1>3. status = "waiting"
  BY <1>2, TableIsFull
<1>4. UNCHANGED <<numPlayers, auctionVars, friendVars, trickVars, votes>>
  BY DEF Join
<1>5. /\ seated' \subseteq Full(n) /\ votes' = {}
      /\ Untouched /\ Untouched' /\ \A r \in Seats : points[r] = {} /\ hands[r] = {}
      /\ kitty = {}
  BY <1>2, <1>3, <1>4 DEF RoundInv, SeatInv, BoardInv, Untouched, friendVars, trickVars
<1>6. CASE IsFull(seated')
  <2>1. Start(seated', 0, points)
    BY <1>6 DEF Join
  <2>2. Full(n) \subseteq seated' /\ seated' \subseteq Seats
    BY <1>1, <1>5, <1>6, FullSeats DEF IsFull
  <2> HIDE DEF n
  <2> QED  BY <1>1, <1>4, <1>5, <2>1, <2>2, DealFacts, DealRound DEF n
<1>7. CASE ~IsFull(seated')
  <2>1. UNCHANGED <<cardVars, status>>
    BY <1>7 DEF Join
  <2> QED
    BY <1>1, <1>3, <1>4, <1>5, <2>1 DEF RoundInv, SeatInv, BoardInv, OnePlacePerCard,
       PlayedInv, cardVars, trickVars, Untouched
<1> QED  BY <1>6, <1>7

\* A redeal and the next round deal to a full table.
LEMMA RedealRound == ASSUME RoundInv, NEW s \in Seats, Redeal(s) PROVE RoundInv'
<1> DEFINE n == numPlayers
<1>1. n \in Sizes /\ TypeOK /\ BidInv'
  BY RedealBids DEF RoundInv, BidInv, TypeInv, TypeOK
<1>2. status = "bidding" /\ Start(seated, 0, points) /\ ClearBoard
      /\ UNCHANGED <<numPlayers, seated, votes>>
  BY DEF Redeal, MyTurn, tableVars
<1>3. Full(n) \subseteq seated /\ seated \subseteq Seats /\ votes = {}
      /\ \A r \in Seats \ Full(n) : hands[r] = {} /\ points[r] = {}
  BY <1>2, TableIsFull DEF RoundInv, SeatInv
<1>4. Untouched'
  BY <1>2 DEF ClearBoard, Untouched
<1> HIDE DEF n
<1> QED  BY <1>1, <1>2, <1>3, <1>4, DealFacts, DealRound DEF n

\* The vote that completes the count.
LEMMA NextRoundRound == ASSUME RoundInv, NEW s \in Seats, NextRound(s) PROVE RoundInv'
<1> DEFINE n == numPlayers
           none == [r \in Seats |-> {}]
<1>1. n \in Sizes /\ TypeOK /\ BidInv'
  BY NextRoundBids DEF RoundInv, BidInv, TypeInv, TypeOK
<1>2. status = "finished" /\ Start(seated, dealer', none) /\ ClearBoard
      /\ UNCHANGED <<numPlayers, seated>> /\ votes' = {}
  BY DEF NextRound, Between
<1>3. Full(n) \subseteq seated /\ seated \subseteq Seats
      /\ \A r \in Seats \ Full(n) : hands[r] = {} /\ none[r] = {}
  BY <1>2, TableIsFull DEF RoundInv, SeatInv
<1>4. Untouched'
  BY <1>2 DEF ClearBoard, Untouched
<1> HIDE DEF n, none
<1> QED  BY <1>1, <1>2, <1>3, <1>4, DealFacts, DealRound DEF n

\* The kitty goes to a seat of the table.
LEMMA TakeContractRound ==
  ASSUME RoundInv, BidInv', status = "bidding", NEW who \in Full(numPlayers), NEW b,
         TakeContract(who, b), declarer' = who,
         UNCHANGED <<tableVars, friendVars, points, trickVars, votes>>
  PROVE  RoundInv'
<1> DEFINE n == numPlayers
<1>1. n \in Sizes /\ TypeOK /\ who \in Seats
  BY FullSeats DEF RoundInv, BidInv, TypeInv, TypeOK
<1>2. /\ status' = "exchanging" /\ kitty' = {}
      /\ hands' = [hands EXCEPT ![who] = @ \cup kitty]
      /\ UNCHANGED <<numPlayers, seated, votes, trick, trickNo, played, points>>
  BY DEF TakeContract, tableVars, trickVars
<1>3. Untouched /\ Untouched' /\ \A r \in Seats : points[r] = {}
  BY <1>2 DEF RoundInv, BoardInv, Untouched, friendVars
<1>4. \A r \in Seats : hands'[r] = IF r = who THEN hands[r] \cup kitty ELSE hands[r]
  BY <1>1, <1>2 DEF TypeOK
<1>5. SeatInv'
  BY <1>2, <1>4 DEF RoundInv, SeatInv
<1>6. BoardInv'
  BY <1>2, <1>3 DEF BoardInv
<1>7. OnePlacePerCard'
  <2>1. \A r \in Seats : hands[r] \cap kitty = {}
    BY DEF RoundInv, OnePlacePerCard
  <2>2. \A r, q \in Seats : r # q => hands[r] \cap hands[q] = {}
    BY DEF RoundInv, OnePlacePerCard
  <2>3. \A r, q \in Seats : r # q => hands'[r] \cap hands'[q] = {}
    BY <1>4, <2>1, <2>2
  <2> QED  BY <1>2, <1>3, <2>3 DEF OnePlacePerCard
<1>8. PlayedInv'
  BY <1>2, <1>3 DEF PlayedInv, Untouched
<1> QED  BY <1>5, <1>6, <1>7, <1>8 DEF RoundInv

\* Between two speakers nothing moves.
LEMMA SpeakRound ==
  ASSUME RoundInv, BidInv', status = "bidding",
         UNCHANGED <<tableVars, status, hands, kitty, friendVars, points, trickVars, votes>>
  PROVE  RoundInv'
BY DEF RoundInv, SeatInv, BoardInv, OnePlacePerCard, PlayedInv, Untouched, tableVars,
   friendVars, trickVars

\* A bid.
LEMMA BidRound ==
  ASSUME RoundInv, NEW s \in Seats, NEW b \in BidSet, Bid(s, b) PROVE RoundInv'
<1>1. BidInv'
  BY BidBids DEF RoundInv
<1>2. /\ status = "bidding" /\ s \in seated /\ declarer' = s
      /\ UNCHANGED <<tableVars, friendVars, points, trickVars, votes>>
  BY DEF Bid, MyTurn
<1>3. s \in Full(numPlayers)
  BY DEF Bid, MyTurn, RoundInv, BidInv, AuctionInv, Full
<1>4. CASE AuctionWon(b, passed)
  <2>1. TakeContract(s, b)
    BY <1>4 DEF Bid
  <2> QED  BY <1>1, <1>2, <1>3, <2>1, TakeContractRound
<1>5. CASE ~AuctionWon(b, passed)
  BY <1>1, <1>2, <1>5, SpeakRound DEF Bid
<1> QED  BY <1>4, <1>5

\* A pass.
LEMMA PassRound == ASSUME RoundInv, NEW s \in Seats, Pass(s) PROVE RoundInv'
<1>1. BidInv'
  BY PassBids DEF RoundInv
<1>2. /\ status = "bidding" /\ UNCHANGED declarer
      /\ UNCHANGED <<tableVars, friendVars, points, trickVars, votes>>
  BY DEF Pass, MyTurn
<1>3. CASE Cardinality(passed') = numPlayers - 1 /\ currentBid # NoBid
  <2>1. TakeContract(declarer, currentBid)
    BY <1>3 DEF Pass
  <2>2. declarer \in Full(numPlayers)
    BY <1>2, <1>3 DEF RoundInv, BidInv, AuctionInv, Full
  <2> QED  BY <1>1, <1>2, <2>1, <2>2, TakeContractRound
<1>4. CASE ~(Cardinality(passed') = numPlayers - 1 /\ currentBid # NoBid)
  BY <1>1, <1>2, <1>4, SpeakRound DEF Pass
<1> QED  BY <1>3, <1>4

\* A discard: cards go from the hand to the pile, or out of the game.
LEMMA DiscardRound ==
  ASSUME RoundInv, BidInv', NEW s \in Seats, NEW D \in SUBSET hands[s], Discard(s, D)
  PROVE  RoundInv'
<1>1. TypeOK
  BY DEF RoundInv, BidInv, TypeInv
<1>2. /\ status = "exchanging" /\ status' = "calling" /\ s = declarer
      /\ hands' = [hands EXCEPT ![s] = @ \ D]
      /\ points' = [points EXCEPT ![s] = @ \cup {c \in D : IsPointCard(c)}]
      /\ UNCHANGED <<tableVars, turn, auctionVars, friendVars, kitty, trickVars, votes>>
  BY DEF Discard
<1>3. \A r \in Seats : hands'[r] = IF r = s THEN hands[r] \ D ELSE hands[r]
  BY <1>1, <1>2 DEF TypeOK
<1>4. \A r \in Seats : points'[r] \subseteq IF r = s THEN D ELSE {}
  BY <1>1, <1>2 DEF TypeOK, RoundInv, BoardInv
<1>5. Untouched /\ Untouched'
  BY <1>2 DEF RoundInv, BoardInv, Untouched, friendVars, trickVars
<1>6. SeatInv'
  <2>1. s \in Full(numPlayers)
    BY <1>2 DEF RoundInv, SeatInv
  <2> QED
    BY <1>2, <1>3, <1>4, <2>1 DEF RoundInv, SeatInv, tableVars, auctionVars, trickVars
<1>7. BoardInv'
  BY <1>2, <1>5 DEF RoundInv, BoardInv
<1>8. OnePlacePerCard'
  <2>1. \A r \in Seats : hands[r] \cap kitty = {}
    BY DEF RoundInv, OnePlacePerCard
  <2>2. \A r, q \in Seats : r # q => hands[r] \cap hands[q] = {}
    BY DEF RoundInv, OnePlacePerCard
  <2>3. kitty' = kitty /\ status' # "playing"
    BY <1>2
  <2>4. \A r \in Seats : hands'[r] \cap kitty' = {} /\ points'[r] \cap kitty' = {}
    BY <1>3, <1>4, <2>1, <2>3
  <2>5. \A r, q \in Seats : hands'[r] \cap points'[q] = {}
    BY <1>3, <1>4, <2>2
  <2>6. \A r, q \in Seats : r # q => /\ hands'[r] \cap hands'[q] = {}
                                     /\ points'[r] \cap points'[q] = {}
    BY <1>3, <1>4, <2>2
  <2> QED  BY <2>3, <2>4, <2>5, <2>6 DEF OnePlacePerCard
<1>9. PlayedInv'
  BY <1>5 DEF PlayedInv, Untouched
<1> QED  BY <1>6, <1>7, <1>8, <1>9 DEF RoundInv

\* A call opens the first trick.
LEMMA CallPartnerRound ==
  ASSUME RoundInv, BidInv', NEW s \in Seats, NEW c, CallPartner(s, c)
  PROVE  RoundInv'
<1>1. /\ status = "calling" /\ status' = "playing" /\ trick' = EmptyTrick
      /\ turn' = declarer
      /\ UNCHANGED <<tableVars, auctionVars, cardVars, played, votes>>
  BY DEF CallPartner
<1>2. DOMAIN trick'.plays = {} /\ CardsOf(trick') = {}
  BY <1>1 DEF EmptyTrick, CardsOf
<1>3. SeatInv'
  BY <1>1, <1>2 DEF RoundInv, SeatInv, tableVars, auctionVars, cardVars
<1>4. OnePlacePerCard' /\ PlayedInv'
  BY <1>1, <1>2 DEF RoundInv, OnePlacePerCard, PlayedInv, cardVars
<1> QED  BY <1>1, <1>3, <1>4 DEF RoundInv, BoardInv, cardVars

\* Votes move no card, nor does a new size, which somebody with cards in hand
\* could be left out of.
LEMMA BetweenRound ==
  ASSUME RoundInv, BidInv', NEW s \in Seats,
         PlayAgain(s) \/ \E n \in ConfigChoices : ChangeConfig(s, n),
         numPlayers' = numPlayers \/ \A r \in Seats : hands[r] = {}
  PROVE  RoundInv'
<1>2. votes' \subseteq seated
  BY DEF PlayAgain, ChangeConfig, Between, RoundInv, SeatInv
<1>3. status = "finished" /\ UNCHANGED <<seated, status, auctionVars, cardVars, trickVars>>
  BY DEF PlayAgain, ChangeConfig, Between, tableVars
<1> QED
  BY <1>2, <1>3 DEF RoundInv, SeatInv, BoardInv, OnePlacePerCard, PlayedInv,
     auctionVars, cardVars, trickVars

\* A play moves one card from the hand of the player to move to the trick.
CardMoves(s, c, t) ==
  /\ status = "playing" /\ s = turn /\ s \in Full(numPlayers) /\ c \in Card
  /\ t \in TrickState /\ t.plays = Append(trick.plays, [seat |-> s, card |-> c])
  /\ CardsOf(t) = CardsOf(trick) \cup {c}
  /\ \A i \in DOMAIN t.plays : t.plays[i].seat \in Full(numPlayers)
  /\ \A r \in Seats : hands'[r] = IF r = s THEN hands[r] \ {c} ELSE hands[r]
  /\ \A r \in Seats : played'[r] = IF r = s THEN played[r] \cup {c} ELSE played[r]
  /\ UNCHANGED <<tableVars, auctionVars, partnerCard, noFriend, kitty, votes>>
  /\ IF Len(t.plays) = numPlayers
       THEN CompleteTrick(t)
       ELSE /\ trick' = t
            /\ turn' = (turn + 1) % numPlayers
            /\ UNCHANGED <<status, partnerSeat, points, trickNo, resultVars>>

\* Every legal play does that.
LEMMA PlayFacts ==
  ASSUME RoundInv, NEW s \in Seats, NEW c \in hands[s], NEW called \in Suit \cup {Unset},
         NEW callJoker \in BOOLEAN, PlayCard(s, c, called, callJoker)
  PROVE  CardMoves(s, c, Extended(s, c, called, callJoker))
<1> DEFINE t == Extended(s, c, called, callJoker)
<1>0. t = Extended(s, c, called, callJoker)
  OBVIOUS
<1>1. TypeOK
  BY DEF RoundInv, BidInv, TypeInv
<1> HIDE DEF t
<1>2. /\ status = "playing" /\ s = turn /\ s \in Full(numPlayers) /\ c \in Card
  BY <1>1 DEF PlayCard, MyTurn, RoundInv, SeatInv, TypeOK
<1>3. t \in TrickState /\ t.plays = Append(trick.plays, [seat |-> s, card |-> c])
  BY <1>0, <1>1, <1>2, ExtendedType
<1>4. trick.plays \in Seq(Play)
  BY <1>1 DEF TypeOK, TrickState
<1> DEFINE q == trick.plays
           x == [seat |-> s, card |-> c]
<1>5. /\ DOMAIN t.plays = DOMAIN q \cup {Len(q) + 1}
      /\ t.plays[Len(q) + 1] = x
      /\ \A i \in DOMAIN q : t.plays[i] = q[i]
  <2>1. x \in Play
    BY <1>2 DEF Play, Seats
  <2> HIDE DEF x, q
  <2> QED  BY <1>3, <1>4, <2>1 DEF x, q
<1>6. CardsOf(t) = CardsOf(trick) \cup {c}
  BY <1>5 DEF CardsOf
<1>7. \A i \in DOMAIN t.plays : t.plays[i].seat \in Full(numPlayers)
  BY <1>2, <1>5 DEF RoundInv, SeatInv
<1>8. \A r \in Seats : c \notin played[r]
  BY DEF RoundInv, PlayedInv
<1>9. SeatOf(played, c) = Nobody
  BY <1>1, <1>8, SeatFound DEF TypeOK
<1>10. /\ hands' = [hands EXCEPT ![s] = @ \ {c}]
       /\ played' = [played EXCEPT ![s] = @ \cup {c}]
  BY <1>9 DEF PlayCard
<1>11. /\ UNCHANGED <<tableVars, auctionVars, partnerCard, noFriend, kitty, votes>>
       /\ IF Len(t.plays) = numPlayers
            THEN CompleteTrick(t)
            ELSE /\ trick' = t
                 /\ turn' = (turn + 1) % numPlayers
                 /\ UNCHANGED <<status, partnerSeat, points, trickNo, resultVars>>
  BY <1>0 DEF PlayCard
<1>12. /\ \A r \in Seats : hands'[r] = IF r = s THEN hands[r] \ {c} ELSE hands[r]
       /\ \A r \in Seats : played'[r] = IF r = s THEN played[r] \cup {c} ELSE played[r]
  BY <1>1, <1>10 DEF TypeOK
<1> QED  BY <1>0, <1>2, <1>3, <1>6, <1>7, <1>11, <1>12 DEF CardMoves

\* A complete trick goes to the pile of a seat of the table.
LEMMA TrickTaken ==
  ASSUME TypeOK, NEW t \in TrickState, Len(t.plays) = numPlayers,
         \A i \in DOMAIN t.plays : t.plays[i].seat \in Full(numPlayers),
         CompleteTrick(t)
  PROVE  \E w \in Full(numPlayers) :
           /\ turn' = w /\ w \in Seats
           /\ \A r \in Seats :
                points'[r] = IF r = w THEN points[r] \cup TrickPoints(t) ELSE points[r]
           /\ TrickPoints(t) \subseteq CardsOf(t)
           /\ partnerSeat' = Reveal(t, w, (FriendSeat)')
           /\ \/ /\ trickNo = HandSize /\ status' = "finished" /\ trick' = t
                 /\ UNCHANGED trickNo /\ FinishRound(t, (FriendSeat)', points')
              \/ /\ trickNo # HandSize /\ trick' = EmptyTrick /\ trickNo' = trickNo + 1
                 /\ UNCHANGED <<status, resultVars>>
<1> DEFINE winner == ResolveTrick(t, trump, IsEdge(trickNo))
           won == [points EXCEPT ![winner] = @ \cup TrickPoints(t)]
<1>1. numPlayers \in Sizes
  BY DEF TypeOK
<1>2. DOMAIN t.plays = 1..Len(t.plays)
  BY DEF TrickState
<1>3. winner \in Full(numPlayers)
  BY <1>1, <1>2, WinnerPlayed
<1>4. winner \in Seats
  BY <1>1, <1>3, FullSeats
<1> HIDE DEF winner
<1>5. turn' = winner /\ points' = won /\ partnerSeat' = Reveal(t, winner, (FriendSeat)')
  BY DEF CompleteTrick, winner
<1>6. \A r \in Seats :
        points'[r] = IF r = winner THEN points[r] \cup TrickPoints(t) ELSE points[r]
  BY <1>4, <1>5 DEF TypeOK
<1>7. TrickPoints(t) \subseteq CardsOf(t)
  BY DEF TrickPoints
<1>8. \/ /\ trickNo = HandSize /\ status' = "finished" /\ trick' = t
         /\ UNCHANGED trickNo /\ FinishRound(t, (FriendSeat)', points')
      \/ /\ trickNo # HandSize /\ trick' = EmptyTrick /\ trickNo' = trickNo + 1
         /\ UNCHANGED <<status, resultVars>>
  <2>1. CASE trickNo = HandSize
    <3>1. FinishRound(t, (FriendSeat)', won)
      BY <2>1 DEF CompleteTrick, winner
    <3> HIDE DEF won
    <3> QED  BY <1>5, <2>1, <3>1 DEF FinishRound
  <2>2. CASE trickNo # HandSize
    BY <2>2 DEF CompleteTrick
  <2> QED  BY <2>1, <2>2
<1> QED  BY <1>3, <1>4, <1>5, <1>6, <1>7, <1>8

\* A play: the card leaves the hand for the table, a complete trick leaves the
\* table for the winner's pile.
LEMMA PlayCardRound ==
  ASSUME RoundInv, BidInv', NEW s \in Seats, NEW c \in hands[s],
         NEW called \in Suit \cup {Unset}, NEW callJoker \in BOOLEAN,
         PlayCard(s, c, called, callJoker)
  PROVE  RoundInv'
<1> DEFINE t == Extended(s, c, called, callJoker)
           n == numPlayers
<1>1. TypeOK /\ n \in Sizes
  BY DEF RoundInv, BidInv, TypeInv, TypeOK
<1>0. t = Extended(s, c, called, callJoker)
  OBVIOUS
<1>15. CardMoves(s, c, t)
  BY PlayFacts
<1> HIDE DEF t, n
<1>2. /\ status = "playing" /\ s = turn /\ s \in Full(n)
      /\ t \in TrickState /\ CardsOf(t) = CardsOf(trick) \cup {c}
      /\ \A i \in DOMAIN t.plays : t.plays[i].seat \in Full(n)
      /\ UNCHANGED <<tableVars, auctionVars, kitty, votes>>
      /\ Len(t.plays) = n => CompleteTrick(t)
      /\ Len(t.plays) # n => trick' = t /\ UNCHANGED <<status, points, trickNo>>
  BY <1>0, <1>1, <1>15 DEF CardMoves, n
<1>16. /\ \A r \in Seats : hands'[r] = IF r = s THEN hands[r] \ {c} ELSE hands[r]
       /\ \A r \in Seats : played'[r] = IF r = s THEN played[r] \cup {c} ELSE played[r]
  BY <1>15 DEF CardMoves
<1>3. /\ votes = {} /\ kitty = {} /\ declarer \in Full(n)
      /\ \A r \in Seats \ Full(n) : hands[r] = {} /\ points[r] = {} /\ played[r] = {}
  BY <1>2 DEF RoundInv, SeatInv, BoardInv, n
<1>4. /\ \A r \in Seats : hands[r] \cap (kitty \cup CardsOf(trick)) = {}
                          /\ points[r] \cap (kitty \cup CardsOf(trick)) = {}
      /\ \A r, q \in Seats : hands[r] \cap points[q] = {}
      /\ \A r, q \in Seats : r # q => hands[r] \cap hands[q] = {} /\ points[r] \cap points[q] = {}
  BY <1>2 DEF RoundInv, OnePlacePerCard
<1>5. /\ \A r, q \in Seats : played[r] \cap hands[q] = {}
      /\ \A r, q \in Seats : r # q => played[r] \cap played[q] = {}
  BY DEF RoundInv, PlayedInv
<1>17. \A r \in Seats : c \notin hands'[r] /\ c \notin played[r]
  <2>1. \A r \in Seats : c \notin hands'[r]
    BY <1>4, <1>16
  <2>2. \A r \in Seats : c \notin played[r]
    BY <1>5
  <2> QED  BY <2>1, <2>2
<1>6. PlayedInv'
  <2>3. \A r \in Seats : played'[r] \subseteq played[r] \cup {c} /\ hands'[r] \subseteq hands[r]
    BY <1>16
  <2>4. \A r \in Seats : r # s => played'[r] = played[r]
    BY <1>16
  <2>1. \A r, q \in Seats : played'[r] \cap hands'[q] = {}
    <3> TAKE r, q \in Seats
    <3>1. played[r] \cap hands[q] = {} /\ c \notin hands'[q]
      BY <1>5, <1>17
    <3>2. played'[r] \subseteq played[r] \cup {c} /\ hands'[q] \subseteq hands[q]
      BY <2>3
    <3> QED  BY ONLY <3>1, <3>2
  <2>2. \A r, q \in Seats : r # q => played'[r] \cap played'[q] = {}
    <3> SUFFICES ASSUME NEW r \in Seats, NEW q \in Seats, r # q
                 PROVE  played'[r] \cap played'[q] = {}
      OBVIOUS
    <3>1. played[r] \cap played[q] = {} /\ c \notin played[r] /\ c \notin played[q]
      BY <1>5, <1>17
    <3>2. /\ played'[r] \subseteq played[r] \cup {c} /\ played'[q] \subseteq played[q] \cup {c}
          /\ played'[r] = played[r] \/ played'[q] = played[q]
      BY <2>3, <2>4
    <3> QED  BY ONLY <3>1, <3>2
  <2> QED  BY <2>1, <2>2 DEF PlayedInv
<1>7. \A r \in Seats : hands'[r] \cap CardsOf(t) = {}
  <2>1. CardsOf(t) = CardsOf(trick) \cup {c}
    BY <1>2
  <2>2. \A r \in Seats : hands'[r] \subseteq hands[r]
    BY <1>16
  <2> QED  BY <1>4, <1>17, <2>1, <2>2
<1>8. \A r, q \in Seats : r # q => hands'[r] \cap hands'[q] = {}
  BY <1>4, <1>16
<1>9. \A r \in Seats : points[r] \cap CardsOf(t) = {}
  <2>1. CardsOf(t) = CardsOf(trick) \cup {c}
    BY <1>2
  <2> QED  BY <1>4, <2>1
<1>10. \A r, q \in Seats : hands'[r] \cap points[q] = {}
  BY <1>4, <1>16
<1>11. numPlayers' = n /\ status # "waiting" /\ seated' = seated
      /\ votes' = {} /\ declarer' = declarer
      /\ kitty' = kitty
  BY <1>2, <1>3 DEF tableVars, auctionVars, n
<1>12. CASE Len(t.plays) # n
  <2>1. trick' = t /\ UNCHANGED <<status, points, trickNo>>
    BY <1>2, <1>12
  <2>5. turn' \in Full(n)
    <3>1. turn' = (turn + 1) % n /\ turn \in Full(n) /\ Full(n) = 0..(n - 1)
      BY <1>1, <1>2, <1>12, <1>15, FullSeats DEF CardMoves, n
    <3> QED  BY <1>1, <3>1 DEF Sizes
  <2>2. SeatInv'
    BY <1>1, <1>2, <1>3, <1>11, <1>16, <2>1, <2>5 DEF SeatInv
  <2>3. OnePlacePerCard'
    BY <1>3, <1>4, <1>7, <1>8, <1>9, <1>10, <1>11, <2>1 DEF OnePlacePerCard
  <2>4. BoardInv'
    BY <1>2, <1>3, <1>11, <2>1 DEF BoardInv
  <2> QED  BY <1>6, <2>2, <2>3, <2>4 DEF RoundInv
<1>13. CASE Len(t.plays) = n
  <2>1. PICK w \in Full(n) :
          /\ turn' = w /\ w \in Seats
          /\ \A r \in Seats :
               points'[r] = IF r = w THEN points[r] \cup TrickPoints(t) ELSE points[r]
          /\ TrickPoints(t) \subseteq CardsOf(t)
          /\ \/ status' = "finished" /\ trick' = t
             \/ status' = status /\ trick' = EmptyTrick
    BY <1>1, <1>2, <1>13, TrickTaken DEF n
  <2>2. CardsOf(EmptyTrick) = {} /\ DOMAIN EmptyTrick.plays = {}
    BY DEF CardsOf, EmptyTrick
  <2>3. SeatInv'
    BY <1>1, <1>2, <1>3, <1>11, <1>16, <2>1, <2>2 DEF SeatInv
  <2>4. /\ \A r, q \in Seats : hands'[r] \cap points'[q] = {}
        /\ \A r, q \in Seats : r # q => points'[r] \cap points'[q] = {}
    <3>1. \A r \in Seats : points'[r] \subseteq points[r] \cup CardsOf(t)
      BY <2>1
    <3>2. \A r, q \in Seats : hands'[r] \cap points'[q] = {}
      BY <1>7, <1>10, <3>1
    <3> QED  BY <1>4, <1>9, <2>1, <3>2
  <2>5. OnePlacePerCard'
    BY <1>2, <1>3, <1>8, <1>11, <2>1, <2>2, <2>4 DEF OnePlacePerCard
  <2>6. BoardInv'
    BY <1>2, <1>3, <1>11, <2>1 DEF BoardInv
  <2> QED  BY <1>6, <2>3, <2>5, <2>6 DEF RoundInv
<1> QED  BY <1>12, <1>13

\* The size changes between rounds, to what a client asked for.
LEMMA SizeChanges ==
  ASSUME [Next]_vars
  PROVE  numPlayers' = numPlayers \/ (status = "finished" /\ numPlayers' \in ConfigChoices)
<1>1. ASSUME NEW s \in Seats, NEW n \in ConfigChoices, ChangeConfig(s, n)
      PROVE  status = "finished" /\ numPlayers' \in ConfigChoices
  BY <1>1 DEF ChangeConfig, Between
<1>2. ASSUME NEW s \in Seats, Auction(s) \/ Exchange(s) \/ PlayMove(s)
      PROVE  numPlayers' = numPlayers
  BY <1>2 DEF Auction, Bid, Pass, Redeal, Exchange, Discard, CallPartner, PlayMove,
     PlayCard, tableVars
<1>3. ASSUME NEW s \in Seats, Join(s) \/ PlayAgain(s) \/ NextRound(s)
      PROVE  numPlayers' = numPlayers
  BY <1>3 DEF Join, PlayAgain, NextRound, tableVars
<1>4. CASE UNCHANGED vars
  BY <1>4 DEF vars, tableVars
<1> QED  BY <1>1, <1>2, <1>3, <1>4 DEF Next, Over, Lobby

\* Every step that leaves nobody's cards outside the table.
LEMMA StepRound ==
  ASSUME NoLateJoiner, RoundInv, [Next]_vars,
         numPlayers' = numPlayers \/ \A r \in Seats : hands[r] = {}
  PROVE  RoundInv'
<1>1. BidInv'
  BY NextBids DEF RoundInv
<1>2. ASSUME NEW s \in Seats, Auction(s) PROVE RoundInv'
  BY <1>2, BidRound, PassRound, RedealRound DEF Auction
<1>3. ASSUME NEW s \in Seats, Exchange(s) PROVE RoundInv'
  BY <1>1, <1>3, DiscardRound, CallPartnerRound DEF Exchange
<1>4. ASSUME NEW s \in Seats, PlayMove(s) PROVE RoundInv'
  BY <1>1, <1>4, PlayCardRound DEF PlayMove
<1>5. ASSUME NEW s \in Seats, Lobby(s) PROVE RoundInv'
  BY <1>1, <1>5, JoinRound, NextRoundRound, BetweenRound DEF Lobby
<1>6. CASE UNCHANGED vars
  BY <1>1, <1>6 DEF vars, tableVars, auctionVars, friendVars, cardVars, trickVars,
     RoundInv, SeatInv, BoardInv, OnePlacePerCard, PlayedInv, Untouched
<1> QED  BY <1>2, <1>3, <1>4, <1>5, <1>6 DEF Next, Over

----------------------------------------------------------------------------
(* How long the hands are, if no client names a card twice in a discard: with
   fewer cards put down the declarer's hand stays longer. *)

Held(s) == Cardinality(hands[s])

\* The hands before the play, in number of cards; HandsInStep says it of the play.
HandInv ==
  /\ status = "bidding" => Cardinality(kitty) = KittySize
  /\ status \in {"bidding", "calling"} => \A s \in Full(numPlayers) : Held(s) = HandSize
  /\ status = "exchanging" =>
       \A s \in Full(numPlayers) :
         Held(s) = IF s = declarer THEN HandSize + KittySize ELSE HandSize
  /\ status = "playing" => trickNo \in 1..HandSize
  /\ status = "finished" => \A s \in Seats : hands[s] = {}
  /\ HandsInStep

TableInv == RoundInv /\ HandInv

\* A hand is a finite set, so it can be counted.
LEMMA HandsFinite ==
  ASSUME TypeOK
  PROVE  /\ \A s \in Seats : IsFiniteSet(hands[s]) /\ Held(s) \in Nat
         /\ IsFiniteSet(kitty)
<1>1. \A s \in Seats : hands[s] \subseteq Card
  BY DEF TypeOK
<1>2. IsFiniteSet(kitty) /\ \A s \in Seats : IsFiniteSet(hands[s])
  BY <1>1, CardsFinite, FS_Subset DEF TypeOK
<1> QED  BY <1>2, FS_CardinalityType DEF Held

\* When the round is over, all that is left to say is that the hands are empty.
LEMMA PlayedOut ==
  ASSUME status' = "finished", \A s \in Seats : hands'[s] = {}
  PROVE  HandInv'
<1>1. HandsInStep'
  BY DEF HandsInStep
<1> QED  BY <1>1 DEF HandInv

\* A deal fills every hand.
LEMMA DealHands ==
  ASSUME TypeOK, NEW table, NEW opener, NEW won, Start(table, opener, won),
         Full(numPlayers) \subseteq table, table \subseteq Seats, UNCHANGED numPlayers,
         \A s \in Seats \ Full(numPlayers) : hands[s] = {} /\ won[s] = {}
  PROVE  HandInv'
<1>1. /\ status' = "bidding" /\ Cardinality(kitty') = KittySize
      /\ \A s \in Full(numPlayers) : Cardinality(hands'[s]) = HandSize
  BY DealFacts
<1> QED  BY <1>1 DEF HandInv, Held, HandsInStep

\* The kitty makes the declarer's hand longer.
LEMMA TakeContractHands ==
  ASSUME TableInv, status = "bidding", NEW who \in Full(numPlayers), NEW b,
         TakeContract(who, b), declarer' = who, UNCHANGED tableVars
  PROVE  HandInv'
<1>1. TypeOK /\ numPlayers \in Sizes /\ HandSize \in Nat /\ KittySize \in Nat
  BY SizesAssumption DEF TableInv, RoundInv, BidInv, TypeInv, TypeOK
<1>2. /\ status' = "exchanging" /\ numPlayers' = numPlayers
      /\ hands' = [hands EXCEPT ![who] = @ \cup kitty]
  BY DEF TakeContract, tableVars
<1>3. who \in Seats /\ Full(numPlayers) \subseteq Seats
  BY <1>1, FullSeats
<1>4. \A s \in Seats : hands'[s] = IF s = who THEN hands[s] \cup kitty ELSE hands[s]
  BY <1>1, <1>2 DEF TypeOK
<1>5. Cardinality(kitty) = KittySize /\ \A s \in Full(numPlayers) : Held(s) = HandSize
  BY DEF TableInv, HandInv
<1>6. hands[who] \cap kitty = {}
  BY <1>3 DEF TableInv, RoundInv, OnePlacePerCard
<1>7. Cardinality(hands[who] \cup kitty) = HandSize + KittySize
  <2>1. IsFiniteSet(hands[who]) /\ IsFiniteSet(kitty)
    BY <1>1, <1>3, HandsFinite
  <2>2. Cardinality(hands[who] \cup kitty)
          = Cardinality(hands[who]) + Cardinality(kitty) - Cardinality(hands[who] \cap kitty)
    BY <2>1, FS_Union
  <2>3. Cardinality(hands[who] \cap kitty) = 0 /\ Cardinality(hands[who]) = HandSize
    BY <1>5, <1>6, FS_EmptySet DEF Held
  <2> QED  BY <1>1, <1>5, <2>2, <2>3
<1>8. \A s \in Full(numPlayers) :
        Cardinality(hands'[s]) = IF s = who THEN HandSize + KittySize ELSE HandSize
  BY <1>3, <1>4, <1>5, <1>7 DEF Held
<1> QED  BY <1>2, <1>8 DEF HandInv, Held, HandsInStep

\* The auction: its moves deal, give the kitty away or touch no card.
LEMMA AuctionHands ==
  ASSUME TableInv, NEW s \in Seats, Auction(s) PROVE HandInv'
<1>0. status = "bidding" /\ turn = s /\ RoundInv
  BY DEF Auction, Bid, Pass, Redeal, MyTurn, TableInv
<1>1. /\ TypeOK /\ s \in Full(numPlayers) /\ status = "bidding"
      /\ Full(numPlayers) \subseteq seated /\ seated \subseteq Seats
      /\ \A r \in Seats \ Full(numPlayers) : hands[r] = {} /\ points[r] = {}
  BY <1>0, TableIsFull DEF RoundInv, SeatInv, BidInv, TypeInv, AuctionInv, Full
<1>2. ASSUME UNCHANGED <<tableVars, status, hands, kitty>> PROVE HandInv'
  BY <1>1, <1>2 DEF TableInv, HandInv, Held, HandsInStep, tableVars
<1>3. ASSUME NEW b \in BidSet, Bid(s, b) PROVE HandInv'
  BY <1>1, <1>2, <1>3, TakeContractHands DEF Bid
<1>4. ASSUME Pass(s) PROVE HandInv'
  <2>1. CASE Cardinality(passed') = numPlayers - 1 /\ currentBid # NoBid
    <3>1. /\ TakeContract(declarer, currentBid) /\ UNCHANGED <<declarer, tableVars>>
      BY <1>4, <2>1 DEF Pass
    <3>2. declarer \in Full(numPlayers)
      BY <1>1, <2>1 DEF TableInv, RoundInv, BidInv, AuctionInv, Full
    <3> QED  BY <1>1, <3>1, <3>2, TakeContractHands
  <2>2. CASE ~(Cardinality(passed') = numPlayers - 1 /\ currentBid # NoBid)
    BY <1>2, <1>4, <2>2 DEF Pass
  <2> QED  BY <2>1, <2>2
<1>5. ASSUME Redeal(s) PROVE HandInv'
  BY <1>1, <1>5, DealHands DEF Redeal, tableVars
<1> QED  BY <1>3, <1>4, <1>5 DEF Auction

\* The discard makes it as long as the others again.
LEMMA DiscardHands ==
  ASSUME DistinctDiscards, TableInv, NEW s \in Seats, NEW D \in SUBSET hands[s],
         Discard(s, D)
  PROVE  HandInv'
<1>1. TypeOK /\ numPlayers \in Sizes /\ HandSize \in Nat /\ KittySize \in Nat
  BY SizesAssumption DEF TableInv, RoundInv, BidInv, TypeInv, TypeOK
<1>2. /\ status = "exchanging" /\ status' = "calling" /\ s = declarer
      /\ numPlayers' = numPlayers /\ Cardinality(D) = KittySize
      /\ hands' = [hands EXCEPT ![s] = @ \ D]
  BY DEF Discard, IsDiscard, tableVars
<1>3. s \in Full(numPlayers) /\ Full(numPlayers) \subseteq Seats
  BY <1>1, <1>2, FullSeats DEF TableInv, RoundInv, SeatInv
<1>4. \A r \in Seats : hands'[r] = IF r = s THEN hands[r] \ D ELSE hands[r]
  BY <1>1, <1>2 DEF TypeOK
<1>5. \A r \in Full(numPlayers) :
        Held(r) = IF r = s THEN HandSize + KittySize ELSE HandSize
  BY <1>2 DEF TableInv, HandInv
<1>6. Cardinality(hands[s] \ D) = HandSize
  <2>1. IsFiniteSet(hands[s]) /\ hands[s] \cap D = D
    BY <1>1, HandsFinite
  <2>2. Cardinality(hands[s] \ D) = Cardinality(hands[s]) - Cardinality(hands[s] \cap D)
    BY <2>1, FS_Difference
  <2>3. Cardinality(hands[s]) = HandSize + KittySize
    BY <1>3, <1>5 DEF Held
  <2> QED  BY <1>1, <1>2, <2>1, <2>2, <2>3
<1>7. ASSUME NEW r \in Full(numPlayers) PROVE Cardinality(hands'[r]) = HandSize
  <2>1. CASE r = s
    BY <1>3, <1>4, <1>6, <2>1
  <2>2. CASE r # s
    BY <1>3, <1>4, <1>5, <2>2 DEF Held
  <2> QED  BY <2>1, <2>2
<1> QED  BY <1>2, <1>7 DEF HandInv, Held, HandsInStep

\* The first trick is opened with full hands.
LEMMA CallPartnerHands ==
  ASSUME TableInv, NEW s \in Seats, NEW c, CallPartner(s, c) PROVE HandInv'
<1>1. HandSize \in Nat \ {0} /\ numPlayers \in Sizes /\ Full(numPlayers) = 0..(numPlayers - 1)
  BY FullSeats, SizesAssumption DEF TableInv, RoundInv, BidInv, TypeInv, TypeOK
<1>2. /\ status = "calling" /\ status' = "playing" /\ turn' = declarer
      /\ trickNo' = trickNo + 1 /\ trick' = EmptyTrick
      /\ UNCHANGED <<numPlayers, hands>>
  BY DEF CallPartner, tableVars, cardVars
<1>3. trickNo = 0 /\ declarer \in Full(numPlayers)
      /\ \A r \in Full(numPlayers) : Held(r) = HandSize
  BY <1>2 DEF TableInv, RoundInv, BoardInv, Untouched, SeatInv, HandInv
<1>4. Len(trick'.plays) = 0
  BY <1>2 DEF EmptyTrick
<1>5. HandsInStep'
  BY <1>1, <1>2, <1>3, <1>4 DEF HandsInStep, Held, Sizes
<1> QED  BY <1>1, <1>2, <1>3, <1>5 DEF HandInv

\* Counting on from a seat is the same for no two seats.
LEMMA SameDistance ==
  ASSUME NEW n \in Sizes, NEW a \in 0..(n - 1), NEW b \in 0..(n - 1), NEW m \in 1..(n - 1),
         (a + m) % n = (b + m) % n
  PROVE  a = b
<1>1. CASE n = 4
  BY <1>1
<1>2. CASE n = 5
  BY <1>2
<1> QED  BY <1>1, <1>2 DEF Sizes

\* HandsInStep by the names used here.
Due(q, r) == IF \E i \in 1..Len(q) : q[i].seat = r THEN 0 ELSE 1

\* What the order of play says of the player to move and of a full trick.
LEMMA TurnsGoRound ==
  ASSUME NEW n \in Sizes, NEW q \in Seq(Play), Len(q) < n, NEW d \in 0..(n - 1),
         \A i \in 1..Len(q) : q[i].seat \in 0..(n - 1),
         \A i \in 1..Len(q) : (q[i].seat + (Len(q) + 1 - i)) % n = d
  PROVE  /\ Due(q, d) = 1
         /\ \A i \in 1..Len(q) : (q[i].seat + (Len(q) + 2 - i)) % n = (d + 1) % n
         /\ Len(q) = n - 1 => \A r \in 0..(n - 1) : r # d => Due(q, r) = 0
<1> DEFINE k == Len(q)
<1>1. k \in 0..(n - 1) /\ n \in 4..5
  BY DEF Sizes
<1>2. ASSUME NEW i \in 1..k PROVE q[i].seat # d
  <2>1. k + 1 - i \in 1..(n - 1)
    BY <1>1
  <2> DEFINE a == q[i].seat
             m == k + 1 - i
  <2>2. a \in 0..(n - 1) /\ (a + m) % n = d
    OBVIOUS
  <2> HIDE DEF a, m, k
  <2>3. (a + m) % n # a
    BY <2>1, <2>2, NotBack DEF m
  <2> QED  BY <2>2, <2>3 DEF a
<1>3. ASSUME NEW i \in 1..k PROVE (q[i].seat + (k + 2 - i)) % n = (d + 1) % n
  <2> DEFINE a == q[i].seat
             m == k + 1 - i
  <2>5. a \in 0..(n - 1) /\ (a + m) % n = d
    OBVIOUS
  <2>6. m \in 1..4 /\ k + 2 - i = m + 1
    BY <1>1
  <2> HIDE DEF a, m, k
  <2>1. m \in 1..4 /\ a \in 0..4 /\ (a + m) % n = d /\ k + 2 - i = m + 1
    BY <1>1, <2>5, <2>6
  <2>2. a + m \in 0..20 /\ 1 \in 0..20
    BY <2>1
  <2>3. (((a + m) % n) + 1) % n = ((a + m) + 1) % n
    BY <2>2, GoingOn
  <2>4. (a + m) + 1 = a + (m + 1)
    BY <2>1
  <2> QED  BY <2>1, <2>3, <2>4 DEF a
<1>4. ASSUME k = n - 1, NEW r \in 0..(n - 1), r # d PROVE Due(q, r) = 0
  <2>1. PICK m \in 1..(n - 1) : d = (r + m) % n
    BY <1>4, Reached
  <2> DEFINE i == k + 1 - m
             a == q[i].seat
  <2>2. i \in 1..k /\ k + 1 - i = m
    BY <1>1, <1>4, <2>1
  <2>3. a \in 0..(n - 1) /\ (a + m) % n = d
    BY <2>2
  <2> HIDE DEF a, i, k
  <2>4. a = r
    BY <2>1, <2>3, SameDistance
  <2> QED  BY <2>2, <2>4 DEF Due, a, k
<1> QED  BY <1>2, <1>3, <1>4 DEF Due

\* A play takes one card from the hand of the player whose turn it is; when all
\* have played, all hands are equal again.
LEMMA PlayHands ==
  ASSUME TableInv, TypeOK', NEW s \in Seats, NEW c \in hands[s],
         NEW called \in Suit \cup {Unset}, NEW callJoker \in BOOLEAN,
         PlayCard(s, c, called, callJoker)
  PROVE  HandInv'
<1> DEFINE t == Extended(s, c, called, callJoker)
           n == numPlayers
           q == trick.plays
           k == Len(q)
<1>1. CardMoves(s, c, t) /\ RoundInv
  BY PlayFacts DEF TableInv
<1>2. TypeOK /\ n \in Sizes /\ HandSize \in Nat /\ q \in Seq(Play)
      /\ Full(n) = 0..(n - 1) /\ Full(n) \subseteq Seats
  BY FullSeats, SizesAssumption
     DEF TableInv, RoundInv, BidInv, TypeInv, TypeOK, TrickState
<1> HIDE DEF t, n, q
<1>3. /\ status = "playing" /\ s = turn /\ s \in Full(n) /\ c \in hands[s]
      /\ t \in TrickState /\ t.plays = Append(q, [seat |-> s, card |-> c])
      /\ \A i \in DOMAIN t.plays : t.plays[i].seat \in Full(n)
      /\ numPlayers' = n
  BY <1>1 DEF CardMoves, tableVars, n, q
<1>4. \A r \in Seats : hands'[r] = IF r = s THEN hands[r] \ {c} ELSE hands[r]
  BY <1>1 DEF CardMoves
<1>5. /\ Len(t.plays) # n => trick' = t /\ turn' = (turn + 1) % n
                             /\ UNCHANGED <<status, trickNo>>
      /\ Len(t.plays) = n => CompleteTrick(t)
  BY <1>1 DEF CardMoves, n
<1>6. /\ k \in Nat /\ k < n /\ trickNo \in 1..HandSize
      /\ \A i \in 1..k : (q[i].seat + (k + 1 - i)) % n = s
      /\ \A r \in Full(n) : Held(r) = HandSize - trickNo + Due(q, r)
  <2>1. k < n /\ trickNo \in 1..HandSize
        /\ \A i \in 1..k : (q[i].seat + (k + 1 - i)) % n = s
    BY <1>3 DEF TableInv, HandInv, HandsInStep, n, q
  <2>2. \A r \in Full(n) : Held(r) = HandSize - trickNo + Due(q, r)
    BY <1>2, <1>3 DEF TableInv, HandInv, HandsInStep, Due, Held, n, q
  <2>3. k \in Nat
    BY <1>2
  <2> HIDE DEF k
  <2> QED  BY <2>1, <2>2, <2>3
<1>7. /\ Len(t.plays) = k + 1
      /\ \A i \in 1..k : t.plays[i] = q[i]
      /\ t.plays[k + 1].seat = s
  <2> DEFINE x == [seat |-> s, card |-> c]
  <2>1. x \in Play /\ x.seat = s
    BY <1>2, <1>3 DEF Play, Seats, TypeOK
  <2> HIDE DEF x
  <2> QED  BY <1>2, <1>3, <2>1 DEF x
<1>8. \A i \in 1..k : q[i].seat \in 0..(n - 1)
  <2>1. DOMAIN t.plays = 1..(k + 1)
    BY <1>3, <1>7 DEF TrickState
  <2> TAKE i \in 1..k
  <2>2. i \in 1..(k + 1) /\ t.plays[i] = q[i]
    BY <1>6, <1>7
  <2>3. t.plays[i].seat \in Full(n)
    BY <1>3, <2>1, <2>2
  <2> QED  BY <1>2, <2>2, <2>3
<1>9. /\ Due(q, s) = 1
      /\ \A i \in 1..k : (q[i].seat + (k + 2 - i)) % n = (s + 1) % n
      /\ k = n - 1 => \A r \in 0..(n - 1) : r # s => Due(q, r) = 0
  <2>1. /\ n \in Sizes /\ q \in Seq(Play) /\ s \in 0..(n - 1) /\ Len(q) = k
    BY <1>2, <1>3 DEF k
  <2>2. Len(q) < n
    BY <1>6, <2>1
  <2>3. /\ \A i \in 1..Len(q) : q[i].seat \in 0..(n - 1)
        /\ \A i \in 1..Len(q) : (q[i].seat + (Len(q) + 1 - i)) % n = s
    BY <1>6, <1>8, <2>1
  <2> HIDE DEF k
  <2> QED  BY <2>1, <2>2, <2>3, TurnsGoRound
<1>10. \A r \in Full(n) : Due(t.plays, r) = IF r = s THEN 0 ELSE Due(q, r)
  <2> TAKE r \in Full(n)
  <2>1. (\E i \in 1..(k + 1) : t.plays[i].seat = r)
          <=> (r = s \/ \E i \in 1..k : q[i].seat = r)
    <3>1. /\ \A i \in 1..(k + 1) : i \in 1..k \/ i = k + 1
          /\ 1..k \subseteq 1..(k + 1) /\ k + 1 \in 1..(k + 1)
      BY <1>6
    <3> HIDE DEF k
    <3> QED  BY <1>7, <3>1
  <2> QED  BY <1>7, <2>1 DEF Due
<1>11. \A r \in Full(n) : Cardinality(hands'[r]) = HandSize - trickNo + Due(t.plays, r)
  <2> TAKE r \in Full(n)
  <2>1. CASE r = s
    <3>1. IsFiniteSet(hands[s]) /\ Held(s) = HandSize - trickNo + 1
      BY <1>2, <1>3, <1>6, <1>9, HandsFinite
    <3>2. Cardinality(hands[s] \ {c}) = Cardinality(hands[s]) - 1
      BY <1>3, <3>1, FS_RemoveElement
    <3>3. Cardinality(hands'[s]) = Cardinality(hands[s] \ {c})
      BY <1>4
    <3> QED  BY <1>2, <1>6, <1>10, <2>1, <3>1, <3>2, <3>3 DEF Held
  <2>2. CASE r # s
    BY <1>2, <1>4, <1>6, <1>10, <2>2 DEF Held
  <2> QED  BY <2>1, <2>2
<1>12. CASE Len(t.plays) # n
  <2>1. trick' = t /\ turn' = (s + 1) % n /\ UNCHANGED <<status, trickNo>>
    BY <1>3, <1>5, <1>12
  <2>2. k + 1 < n /\ (s + 1) % n \in 0..(n - 1)
    BY <1>2, <1>3, <1>6, <1>7, <1>12 DEF Sizes
  <2>3. \A i \in 1..(k + 1) : (t.plays[i].seat + ((k + 1) + 1 - i)) % n = (s + 1) % n
    <3> TAKE i \in 1..(k + 1)
    <3>1. CASE i \in 1..k
      <4>1. (k + 1) + 1 - i = k + 2 - i /\ t.plays[i].seat = q[i].seat
        BY <1>6, <1>7, <3>1
      <4> QED  BY <1>9, <3>1, <4>1
    <3>2. CASE i = k + 1
      <4>1. (k + 1) + 1 - i = 1 /\ t.plays[i].seat = s
        BY <1>6, <1>7, <3>2
      <4> QED  BY <4>1
    <3> QED  BY <1>6, <3>1, <3>2
  <2>4. HandsInStep'
    <3>1. /\ Len(trick'.plays) = k + 1 /\ numPlayers' = n
          /\ trick'.plays = t.plays /\ trickNo' = trickNo
      BY <1>3, <1>7, <2>1
    <3> QED  BY <1>2, <1>11, <2>1, <2>2, <2>3, <3>1 DEF HandsInStep, Due
  <2> QED  BY <1>3, <1>6, <2>1, <2>4 DEF HandInv
<1>13. CASE Len(t.plays) = n
  <2>1. PICK w \in Full(n) :
          /\ turn' = w
          /\ \/ status' = "finished" /\ trickNo = HandSize
             \/ /\ trickNo # HandSize /\ trick' = EmptyTrick /\ trickNo' = trickNo + 1
                /\ status' = status
    BY <1>2, <1>3, <1>5, <1>13, TrickTaken DEF n
  <2>4. \A r \in Full(n) : Cardinality(hands'[r]) = HandSize - trickNo
    <3>1. k = n - 1
      BY <1>2, <1>6, <1>7, <1>13 DEF Sizes
    <3>2. \A r \in Full(n) : Due(t.plays, r) = 0
      BY <1>2, <1>9, <1>10, <3>1
    <3> QED  BY <1>2, <1>6, <1>11, <3>2
  <2>2. CASE status' = "finished" /\ trickNo = HandSize
    <3>1. ASSUME NEW r \in Seats, r \in Full(n) PROVE hands'[r] = {}
      <4>1. IsFiniteSet(hands'[r])
        BY CardsFinite, FS_Subset DEF TypeOK
      <4>2. Cardinality(hands'[r]) = 0
        BY <1>2, <2>2, <2>4, <3>1
      <4> QED  BY <4>1, <4>2, FS_EmptySet
    <3>2. ASSUME NEW r \in Seats, r \notin Full(n) PROVE hands'[r] = {}
      BY <1>1, <1>4, <3>2 DEF RoundInv, SeatInv, n
    <3> QED  BY <2>2, <3>1, <3>2, PlayedOut
  <2>3. CASE /\ trickNo # HandSize /\ trick' = EmptyTrick /\ trickNo' = trickNo + 1
             /\ status' = status
    <3>1. trickNo' \in 1..HandSize
      BY <1>2, <1>6, <2>3
    <3>3. Len(trick'.plays) = 0
      BY <2>3 DEF EmptyTrick
    <3>4. 0 < n /\ turn' \in 0..(n - 1)
      BY <1>2, <2>1 DEF Sizes
    <3>5. \A r \in Full(n) : Cardinality(hands'[r]) = HandSize - trickNo' + 1
      BY <1>2, <1>6, <2>3, <2>4
    <3>6. HandsInStep'
      BY <1>2, <1>3, <3>3, <3>4, <3>5 DEF HandsInStep
    <3> QED  BY <1>3, <2>3, <3>1, <3>6 DEF HandInv
  <2> QED  BY <2>1, <2>2, <2>3
<1> QED  BY <1>12, <1>13

\* The first state.
LEMMA InitTable == Init => TableInv
BY InitRound DEF Init, TableInv, HandInv, HandsInStep

\* Every step, those that change the size included.
LEMMA StepTable ==
  NoLateJoiner /\ DistinctDiscards /\ TableInv /\ [Next]_vars => TableInv'
<1> SUFFICES ASSUME NoLateJoiner, DistinctDiscards, TableInv, [Next]_vars
             PROVE  RoundInv' /\ HandInv'
  BY DEF TableInv
<1>9. RoundInv'
  <2>1. numPlayers' = numPlayers \/ \A r \in Seats : hands[r] = {}
    BY SizeChanges DEF TableInv, HandInv
  <2> QED  BY <2>1, StepRound DEF TableInv
<1>1. RoundInv /\ RoundInv' /\ TypeOK /\ TypeOK' /\ numPlayers \in Sizes
  BY <1>9 DEF TableInv, RoundInv, BidInv, TypeInv, TypeOK
<1>2. \A r \in Seats \ Full(numPlayers) : hands[r] = {}
  BY <1>1 DEF RoundInv, SeatInv
<1>3. ASSUME NEW s \in Seats, Exchange(s) PROVE HandInv'
  BY <1>3, DiscardHands, CallPartnerHands DEF Exchange
<1>4. ASSUME NEW s \in Seats, PlayMove(s) PROVE HandInv'
  BY <1>1, <1>4, PlayHands DEF PlayMove
<1>5. ASSUME NEW s \in Seats, Join(s) PROVE HandInv'
  <2>1. s \in Full(numPlayers) /\ s \notin seated /\ seated' = seated \cup {s}
        /\ UNCHANGED numPlayers
    BY <1>1, <1>5 DEF Join, Full, Sizes, Seats
  <2>2. status = "waiting"
    BY <1>1, <2>1, TableIsFull
  <2>5. seated' \subseteq Seats /\ \A r \in Seats : points[r] = {}
    BY <1>1, <2>1, <2>2 DEF TypeOK, RoundInv, BoardInv
  <2>3. CASE IsFull(seated')
    <3>1. Start(seated', 0, points)
      BY <1>5, <2>3 DEF Join
    <3>2. Full(numPlayers) \subseteq seated'
      BY <1>1, <2>1, <2>3, FullSeats DEF IsFull
    <3> QED  BY <1>1, <1>2, <2>1, <2>5, <3>1, <3>2, DealHands
  <2>4. CASE ~IsFull(seated')
    BY <1>5, <2>2, <2>4 DEF Join, HandInv, HandsInStep
  <2> QED  BY <2>3, <2>4
<1>6. ASSUME NEW s \in Seats, NextRound(s) PROVE HandInv'
  <2> DEFINE none == [r \in Seats |-> {}]
  <2>1. Start(seated, dealer', none) /\ status = "finished" /\ UNCHANGED numPlayers
    BY <1>6 DEF NextRound, Between
  <2>2. Full(numPlayers) \subseteq seated /\ seated \subseteq Seats
    BY <1>1, <2>1, TableIsFull
  <2>3. \A r \in Seats : none[r] = {}
    OBVIOUS
  <2> HIDE DEF none
  <2> QED  BY <1>1, <1>2, <2>1, <2>2, <2>3, DealHands
<1>7. ASSUME NEW s \in Seats,
             PlayAgain(s) \/ \E n \in ConfigChoices : ChangeConfig(s, n)
      PROVE  HandInv'
  <2>1. status = "finished" /\ UNCHANGED <<status, hands>>
    BY <1>7 DEF PlayAgain, ChangeConfig, Between, cardVars
  <2>2. \A r \in Seats : hands'[r] = {}
    BY <2>1 DEF TableInv, HandInv
  <2> QED  BY <2>1, <2>2, PlayedOut
<1>8. ASSUME UNCHANGED vars PROVE HandInv'
  BY <1>8 DEF vars, tableVars, auctionVars, cardVars, trickVars, TableInv, HandInv,
     HandsInStep, Held
<1> QED
  BY <1>3, <1>4, <1>5, <1>6, <1>7, <1>8, <1>9, AuctionHands DEF Next, Over, Lobby

\* In every trick of every round the turn goes round the table once, and every
\* hand is as long as the tricks to come (processPlayCard).
THEOREM HandsStayInStep ==
  ASSUME NoLateJoiner, DistinctDiscards PROVE Spec => []HandsInStep
<1>1. TableInv /\ [Next]_vars => TableInv'
  BY StepTable
<1>2. TableInv => HandsInStep
  BY DEF TableInv, HandInv
<1> QED  BY InitTable, <1>1, <1>2, PTL DEF Spec

----------------------------------------------------------------------------
(* Where the cards are *)

\* A table that keeps its size is the one it was made as, and nobody else is there.
ClosedInv == numPlayers \in StartSizes /\ seated \subseteq Full(numPlayers)

LEMMA StepClosed ==
  ASSUME SizeStays, TypeOK, ClosedInv, [Next]_vars
  PROVE  ClosedInv' /\ numPlayers' = numPlayers
<1>1. numPlayers' = numPlayers
  BY SizeChanges DEF SizeStays, ClosedInv
<1>2. ASSUME NEW s \in Seats, Join(s) PROVE seated' \subseteq Full(numPlayers)
  <2>1. s \in Full(numPlayers) /\ seated' = seated \cup {s}
    BY <1>2 DEF Join, Full, Sizes, Seats, TypeOK
  <2> QED  BY <2>1 DEF ClosedInv
<1>3. seated' = seated \/ \E s \in Seats : Join(s)
  <2>1. ASSUME NEW s \in Seats, Auction(s) \/ Exchange(s) \/ PlayMove(s)
        PROVE  seated' = seated
    BY <2>1 DEF Auction, Bid, Pass, Redeal, Exchange, Discard, CallPartner, PlayMove,
       PlayCard, tableVars
  <2>2. ASSUME NEW s \in Seats, Lobby(s), ~Join(s) PROVE seated' = seated
    BY <2>2 DEF Lobby, PlayAgain, NextRound, ChangeConfig, tableVars
  <2>3. CASE UNCHANGED vars
    BY <2>3 DEF vars, tableVars
  <2> QED  BY <2>1, <2>2, <2>3 DEF Next, Over
<1> QED  BY <1>1, <1>2, <1>3 DEF ClosedInv

\* The first state of one.
LEMMA InitClosed == Init => ClosedInv
BY DEF Init, ClosedInv

\* Both together are inductive.
LEMMA StepClosedRound ==
  SizeStays /\ RoundInv /\ ClosedInv /\ [Next]_vars => RoundInv' /\ ClosedInv'
<1> SUFFICES ASSUME SizeStays, RoundInv, ClosedInv, [Next]_vars
             PROVE  RoundInv' /\ ClosedInv'
  OBVIOUS
<1>1. ClosedInv' /\ numPlayers' = numPlayers
  BY StepClosed DEF RoundInv, BidInv, TypeInv
<1> QED  BY <1>1, NobodyIsLate, StepRound

\* The invariant of the rounds, at either kind of table.
LEMMA RoundsAreSound == ASSUME SafeResize PROVE Spec => []RoundInv
<1>1. CASE SizeStays
  <2>1. RoundInv /\ ClosedInv /\ [Next]_vars => RoundInv' /\ ClosedInv'
    BY <1>1, StepClosedRound
  <2> QED  BY InitRound, InitClosed, <2>1, PTL DEF Spec
<1>2. CASE NoLateJoiner /\ DistinctDiscards
  <2>1. TableInv /\ [Next]_vars => TableInv'
    BY <1>2, StepTable
  <2>2. TableInv => RoundInv
    BY DEF TableInv
  <2> QED  BY InitTable, <2>1, <2>2, PTL DEF Spec
<1> QED  BY <1>1, <1>2 DEF SafeResize

\* Through deals, the exchange, the play and any number of rounds no card is in
\* two places (processDiscard, processPlayCard, dealCards, resetForNextRound).
THEOREM CardsKeepTheirPlace == ASSUME SafeResize PROVE Spec => []OnePlacePerCard
<1>1. RoundInv => OnePlacePerCard
  BY DEF RoundInv
<1> QED  BY RoundsAreSound, <1>1, PTL

----------------------------------------------------------------------------
(* The friend *)

\* A play moves the called card from a hand to what the same seat has played, so
\* the search for the friend finds her again.
LEMMA FriendKeepsSeat ==
  ASSUME RoundInv, TypeInv', PlayedInv', NEW s \in Seats, NEW c \in hands[s], NEW t,
         CardMoves(s, c, t)
  PROVE  (FriendSeat)' = FriendSeat
<1> DEFINE pc == partnerCard
<1>1. /\ hands \in [Seats -> SUBSET Card] /\ played \in [Seats -> SUBSET Card]
      /\ hands' \in [Seats -> SUBSET Card] /\ played' \in [Seats -> SUBSET Card]
  BY DEF RoundInv, BidInv, TypeInv, TypeOK
<1>2. /\ \A r \in Seats : hands'[r] = IF r = s THEN hands[r] \ {c} ELSE hands[r]
      /\ \A r \in Seats : played'[r] = IF r = s THEN played[r] \cup {c} ELSE played[r]
      /\ partnerCard' = pc /\ noFriend' = noFriend /\ status = "playing"
  BY DEF CardMoves
<1>3. /\ \A r, q \in Seats : r # q => hands[r] \cap hands[q] = {}
      /\ \A r, q \in Seats : r # q => played[r] \cap played[q] = {}
      /\ \A r, q \in Seats : played[r] \cap hands[q] = {}
      /\ \A r, q \in Seats : r # q => played'[r] \cap played'[q] = {}
      /\ \A r, q \in Seats : played'[r] \cap hands'[q] = {}
  BY DEF RoundInv, OnePlacePerCard, PlayedInv
<1> HIDE DEF pc
<1>4. ASSUME NEW f \in [Seats -> SUBSET Card], NEW r \in Seats, pc \in f[r],
             \A q \in Seats : q # r => pc \notin f[q]
      PROVE  SeatOf(f, pc) = r
  BY <1>4, SeatFound
<1>5. CASE pc = c
  <2>1. SeatOf(hands, pc) = s
    BY <1>1, <1>3, <1>4, <1>5
  <2>2. SeatOf(hands', pc) = Nobody
    <3>1. \A r \in Seats : pc \notin hands'[r]
      BY <1>2, <1>3, <1>5
    <3> QED  BY <1>1, <3>1, SeatFound
  <2>3. SeatOf(played', pc) = s
    <3>1. pc \in played'[s]
      BY <1>2, <1>5
    <3>2. \A q \in Seats : q # s => pc \notin played'[q]
      BY <1>3, <3>1
    <3> QED  BY <1>1, <1>4, <3>1, <3>2
  <2>4. s # Nobody
    BY DEF Seats, Nobody
  <2> QED  BY <1>2, <2>1, <2>2, <2>3, <2>4 DEF FriendSeat, pc
<1>6. CASE pc # c
  <2>1. \A r \in Seats : (pc \in hands'[r] <=> pc \in hands[r])
                         /\ (pc \in played'[r] <=> pc \in played[r])
    BY <1>2, <1>6
  <2>2. ASSUME NEW f \in [Seats -> SUBSET Card], NEW g \in [Seats -> SUBSET Card],
               \A r, q \in Seats : r # q => f[r] \cap f[q] = {},
               \A r \in Seats : pc \in g[r] <=> pc \in f[r]
        PROVE  SeatOf(g, pc) = SeatOf(f, pc)
    <3>1. CASE \A r \in Seats : pc \notin f[r]
      BY <2>2, <3>1, SeatFound
    <3>2. CASE \E r \in Seats : pc \in f[r]
      <4>1. PICK r \in Seats : pc \in f[r]
        BY <3>2
      <4>2. \A q \in Seats : q # r => pc \notin f[q] /\ pc \notin g[q]
        BY <2>2, <4>1
      <4> QED  BY <1>4, <2>2, <4>1, <4>2
    <3> QED  BY <3>1, <3>2
  <2>3. SeatOf(hands', pc) = SeatOf(hands, pc)
    BY <1>1, <1>3, <2>1, <2>2
  <2>4. SeatOf(played', pc) = SeatOf(played, pc)
    BY <1>1, <1>3, <2>1, <2>2
  <2> QED  BY <1>2, <2>3, <2>4 DEF FriendSeat, pc
<1> QED  BY <1>5, <1>6

\* Who may be shown: nobody but the friend, and for good.
LEMMA PlayReveals ==
  ASSUME RoundInv, RevealSound, RoundInv', NEW s \in Seats, NEW c \in hands[s],
         NEW called \in Suit \cup {Unset}, NEW callJoker \in BOOLEAN,
         PlayCard(s, c, called, callJoker)
  PROVE  /\ (FriendSeat)' = FriendSeat /\ RevealSound'
         /\ partnerSeat # Nobody => partnerSeat' = partnerSeat
<1> DEFINE t == Extended(s, c, called, callJoker)
<1>1. CardMoves(s, c, t)
  BY PlayFacts
<1> HIDE DEF t
<1>2. (FriendSeat)' = FriendSeat
  BY <1>1, FriendKeepsSeat DEF RoundInv, BidInv
<1>3. \/ partnerSeat' = partnerSeat
      \/ partnerSeat = Nobody /\ partnerSeat' = (FriendSeat)'
  <2>1. CASE Len(t.plays) # numPlayers
    BY <1>1, <2>1 DEF CardMoves
  <2>2. CASE Len(t.plays) = numPlayers
    <3>1. CompleteTrick(t)
      BY <1>1, <2>2 DEF CardMoves
    <3>2. \E w : partnerSeat' = Reveal(t, w, (FriendSeat)')
      BY <3>1 DEF CompleteTrick
    <3> QED  BY <3>2 DEF Reveal
  <2> QED  BY <2>1, <2>2
<1> QED  BY <1>2, <1>3 DEF RevealSound

\* Before the play nobody is shown.
LEMMA NobodyShown ==
  ASSUME RoundInv, status \in {"waiting", "bidding", "exchanging", "calling"}
  PROVE  partnerSeat = Nobody
BY DEF RoundInv, BoardInv, Untouched

\* A play ends in the play or in the end of the round.
LEMMA PlayStays ==
  ASSUME NEW s \in Seats, PlayMove(s)
  PROVE  status = "playing" /\ status' \in {"playing", "finished"}
<1>1. PICK c \in hands[s], called \in Suit \cup {Unset}, callJoker \in BOOLEAN :
        PlayCard(s, c, called, callJoker)
  BY DEF PlayMove
<1> DEFINE t == Extended(s, c, called, callJoker)
<1>2. status = "playing" /\ (CompleteTrick(t) \/ UNCHANGED status)
  BY <1>1 DEF PlayCard, MyTurn
<1> HIDE DEF t
<1> QED  BY <1>2 DEF CompleteTrick, FinishRound

\* While cards are played nothing else happens.
LEMMA OnlyPlays ==
  ASSUME RoundInv, status = "playing", Next
  PROVE  \E s \in Seats : PlayMove(s)
<1>1. ASSUME NEW s \in Seats, Join(s) PROVE FALSE
  <2>1. Full(numPlayers) \subseteq seated /\ numPlayers \in Sizes
    BY TableIsFull DEF RoundInv, BidInv, TypeInv, TypeOK
  <2> QED  BY <1>1, <2>1 DEF Join, Full, Sizes, Seats
<1> QED
  BY <1>1 DEF Next, Over, Auction, Bid, Pass, Redeal, MyTurn, Exchange, Discard,
     CallPartner, Lobby, PlayAgain, NextRound, ChangeConfig, Between

\* The steps that do not play a card show nobody, or leave who is shown.
LEMMA StepReveals ==
  RoundInv /\ RoundInv' /\ RevealSound /\ [Next]_vars => RevealSound'
<1> SUFFICES ASSUME RoundInv, RoundInv', RevealSound, [Next]_vars PROVE RevealSound'
  OBVIOUS
<1>2. ASSUME UNCHANGED <<partnerCard, partnerSeat, noFriend, hands, played>>
      PROVE  RevealSound'
  BY <1>2 DEF RevealSound, FriendSeat
<1>3. CASE UNCHANGED vars
  BY <1>2, <1>3 DEF vars, friendVars, cardVars, trickVars
<1>4. ASSUME NEW s \in Seats, Auction(s) PROVE RevealSound'
  <2>1. partnerSeat' = Nobody
    BY <1>4, NobodyShown DEF Auction, Bid, Pass, Redeal, MyTurn, ClearBoard, friendVars
  <2> QED  BY <2>1 DEF RevealSound
<1>5. ASSUME NEW s \in Seats, Exchange(s) PROVE RevealSound'
  <2>1. partnerSeat' = Nobody
    BY <1>5, NobodyShown DEF Exchange, Discard, CallPartner, friendVars
  <2> QED  BY <2>1 DEF RevealSound
<1>6. ASSUME NEW s \in Seats, PlayMove(s) PROVE RevealSound'
  BY <1>6, PlayReveals DEF PlayMove
<1>7. ASSUME NEW s \in Seats, Lobby(s) PROVE RevealSound'
  <2>1. ASSUME Join(s) PROVE partnerSeat' = Nobody
    <3>1. s \in Full(numPlayers) /\ s \notin seated
      BY <2>1 DEF Join, Full, Seats, RoundInv, BidInv, TypeInv, TypeOK, Sizes
    <3>2. status = "waiting"
      BY <3>1, TableIsFull
    <3> QED  BY <2>1, <3>2, NobodyShown DEF Join, friendVars
  <2>2. ASSUME NextRound(s) PROVE partnerSeat' = Nobody
    BY <2>2 DEF NextRound, ClearBoard
  <2>3. ASSUME PlayAgain(s) \/ \E n \in ConfigChoices : ChangeConfig(s, n)
        PROVE  RevealSound'
    BY <1>2, <2>3 DEF PlayAgain, ChangeConfig, friendVars, cardVars, trickVars
  <2> QED  BY <1>7, <2>1, <2>2, <2>3 DEF Lobby, RevealSound
<1> QED  BY <1>3, <1>4, <1>5, <1>6, <1>7 DEF Next, Over

\* Who is shown as the partner (processPlayCard) is always who holds or played the
\* called card, at every moment of every round.
THEOREM RevealIsTrue == ASSUME SafeResize PROVE Spec => []RevealSound
<1>1. Init => RevealSound
  BY DEF Init, RevealSound
<1> QED  BY RoundsAreSound, StepReveals, <1>1, PTL DEF Spec

\* friendSeat, which the code works out anew at every use, does not change its
\* answer between the call and the scoring, and who is shown stays so.
THEOREM FriendStaysTheFriend == ASSUME SafeResize PROVE Spec => FriendStable
<1> DEFINE Same == status = "playing" =>
                     /\ (FriendSeat)' = FriendSeat
                     /\ partnerSeat # Nobody => partnerSeat' = partnerSeat
<1>4. RoundInv /\ RoundInv' /\ RevealSound /\ [Next]_vars => [Same]_vars
  <2> SUFFICES ASSUME RoundInv, RoundInv', RevealSound, Next, status = "playing" PROVE Same
    OBVIOUS
  <2>1. PICK s \in Seats : PlayMove(s)
    BY OnlyPlays
  <2> QED  BY <2>1, PlayReveals DEF PlayMove
<1> QED  BY RoundsAreSound, RevealIsTrue, <1>4, PTL DEF Spec, FriendStable

----------------------------------------------------------------------------
(* What a round is worth, and who starts the next *)

\* The scores of a round sum to zero: the scored table is full, and caller and
\* friend sit at it.
LEMMA FinalScoresSum ==
  ASSUME RoundInv, ClosedInv, status = "playing", NEW friend \in NoSeat..(numPlayers - 1),
         NEW won \in [Seats -> SUBSET Card]
  PROVE  ScoreSum(FinalScores(friend, won)) = 0
<1> DEFINE captured == [s \in Seats |-> Cardinality(won[s])]
<1>1. captured \in [Seats -> Int]
  <2>1. \A s \in Seats : IsFiniteSet(won[s])
    BY CardsFinite, FS_Subset
  <2>2. \A s \in Seats : Cardinality(won[s]) \in Nat
    BY <2>1, FS_CardinalityType
  <2> QED  BY <2>2
<1>2. /\ numPlayers \in {4, 5} /\ contract.points \in Int /\ noFriend \in BOOLEAN
      /\ FailDist \in FailDists
  BY InputsAssumption DEF RoundInv, BidInv, TypeInv, TypeOK, Sizes, Bids
<1>3. seated = Full(numPlayers) /\ declarer \in Full(numPlayers)
  BY TableIsFull DEF ClosedInv, RoundInv, SeatInv
<1> DEFINE bid == contract.points
           noTrump == contract.suit = NoSuit
<1>4. noTrump \in BOOLEAN /\ bid \in Int
  BY <1>2
<1> HIDE DEF captured, bid, noTrump
<1>5. ScoreSum(RoundScores(numPlayers, FailDist, Full(numPlayers), declarer, friend,
                           bid, noTrump, noFriend, captured)) = 0
  BY ONLY <1>1, <1>2, <1>3, <1>4, RoundIsZeroSum, friend \in NoSeat..(numPlayers - 1)
<1> QED  BY <1>3, <1>5 DEF FinalScores, captured, bid, noTrump

\* The friend sits at the table: the others have held and played nothing.
LEMMA FriendAtTable ==
  ASSUME RoundInv, status = "playing"
  PROVE  FriendSeat \in NoSeat..(numPlayers - 1)
<1>1. /\ hands \in [Seats -> SUBSET Card] /\ played \in [Seats -> SUBSET Card]
      /\ numPlayers \in Sizes
  BY DEF RoundInv, BidInv, TypeInv, TypeOK
<1>2. \A s \in Seats \ Full(numPlayers) : hands[s] = {} /\ played[s] = {}
  BY DEF RoundInv, SeatInv
<1>3. Full(numPlayers) = 0..(numPlayers - 1)
  BY <1>1, FullSeats
<1>4. ASSUME NEW f \in [Seats -> SUBSET Card],
             \A s \in Seats \ Full(numPlayers) : f[s] = {}
      PROVE  SeatOf(f, partnerCard) \in Full(numPlayers) \cup {Nobody}
  BY <1>4, SeatFound
<1>5. FriendSeat \in Full(numPlayers) \cup {Nobody}
  BY <1>1, <1>2, <1>4 DEF FriendSeat
<1> QED  BY <1>1, <1>3, <1>5 DEF Nobody, NoSeat, Sizes

\* Sums of totals and scores add up.
LEMMA SumsAdd ==
  ASSUME NEW f \in [Seats -> Int], NEW g \in [Seats -> Int], NEW h,
         h = [s \in Seats |-> f[s] + g[s]], ScoreSum(f) = 0, ScoreSum(g) = 0
  PROVE  ScoreSum(h) = 0
<1>1. \A s \in 0..4 : h[s] = f[s] + g[s] /\ f[s] \in Int /\ g[s] \in Int
  BY DEF Seats
<1> QED  BY <1>1 DEF ScoreSum

\* Only the end of a round and the start of the next one touch the scores.
LEMMA StepZeroSum ==
  RoundInv /\ ClosedInv /\ RoundInv' /\ TotalsZeroSum /\ [Next]_vars => TotalsZeroSum'
<1> SUFFICES ASSUME RoundInv, ClosedInv, RoundInv', TotalsZeroSum, [Next]_vars
             PROVE  TotalsZeroSum'
  OBVIOUS
<1>1. /\ scores \in [Seats -> Int] /\ totals \in [Seats -> Int]
      /\ scores' \in [Seats -> Int] /\ points' \in [Seats -> SUBSET Card]
  BY DEF RoundInv, BidInv, TypeInv, TypeOK
<1>2. ASSUME UNCHANGED resultVars PROVE TotalsZeroSum'
  BY <1>2 DEF TotalsZeroSum, resultVars
<1>3. ASSUME NEW s \in Seats, NEW c \in hands[s], NEW called \in Suit \cup {Unset},
             NEW callJoker \in BOOLEAN, PlayCard(s, c, called, callJoker)
      PROVE  TotalsZeroSum'
  <2> DEFINE t == Extended(s, c, called, callJoker)
  <2>1. CardMoves(s, c, t)
    BY <1>3, PlayFacts
  <2> HIDE DEF t
  <2>2. CASE UNCHANGED resultVars
    BY <1>2, <2>2
  <2>3. CASE FinishRound(t, (FriendSeat)', points')
    <3>1. (FriendSeat)' = FriendSeat
      BY <2>1, FriendKeepsSeat DEF RoundInv, BidInv
    <3>2. FriendSeat \in NoSeat..(numPlayers - 1) /\ status = "playing"
      BY <2>1, FriendAtTable DEF CardMoves
    <3>3. scores' = FinalScores(FriendSeat, points')
          /\ totals' = [r \in Seats |-> totals[r] + scores'[r]]
      BY <2>3, <3>1 DEF FinishRound
    <3>4. ScoreSum(scores') = 0
      BY <1>1, <3>2, <3>3, FinalScoresSum
    <3>5. ScoreSum(totals') = 0
      BY <1>1, <3>3, <3>4, SumsAdd DEF TotalsZeroSum
    <3> QED  BY <3>4, <3>5 DEF TotalsZeroSum
  <2>4. UNCHANGED resultVars \/ FinishRound(t, (FriendSeat)', points')
    <3>1. CASE Len(t.plays) # numPlayers
      BY <2>1, <3>1 DEF CardMoves
    <3>2. CASE Len(t.plays) = numPlayers
      <4>1. /\ CompleteTrick(t) /\ t \in TrickState /\ TypeOK
            /\ \A i \in DOMAIN t.plays : t.plays[i].seat \in Full(numPlayers)
        BY <2>1, <3>2 DEF CardMoves, RoundInv, BidInv, TypeInv
      <4> QED  BY <3>2, <4>1, TrickTaken
    <3> QED  BY <3>1, <3>2
  <2> QED  BY <2>2, <2>3, <2>4
<1>4. ASSUME NEW s \in Seats, NextRound(s) PROVE TotalsZeroSum'
  <2>1. scores' = [r \in Seats |-> 0] /\ totals' = totals
    BY <1>4 DEF NextRound
  <2>2. ScoreSum(scores') = 0
    BY <2>1 DEF ScoreSum, Seats
  <2> QED  BY <2>1, <2>2 DEF TotalsZeroSum
<1>5. ASSUME NEW s \in Seats, Auction(s) \/ Exchange(s) PROVE UNCHANGED resultVars
  BY <1>5 DEF Auction, Bid, Pass, Redeal, Exchange, Discard, CallPartner
<1>6. ASSUME NEW s \in Seats,
             Join(s) \/ PlayAgain(s) \/ \E n \in ConfigChoices : ChangeConfig(s, n)
      PROVE  UNCHANGED resultVars
  BY <1>6 DEF Join, PlayAgain, ChangeConfig
<1> QED
  BY <1>2, <1>3, <1>4, <1>5, <1>6 DEF Next, Over, Lobby, PlayMove, vars

\* A round moves points between the players and makes none, in every round of
\* every game (CalculateFinalScore, updateTotalScores).
THEOREM GameIsZeroSum == ASSUME SizeStays PROVE Spec => []TotalsZeroSum
<1>1. RoundInv /\ ClosedInv /\ [Next]_vars => RoundInv' /\ ClosedInv'
  BY StepClosedRound
<1>2. RoundInv /\ ClosedInv /\ RoundInv' /\ TotalsZeroSum /\ [Next]_vars => TotalsZeroSum'
  BY StepZeroSum
<1>3. Init => TotalsZeroSum
  BY DEF Init, TotalsZeroSum, ScoreSum, Seats
<1> QED  BY InitRound, InitClosed, <1>1, <1>2, <1>3, PTL DEF Spec

\* A new round needs everyone's vote: as many votes as seats, all from the
\* table, are the votes of the table (processPlayAgain).
THEOREM NextRoundByConsent == ASSUME SizeStays PROVE Spec => EveryoneConsents
<1> DEFINE Consent == rounds > 0 /\ status = "finished" /\ status' = "bidding" =>
                        \E s \in seated : 0..(numPlayers' - 1) \subseteq votes \cup {s}
<1>1. RoundInv /\ ClosedInv /\ [Next]_vars => RoundInv' /\ ClosedInv'
  BY StepClosedRound
<1>2. RoundInv /\ ClosedInv /\ [Next]_vars => [Consent]_vars
  <2> SUFFICES ASSUME RoundInv, ClosedInv, Next, status = "finished", status' = "bidding"
               PROVE  \E s \in seated : 0..(numPlayers' - 1) \subseteq votes \cup {s}
    OBVIOUS
  <2>1. numPlayers \in Sizes /\ seated = Full(numPlayers) /\ votes \subseteq seated
    BY TableIsFull DEF ClosedInv, RoundInv, BidInv, TypeInv, TypeOK, SeatInv
  <2>2. PICK s \in Seats : NextRound(s)
    <3>1. ASSUME NEW s \in Seats, Join(s) PROVE FALSE
      BY <2>1, <3>1 DEF Join, Full, Sizes, Seats
    <3> QED
      BY <3>1 DEF Next, Over, Auction, Bid, Pass, Redeal, MyTurn, Exchange, Discard,
         CallPartner, PlayMove, PlayCard, Lobby, PlayAgain, ChangeConfig, Between, vars
  <2>3. s \in seated /\ Cardinality(votes \cup {s}) = numPlayers /\ numPlayers' = numPlayers
    BY <2>2 DEF NextRound, Between, Unanimous
  <2>4. votes \cup {s} \subseteq Full(numPlayers)
    BY <2>1, <2>3
  <2>5. IsFiniteSet(Full(numPlayers)) /\ Cardinality(Full(numPlayers)) = numPlayers
    BY <2>1, SeatsCount, FullSeats
  <2>6. votes \cup {s} = Full(numPlayers)
    BY <2>3, <2>4, <2>5, FS_Subset
  <2> QED  BY <2>3, <2>6 DEF Full
<1> QED  BY InitRound, InitClosed, <1>1, <1>2, PTL DEF Spec, EveryoneConsents

\* What a deal for a full table leaves on a clear board.
LEMMA DealIsFresh ==
  ASSUME TypeOK, NEW table, NEW opener, NEW won, Start(table, opener, won),
         Full(numPlayers) \subseteq table, table \subseteq Seats, UNCHANGED numPlayers,
         \A s \in Seats \ Full(numPlayers) : hands[s] = {} /\ won[s] = {},
         Untouched', currentBid' = NoBid, declarer' = Nobody, passed' = {}, votes' = {}
  PROVE  FreshBoard'
<1>1. /\ \A s \in Seats : points'[s] = {}
      /\ \A s \in Full(numPlayers) : Cardinality(hands'[s]) = HandSize
      /\ \A s \in Seats \ Full(numPlayers) : hands'[s] = {}
  BY DealFacts
<1>2. \A s \in Seats : s \in Full(numPlayers) <=> s < numPlayers
  BY DEF TypeOK, Full, Sizes, Seats
<1>3. \A s \in Seats :
        Cardinality(hands'[s]) = IF s < numPlayers THEN HandSize ELSE 0
  BY <1>1, <1>2, FS_EmptySet
<1> QED  BY <1>1, <1>3 DEF FreshBoard, Untouched

\* When everyone but one has passed, the last one bids or throws the hand in.
LEMMA LastPassRedeals ==
  ASSUME RoundInv, NEW s \in Seats, Pass(s), Cardinality(passed) = numPlayers - 1
  PROVE  FALSE
<1>1. /\ passed \subseteq 0..(numPlayers - 1) /\ numPlayers \in Sizes
      /\ s \notin passed /\ Cardinality(passed \cup {s}) # numPlayers
  BY DEF RoundInv, BidInv, AuctionInv, TypeInv, TypeOK, Pass, MyTurn
<1>2. IsFiniteSet(passed)
  BY <1>1, SeatsCount, FS_Subset
<1>3. Cardinality(passed \cup {s}) = Cardinality(passed) + 1
  BY <1>1, <1>2, FS_AddElement
<1> QED  BY <1>1, <1>3 DEF Sizes

\* Nothing of an earlier round, of a hand that was thrown in or of the wait for
\* players is left when an auction opens (Game.Start, resetForNextRound, ApplyMove).
THEOREM AuctionOpensFresh == ASSUME SafeResize PROVE Spec => FreshAuction
<1> DEFINE Fresh == (status # "bidding" \/ ThrownIn) /\ status' = "bidding" => FreshBoard'
<1>2. RoundInv /\ RoundInv' /\ [Next]_vars => [Fresh]_vars
  <2> SUFFICES ASSUME RoundInv, RoundInv', Next, status # "bidding" \/ ThrownIn,
                      status' = "bidding"
               PROVE  FreshBoard' \/ UNCHANGED vars
    OBVIOUS
  <2>1. /\ TypeOK /\ numPlayers \in Sizes
        /\ \A r \in Seats \ Full(numPlayers) : hands[r] = {}
    BY DEF RoundInv, BidInv, TypeInv, TypeOK, SeatInv
  <2>2. ASSUME NEW s \in Seats, Join(s) PROVE FreshBoard'
    <3>1. s \in Full(numPlayers) /\ s \notin seated /\ seated' = seated \cup {s}
      BY <2>1, <2>2 DEF Join, Full, Sizes, Seats
    <3>2. status = "waiting"
      BY <3>1, TableIsFull
    <3>3. IsFull(seated') /\ Start(seated', 0, points)
      BY <2>2, <3>2 DEF Join
    <3>4. /\ Full(numPlayers) \subseteq seated' /\ seated' \subseteq Seats
          /\ \A r \in Seats : points[r] = {}
      BY <2>1, <3>1, <3>2, <3>3, FullSeats DEF IsFull, TypeOK, RoundInv, BoardInv
    <3>5. UNCHANGED <<numPlayers, auctionVars, friendVars, trickVars, votes>>
      BY <2>2 DEF Join
    <3>6. Untouched /\ currentBid = NoBid /\ declarer = Nobody /\ passed = {} /\ votes = {}
      BY <3>2 DEF RoundInv, BoardInv, SeatInv, BidInv, CompanyInv
    <3>7. Untouched' /\ currentBid' = NoBid /\ declarer' = Nobody /\ passed' = {}
          /\ votes' = {} /\ numPlayers' = numPlayers
      BY <3>5, <3>6 DEF Untouched, auctionVars, friendVars, trickVars
    <3> QED  BY <2>1, <3>3, <3>4, <3>7, DealIsFresh
  <2>3. ASSUME NEW s \in Seats, NextRound(s) PROVE FreshBoard'
    <3> DEFINE none == [r \in Seats |-> {}]
    <3>1. /\ Start(seated, dealer', none) /\ status = "finished" /\ UNCHANGED numPlayers
          /\ ClearBoard /\ votes' = {}
      BY <2>3 DEF NextRound, Between
    <3>2. Full(numPlayers) \subseteq seated /\ seated \subseteq Seats
      BY <3>1, TableIsFull
    <3>3. Untouched' /\ currentBid' = NoBid /\ declarer' = Nobody /\ passed' = {}
      BY <3>1 DEF ClearBoard, Untouched
    <3>4. \A r \in Seats : none[r] = {}
      OBVIOUS
    <3> HIDE DEF none
    <3> QED  BY <2>1, <3>1, <3>2, <3>3, <3>4, DealIsFresh
  <2>4. ASSUME NEW s \in Seats, Redeal(s) PROVE FreshBoard'
    <3>1. /\ Start(seated, 0, points) /\ status = "bidding" /\ ClearBoard
          /\ UNCHANGED <<numPlayers, votes>>
      BY <2>4 DEF Redeal, MyTurn, tableVars
    <3>2. /\ Full(numPlayers) \subseteq seated /\ seated \subseteq Seats /\ votes = {}
          /\ \A r \in Seats \ Full(numPlayers) : hands[r] = {} /\ points[r] = {}
      BY <3>1, TableIsFull DEF RoundInv, SeatInv
    <3>3. Untouched' /\ currentBid' = NoBid /\ declarer' = Nobody /\ passed' = {}
          /\ votes' = {}
      BY <3>1, <3>2 DEF ClearBoard, Untouched
    <3> QED  BY <2>1, <3>1, <3>2, <3>3, DealIsFresh
  <2>7. ASSUME NEW s \in Seats, (\E b \in BidSet : Bid(s, b)) \/ Pass(s) PROVE FALSE
    <3>1. status = "bidding" /\ ThrownIn
      BY <2>7 DEF Bid, Pass, MyTurn
    <3>2. CASE Pass(s)
      BY <3>1, <3>2, LastPassRedeals DEF ThrownIn
    <3>3. ASSUME NEW b \in BidSet, Bid(s, b) PROVE FALSE
      <4>1. currentBid' = b /\ AuctionWon(b, passed) /\ TakeContract(s, b)
        BY <3>1, <3>3 DEF ThrownIn, Bid, AuctionWon
      <4> QED  BY <4>1 DEF TakeContract
    <3> QED  BY <2>7, <3>2, <3>3
  <2>8. ASSUME NEW s \in Seats, Exchange(s) PROVE FALSE
    BY <2>8 DEF ThrownIn, Exchange, Discard, CallPartner
  <2>5. ASSUME NEW s \in Seats,
               PlayAgain(s) \/ \E n \in ConfigChoices : ChangeConfig(s, n)
        PROVE  FALSE
    BY <2>5 DEF PlayAgain, ChangeConfig, Between, ThrownIn
  <2>6. ASSUME NEW s \in Seats, PlayMove(s) PROVE FALSE
    BY <2>6, PlayStays
  <2> QED  BY <2>2, <2>3, <2>4, <2>5, <2>6, <2>7, <2>8 DEF Next, Over, Lobby, Auction
<1> QED  BY RoundsAreSound, <1>2, PTL DEF Spec, FreshAuction

----------------------------------------------------------------------------
(* What may be played *)

\* The joker is not called in the first trick.
CallInv == status = "playing" /\ trick.jokerCalled => trickNo # 1

\* Nobody is left with two cards and both specials, or with one card and one.
SpecialInv ==
  status = "playing" =>
    \A s \in Seats :
      /\ Held(s) = 2 => ~(TheMighty \in hands[s] /\ Joker \in hands[s])
      /\ Held(s) \in {0, 1} => ~\E c \in hands[s] : IsSpecial(c)

\* Only a lead calls the joker.
LEMMA WhoCalls ==
  ASSUME TypeOK, NEW s \in Seats, NEW c \in Card, NEW called \in Suit \cup {Unset},
         NEW callJoker \in BOOLEAN
  PROVE  Extended(s, c, called, callJoker).jokerCalled =
           IF trick.plays # <<>> THEN trick.jokerCalled
                                 ELSE callJoker /\ c = JokerCaller(trump)
<1>1. trick \in TrickState
  BY DEF TypeOK
<1> QED  BY <1>1 DEF Extended, TrickState

\* A play keeps both.
LEMMA PlaySpecials ==
  ASSUME TableInv, CallInv, SpecialInv, TypeOK', NEW s \in Seats, NEW c \in hands[s],
         NEW called \in Suit \cup {Unset}, NEW callJoker \in BOOLEAN,
         PlayCard(s, c, called, callJoker)
  PROVE  CallInv' /\ SpecialInv'
<1> DEFINE t == Extended(s, c, called, callJoker)
<1>1. CardMoves(s, c, t) /\ RoundInv
  BY PlayFacts DEF TableInv
<1>2. TypeOK /\ c \in Card
  BY <1>1 DEF RoundInv, BidInv, TypeInv, CardMoves
<1>3. t.jokerCalled = IF trick.plays # <<>> THEN trick.jokerCalled
                                            ELSE callJoker /\ c = JokerCaller(trump)
  BY <1>2, WhoCalls
<1>4. t.jokerCalled => trickNo # 1
  <2> HIDE DEF t
  <2>1. status = "playing" /\ LegalPlay(s, c, called, callJoker)
    BY DEF PlayCard, MyTurn
  <2> QED  BY <1>3, <2>1 DEF CallInv, LegalPlay, LegalLead, IsEdge
<1> HIDE DEF t
<1>5. /\ status = "playing" /\ trump' = trump
      /\ \A r \in Seats : hands'[r] = IF r = s THEN hands[r] \ {c} ELSE hands[r]
  BY <1>1 DEF CardMoves, auctionVars
<1>6. CallInv'
  <2>1. CASE Len(t.plays) # numPlayers
    BY <1>1, <1>4, <2>1 DEF CardMoves, CallInv
  <2>2. CASE Len(t.plays) = numPlayers
    <3>1. CompleteTrick(t)
      BY <1>1, <2>2 DEF CardMoves
    <3>2. status' = "finished" \/ trick' = EmptyTrick
      BY <3>1 DEF CompleteTrick, FinishRound
    <3> QED  BY <3>2 DEF CallInv, EmptyTrick
  <2> QED  BY <2>1, <2>2
<1>7. IsFiniteSet(hands[s]) /\ Held(s) \in Nat /\ Held(s) # 0
      /\ Cardinality(hands'[s]) = Held(s) - 1
  <2>1. IsFiniteSet(hands[s]) /\ Held(s) \in Nat
    BY <1>2, HandsFinite
  <2>2. Cardinality(hands[s] \ {c}) = Held(s) - 1
    BY <2>1, FS_RemoveElement DEF Held
  <2>3. Held(s) # 0
    BY <2>1, FS_EmptySet DEF Held
  <2> QED  BY <1>5, <2>1, <2>2, <2>3
<1>8. LateForced(s, c)
  BY DEF PlayCard, LegalPlay
<1>9. hands'[s] = hands[s] \ {c}
  BY <1>5
<1>10. Cardinality(hands'[s]) = 2 => ~(TheMighty \in hands'[s] /\ Joker \in hands'[s])
  <2> SUFFICES ASSUME Cardinality(hands'[s]) = 2, TheMighty \in hands'[s],
                      Joker \in hands'[s]
               PROVE  FALSE
    OBVIOUS
  <2>1. Held(s) = 3
    BY <1>7
  <2>2. TheMighty \in hands[s] /\ Joker \in hands[s] /\ ~IsSpecial(c)
    BY <1>9 DEF IsSpecial
  <2> QED  BY <1>8, <2>1, <2>2 DEF LateForced, Held
<1>11. Cardinality(hands'[s]) \in {0, 1} => ~\E x \in hands'[s] : IsSpecial(x)
  <2>1. ASSUME Cardinality(hands'[s]) = 0 PROVE hands'[s] = {}
    <3>1. IsFiniteSet(hands'[s])
      BY <1>7, <1>9, FS_RemoveElement
    <3> QED  BY <2>1, <3>1, FS_EmptySet
  <2>2. ASSUME Cardinality(hands'[s]) = 1, NEW x \in hands'[s], IsSpecial(x) PROVE FALSE
    <3>1. Held(s) = 2 /\ x \in hands[s] /\ x # c
      BY <1>7, <1>9, <2>2
    <3>2. CASE IsSpecial(c)
      BY <1>5, <3>1, <2>2, <3>2 DEF IsSpecial, SpecialInv
    <3>3. CASE ~IsSpecial(c)
      BY <1>8, <2>2, <3>1, <3>3 DEF IsSpecial, LateForced, Held
    <3> QED  BY <3>2, <3>3
  <2> QED  BY <2>1, <2>2
<1>12. SpecialInv'
  <2> SUFFICES ASSUME NEW r \in Seats
               PROVE  /\ Cardinality(hands'[r]) = 2 =>
                           ~(TheMighty \in hands'[r] /\ Joker \in hands'[r])
                      /\ Cardinality(hands'[r]) \in {0, 1} =>
                           ~\E x \in hands'[r] : IsSpecial(x)
    BY <1>5 DEF SpecialInv, Held, TheMighty, IsSpecial
  <2>1. CASE r = s
    BY <1>10, <1>11, <2>1
  <2>2. CASE r # s
    BY <1>5, <2>2 DEF SpecialInv, Held
  <2> QED  BY <2>1, <2>2
<1> QED  BY <1>6, <1>12

PlayInv == TableInv /\ CallInv /\ SpecialInv

\* Ten cards are dealt; with fewer than four the first lead could be a problem.
LongHands == HandSize >= 4

\* A play starts with long hands and nothing called.
LEMMA CallPartnerSpecials ==
  ASSUME LongHands, TableInv, TypeOK', NEW s \in Seats, NEW c, CallPartner(s, c)
  PROVE  CallInv' /\ SpecialInv'
<1>1. /\ status = "calling" /\ trick' = EmptyTrick /\ UNCHANGED hands
  BY DEF CallPartner, cardVars
<1>2. \A r \in Full(numPlayers) : Held(r) = HandSize
  BY <1>1 DEF TableInv, HandInv
<1>3. \A r \in Seats \ Full(numPlayers) : hands[r] = {}
  BY DEF TableInv, RoundInv, SeatInv
<1>4. HandSize \in Nat /\ HandSize # 2 /\ HandSize # 0 /\ HandSize # 1
  BY SizesAssumption DEF LongHands
<1>5. SpecialInv'
  <2> SUFFICES ASSUME NEW r \in Seats
               PROVE  hands[r] = {} \/ (Held(r) # 2 /\ Held(r) \notin {0, 1})
    BY <1>1 DEF SpecialInv, Held
  <2> QED  BY <1>2, <1>3, <1>4
<1>6. CallInv'
  BY <1>1 DEF CallInv, EmptyTrick
<1> QED  BY <1>5, <1>6

\* Every step.
LEMMA StepPlay ==
  NoLateJoiner /\ DistinctDiscards /\ LongHands /\ PlayInv /\ [Next]_vars => PlayInv'
<1> SUFFICES ASSUME NoLateJoiner, DistinctDiscards, LongHands, PlayInv, [Next]_vars
             PROVE  CallInv' /\ SpecialInv'
  BY StepTable DEF PlayInv
<1>1. TableInv /\ TypeOK' /\ RoundInv
  BY StepTable DEF PlayInv, TableInv, RoundInv, BidInv, TypeInv
<1>2. ASSUME status' # "playing" PROVE CallInv' /\ SpecialInv'
  BY <1>2 DEF CallInv, SpecialInv
<1>3. ASSUME NEW s \in Seats, Auction(s) PROVE status' # "playing"
  BY <1>3 DEF Auction, Bid, Pass, Redeal, MyTurn, TakeContract, Start
<1>4. ASSUME NEW s \in Seats, Exchange(s) PROVE CallInv' /\ SpecialInv'
  <2>1. ASSUME NEW D, Discard(s, D) PROVE status' # "playing"
    BY <2>1 DEF Discard
  <2> QED  BY <1>1, <1>2, <1>4, <2>1, CallPartnerSpecials DEF Exchange
<1>5. ASSUME NEW s \in Seats, PlayMove(s) PROVE CallInv' /\ SpecialInv'
  BY <1>1, <1>5, PlaySpecials DEF PlayMove, PlayInv
<1>6. ASSUME NEW s \in Seats, Lobby(s) PROVE status' # "playing"
  <2>1. ASSUME Join(s) PROVE status' # "playing"
    <3>1. s \in Full(numPlayers) /\ s \notin seated
      BY <1>1, <2>1 DEF Join, Full, Seats, TypeOK, RoundInv, BidInv, TypeInv, Sizes
    <3>2. status = "waiting"
      BY <1>1, <3>1, TableIsFull
    <3> QED  BY <2>1, <3>2 DEF Join, Start
  <2> QED  BY <1>6, <2>1 DEF Lobby, PlayAgain, NextRound, ChangeConfig, Between, Start
<1>7. CASE UNCHANGED vars
  BY <1>7 DEF vars, auctionVars, cardVars, trickVars, PlayInv, CallInv, SpecialInv, Held,
     TheMighty, IsSpecial
<1> QED  BY <1>2, <1>3, <1>4, <1>5, <1>6, <1>7 DEF Next, Over

\* The first state.
LEMMA InitPlay == Init => PlayInv
BY InitTable DEF Init, PlayInv, CallInv, SpecialInv

\* The forcing rules (validatePlayCard) do what they are for: nobody goes into the
\* last trick with the mighty or the joker, however the cards lie.
THEOREM SpecialsAreSpent ==
  ASSUME NoLateJoiner, DistinctDiscards, LongHands PROVE Spec => []NoSpecialAtTheEnd
<1>1. PlayInv /\ [Next]_vars => PlayInv'
  BY StepPlay
<1>2. PlayInv => NoSpecialAtTheEnd
  <2> SUFFICES ASSUME PlayInv, status = "playing", trickNo = HandSize, NEW s \in Seats
               PROVE  ~\E c \in hands[s] : IsSpecial(c)
    BY DEF NoSpecialAtTheEnd
  <2>1. numPlayers \in Sizes /\ HandSize \in Nat
    BY SizesAssumption DEF PlayInv, TableInv, RoundInv, BidInv, TypeInv, TypeOK
  <2>2. CASE s \in Full(numPlayers)
    <3>1. s \in 0..(numPlayers - 1)
      BY <2>1, <2>2, FullSeats
    <3>2. Held(s) \in {0, 1}
      BY <2>1, <3>1 DEF PlayInv, TableInv, HandInv, HandsInStep, Held
    <3> QED  BY <3>2 DEF PlayInv, SpecialInv
  <2>3. CASE s \notin Full(numPlayers)
    BY <2>3 DEF PlayInv, TableInv, RoundInv, SeatInv
  <2> QED  BY <2>2, <2>3
<1> QED  BY InitPlay, <1>1, <1>2, PTL DEF Spec

\* Four cards are not all special.
LEMMA SomethingPlain ==
  ASSUME TypeOK, NEW s \in Seats, Held(s) >= 4
  PROVE  \E c \in hands[s] : ~IsSpecial(c)
<1> DEFINE both == {TheMighty} \cup {Joker}
<1>1. IsFiniteSet(both) /\ Cardinality(both) <= 2
  <2>1. IsFiniteSet({TheMighty}) /\ Cardinality({TheMighty}) = 1
    BY FS_Singleton
  <2> QED  BY <2>1, FS_AddElement
<1>2. ASSUME \A c \in hands[s] : IsSpecial(c) PROVE FALSE
  <2>1. hands[s] \subseteq both
    BY <1>2 DEF IsSpecial
  <2>2. Cardinality(hands[s]) <= Cardinality(both)
    BY <1>1, <2>1, FS_Subset
  <2>3. Held(s) \in Nat /\ Cardinality(both) \in Nat
    BY <1>1, HandsFinite, FS_CardinalityType
  <2> QED  BY <1>1, <2>2, <2>3 DEF Held
<1> QED  BY <1>2

\* In the first trick the hand is long enough for the forcing rules to be silent,
\* and has a card that is not special.
LEMMA FirstTrickMove ==
  ASSUME TypeOK, NEW s \in Seats, Held(s) >= 4, trickNo = 1, ~trick.jokerCalled
  PROVE  \E c \in hands[s] : LegalPlay(s, c, Unset, FALSE)
<1> DEFINE suit == trick.leadSuit
<1>1. Held(s) \in Nat /\ \A c \in hands[s] : LateForced(s, c) /\ JokerForced(s, c)
  BY HandsFinite DEF LateForced, JokerForced, Held
<1>2. suit # NoSuit
  BY DEF TypeOK, TrickState, Suit, Unset, NoSuit
<1>3. PICK p \in hands[s] : ~IsSpecial(p)
  BY SomethingPlain
<1>4. CASE trick.plays = <<>>
  <2>1. CASE \E c \in hands[s] : ~IsSpecial(c) /\ c.suit # trump
    <3>1. PICK c \in hands[s] : ~IsSpecial(c) /\ c.suit # trump
      BY <2>1
    <3>2. LegalLead(s, c, Unset, FALSE)
      BY <3>1 DEF LegalLead, IsSpecial
    <3> QED  BY <1>1, <1>4, <3>2 DEF LegalPlay
  <2>2. CASE \A c \in hands[s] : c.suit = trump \/ IsSpecial(c)
    <3>1. LegalLead(s, p, Unset, FALSE)
      BY <1>3, <2>2 DEF LegalLead, IsSpecial
    <3> QED  BY <1>1, <1>3, <1>4, <3>1 DEF LegalPlay
  <2> QED  BY <2>1, <2>2
<1>5. CASE trick.plays # <<>>
  <2>1. CASE \E c \in hands[s] : ~IsSpecial(c) /\ c.suit = suit
    <3>1. PICK c \in hands[s] : ~IsSpecial(c) /\ c.suit = suit
      BY <2>1
    <3>2. LegalFollow(s, c, Unset)
      BY <3>1 DEF LegalFollow, IsSpecial
    <3> QED  BY <1>1, <1>5, <3>2 DEF LegalPlay
  <2>2. CASE ~HasSuit(s, suit)
    <3>1. LegalFollow(s, p, Unset)
      BY <1>3, <2>2 DEF LegalFollow, IsSpecial
    <3> QED  BY <1>1, <1>3, <1>5, <3>1 DEF LegalPlay
  <2>3. CASE HasSuit(s, suit) /\ \A c \in hands[s] : c.suit = suit => IsSpecial(c)
    <3>1. PICK c \in hands[s] : c.suit = suit
      BY <2>3 DEF HasSuit
    <3>2. Joker.suit = NoSuit
      BY DEF Joker
    <3>3. \A x \in hands[s] : x.suit = suit => x = TheMighty /\ x # Joker
      BY <1>2, <2>3, <3>2 DEF IsSpecial
    <3>4. LegalFollow(s, c, Unset)
      BY <3>1, <3>3 DEF LegalFollow, IsSpecial
    <3> QED  BY <1>1, <1>5, <3>4 DEF LegalPlay
  <2> QED  BY <2>1, <2>2, <2>3
<1> QED  BY <1>4, <1>5

\* Later on a special card may always be played, and who has none is only bound
\* to follow suit.
LEMMA LaterMove ==
  ASSUME TypeOK, NEW s \in Seats, hands[s] # {}, trickNo # 1
  PROVE  \E c \in hands[s], called \in Suit \cup {Unset} : LegalPlay(s, c, called, FALSE)
<1> DEFINE suit == trick.leadSuit
<1>1. CASE \E c \in hands[s] : IsSpecial(c)
  <2>1. PICK c \in hands[s] : IsSpecial(c)
    BY <1>1
  <2>2. LateForced(s, c) /\ JokerForced(s, c)
    BY <2>1 DEF LateForced, JokerForced
  <2>3. LegalFollow(s, c, Unset)
    BY <2>1 DEF LegalFollow
  <2>4. \E called \in Suit \cup {Unset} : LegalLead(s, c, called, FALSE)
    <3>1. LegalLead(s, c, IF c = Joker THEN "spades" ELSE Unset, FALSE)
      BY DEF LegalLead, Suit
    <3> QED  BY <3>1 DEF Suit
  <2> QED  BY <2>2, <2>3, <2>4 DEF LegalPlay
<1>2. CASE \A c \in hands[s] : ~IsSpecial(c)
  <2>1. \A c \in hands[s] : LateForced(s, c) /\ JokerForced(s, c) /\ c # Joker
    BY <1>2 DEF LateForced, JokerForced, IsSpecial
  <2>2. CASE trick.plays = <<>>
    <3>1. PICK c \in hands[s] : TRUE
      OBVIOUS
    <3>2. LegalLead(s, c, Unset, FALSE)
      BY <2>1 DEF LegalLead
    <3> QED  BY <2>1, <2>2, <3>2 DEF LegalPlay
  <2>3. CASE trick.plays # <<>>
    <3>1. PICK c \in hands[s] : c.suit = suit \/ ~HasSuit(s, suit)
      BY DEF HasSuit
    <3>2. LegalFollow(s, c, Unset)
      BY <3>1 DEF LegalFollow
    <3> QED  BY <2>1, <2>3, <3>2 DEF LegalPlay
  <2> QED  BY <2>2, <2>3
<1> QED  BY <1>1, <1>2

\* Whatever the restrictions of validatePlayCard add up to, the player to move has
\* a card she may play: no round can get stuck in the play.
THEOREM PlayIsNeverStuck ==
  ASSUME NoLateJoiner, DistinctDiscards, LongHands PROVE Spec => []NeverStuck
<1>1. PlayInv /\ [Next]_vars => PlayInv'
  BY StepPlay
<1>2. PlayInv => NeverStuck
  <2> SUFFICES ASSUME PlayInv, status = "playing"
               PROVE  \E c \in hands[turn], called \in Suit \cup {Unset} :
                        LegalPlay(turn, c, called, FALSE)
    BY DEF NeverStuck
  <2>1. TypeOK /\ numPlayers \in Sizes /\ HandSize \in Nat /\ turn \in Seats
        /\ trick.plays \in Seq(Play)
    BY SizesAssumption
       DEF PlayInv, TableInv, RoundInv, BidInv, TypeInv, TypeOK, TrickState
  <2> DEFINE q == trick.plays
             n == numPlayers
  <2>2. /\ Len(q) < n /\ turn \in 0..(n - 1) /\ trickNo \in 1..HandSize
        /\ \A i \in 1..Len(q) : (q[i].seat + (Len(q) + 1 - i)) % n = turn
        /\ \A r \in 0..(n - 1) : Held(r) = HandSize - trickNo + Due(q, r)
    BY DEF PlayInv, TableInv, HandInv, HandsInStep, Due, Held
  <2>3. \A i \in 1..Len(q) : q[i].seat \in 0..(n - 1)
    <3>1. DOMAIN q = 1..Len(q) /\ Full(n) = 0..(n - 1)
      BY <2>1, FullSeats
    <3> QED  BY <3>1 DEF PlayInv, TableInv, RoundInv, SeatInv
  <2> HIDE DEF q, n
  <2>4. Due(q, turn) = 1
    BY <2>1, <2>2, <2>3, TurnsGoRound DEF q, n
  <2>5. Held(turn) = HandSize - trickNo + 1
    BY <2>2, <2>4
  <2>6. CASE trickNo = 1
    <3>1. Held(turn) >= 4 /\ ~trick.jokerCalled
      BY <2>1, <2>5, <2>6 DEF LongHands, PlayInv, CallInv
    <3> QED  BY <2>1, <2>6, <3>1, FirstTrickMove
  <2>7. CASE trickNo # 1
    <3>1. Held(turn) # 0
      BY <2>1, <2>2, <2>5
    <3>2. hands[turn] # {}
      BY <3>1, FS_EmptySet DEF Held
    <3> QED  BY <2>1, <2>7, <3>2, LaterMove
  <2> QED  BY <2>6, <2>7
<1> QED  BY InitPlay, <1>1, <1>2, PTL DEF Spec

----------------------------------------------------------------------------
(* Where the scoring cards go *)

\* Every deal has the scoring cards CalculateFinalScore counts on.
DealtCards(d) ==
  {c \in Card : IsPointCard(c) /\ (c \in d.kitty \/ \E s \in Seats : c \in d.hands[s])}

FullDeals == \A n \in Sizes : \A d \in Deals[n] : Cardinality(DealtCards(d)) = TotalPoints

\* The scoring cards of the round, wherever they are.
Around(c) ==
  \/ \E s \in Seats : c \in hands[s] \/ c \in points[s]
  \/ c \in kitty
  \/ status = "playing" /\ c \in CardsOf(trick)

ScoringCards == {c \in Card : IsPointCard(c) /\ Around(c)}

PileInv ==
  /\ \A s \in Seats : \A c \in points[s] : IsPointCard(c)
  /\ status # "waiting" => Cardinality(ScoringCards) = TotalPoints

ScoreInv == TableInv /\ PileInv

\* A deal brings them all.
LEMMA DealPiles ==
  ASSUME FullDeals, TypeOK, NEW table, NEW opener, NEW won, Start(table, opener, won),
         Full(numPlayers) \subseteq table, table \subseteq Seats,
         \A s \in Seats \ Full(numPlayers) : hands[s] = {} /\ won[s] = {}
  PROVE  PileInv'
<1> DEFINE n == numPlayers
           dealt == {s \in table : s < n}
<1>1. PICK d \in Deals[n] :
        /\ hands' = [s \in Seats |-> IF s \in dealt THEN d.hands[s] ELSE hands[s]]
        /\ points' = [s \in Seats |-> IF s \in dealt THEN {} ELSE won[s]]
        /\ kitty' = d.kitty
        /\ status' = "bidding"
  BY DEF Start
<1>2. n \in Sizes
  BY DEF TypeOK
<1>3. \A s \in Seats : s >= n => d.hands[s] = {}
  BY <1>2, DealsAssumption DEF IsDeal, Sizes, Seats
<1>4. dealt = Full(n) /\ \A s \in Seats : s \in Full(n) <=> s < n
  <2>1. \A s \in Seats : s \in Full(n) <=> s < n
    BY <1>2 DEF Full, Sizes, Seats
  <2>2. Full(n) \subseteq table /\ table \subseteq Seats /\ Full(n) \subseteq Seats
    BY <1>2, FullSeats
  <2> QED  BY <2>1, <2>2
<1> HIDE DEF dealt, n
<1>5. \A s \in Seats : hands'[s] = d.hands[s] /\ points'[s] = {}
  <2> TAKE s \in Seats
  <2>1. CASE s \in Full(n)
    BY <1>1, <1>4, <2>1
  <2>2. CASE s \notin Full(n)
    <3>1. s >= n
      BY <1>2, <1>4, <2>2 DEF Sizes, Seats
    <3> QED  BY <1>1, <1>3, <1>4, <2>2, <3>1 DEF n
  <2> QED  BY <2>1, <2>2
<1>6. ScoringCards' = DealtCards(d)
  BY <1>1, <1>5 DEF ScoringCards, Around, DealtCards
<1> QED  BY <1>1, <1>2, <1>5, <1>6 DEF PileInv, FullDeals

\* Moving cards about changes nothing.
LEMMA SamePiles ==
  ASSUME PileInv, status # "waiting",
         \A s \in Seats : \A c \in points'[s] : IsPointCard(c),
         \A c \in Card : IsPointCard(c) => (Around(c)' <=> Around(c))
  PROVE  PileInv'
<1>1. ScoringCards' = ScoringCards
  BY DEF ScoringCards
<1> QED  BY <1>1 DEF PileInv

\* The kitty to the declarer.
LEMMA TakeContractPiles ==
  ASSUME TypeOK, PileInv, status = "bidding", NEW who \in Seats, NEW b,
         TakeContract(who, b), UNCHANGED points
  PROVE  PileInv'
<1>1. /\ status' = "exchanging" /\ kitty' = {}
      /\ \A s \in Seats : hands'[s] = IF s = who THEN hands[s] \cup kitty ELSE hands[s]
  BY DEF TakeContract, TypeOK
<1>2. ASSUME NEW c \in Card PROVE Around(c)' <=> Around(c)
  <2>1. (\E s \in Seats : c \in hands'[s]) <=> c \in kitty \/ \E s \in Seats : c \in hands[s]
    BY <1>1
  <2> QED  BY <1>1, <2>1 DEF Around
<1> QED  BY <1>2, SamePiles DEF PileInv

\* A discard.
LEMMA DiscardPiles ==
  ASSUME TypeOK, PileInv, NEW s \in Seats, NEW D \in SUBSET hands[s], Discard(s, D)
  PROVE  PileInv'
<1> DEFINE scoring == {c \in D : IsPointCard(c)}
<1>1. /\ status = "exchanging" /\ status' = "calling" /\ kitty' = kitty
      /\ \A r \in Seats : hands'[r] = IF r = s THEN hands[r] \ D ELSE hands[r]
      /\ \A r \in Seats : points'[r] = IF r = s THEN points[r] \cup scoring ELSE points[r]
  BY DEF Discard, TypeOK
<1>2. ASSUME NEW c \in Card, IsPointCard(c) PROVE Around(c)' <=> Around(c)
  <2>1. (\E r \in Seats : c \in hands'[r] \/ c \in points'[r])
          <=> \E r \in Seats : c \in hands[r] \/ c \in points[r]
    BY <1>1, <1>2
  <2> QED  BY <1>1, <2>1 DEF Around
<1>3. \A r \in Seats : \A c \in points'[r] : IsPointCard(c)
  BY <1>1 DEF PileInv
<1> QED  BY <1>1, <1>2, <1>3, SamePiles

\* A play, and the end of a trick.
LEMMA PlayPiles ==
  ASSUME TableInv, PileInv, NEW s \in Seats, NEW c \in hands[s],
         NEW called \in Suit \cup {Unset}, NEW callJoker \in BOOLEAN,
         PlayCard(s, c, called, callJoker)
  PROVE  PileInv'
<1> DEFINE t == Extended(s, c, called, callJoker)
<1>1. CardMoves(s, c, t) /\ TypeOK
  BY PlayFacts DEF TableInv, RoundInv, BidInv, TypeInv
<1> HIDE DEF t
<1>2. /\ status = "playing" /\ kitty' = kitty /\ CardsOf(t) = CardsOf(trick) \cup {c}
      /\ \A r \in Seats : hands'[r] = IF r = s THEN hands[r] \ {c} ELSE hands[r]
  BY <1>1 DEF CardMoves
<1>3. \A x : (\E r \in Seats : x \in hands[r]) \/ x \in CardsOf(trick)
               <=> (\E r \in Seats : x \in hands'[r]) \/ x \in CardsOf(t)
  BY <1>2
<1>4. CASE Len(t.plays) # numPlayers
  <2>1. status' = status /\ points' = points /\ trick' = t
    BY <1>1, <1>4 DEF CardMoves
  <2>2. \A x : Around(x)' <=> Around(x)
    BY <1>2, <1>3, <2>1 DEF Around
  <2> QED  BY <1>2, <2>1, <2>2, SamePiles DEF PileInv
<1>5. CASE Len(t.plays) = numPlayers
  <2>1. /\ CompleteTrick(t) /\ t \in TrickState
        /\ \A i \in DOMAIN t.plays : t.plays[i].seat \in Full(numPlayers)
    BY <1>1, <1>5 DEF CardMoves
  <2>2. PICK w \in Full(numPlayers) :
          /\ w \in Seats
          /\ \A r \in Seats :
               points'[r] = IF r = w THEN points[r] \cup TrickPoints(t) ELSE points[r]
          /\ status' = "finished" \/ trick' = EmptyTrick
    BY <1>1, <1>5, <2>1, TrickTaken
  <2>3. CardsOf(EmptyTrick) = {}
    BY DEF CardsOf, EmptyTrick
  <2>4. ASSUME NEW x \in Card, IsPointCard(x) PROVE Around(x)' <=> Around(x)
    <3>1. (\E r \in Seats : x \in points'[r])
            <=> x \in CardsOf(t) \/ \E r \in Seats : x \in points[r]
      BY <2>2, <2>4 DEF TrickPoints
    <3>2. Around(x)' <=> \/ \E r \in Seats : x \in hands'[r] \/ x \in points'[r]
                         \/ x \in kitty
      BY <1>2, <2>2, <2>3 DEF Around
    <3> QED  BY <1>2, <1>3, <3>1, <3>2 DEF Around
  <2>5. \A r \in Seats : \A x \in points'[r] : IsPointCard(x)
    BY <2>2 DEF PileInv, TrickPoints
  <2> QED  BY <1>2, <2>4, <2>5, SamePiles
<1> QED  BY <1>4, <1>5

\* Every step.
LEMMA StepScore ==
  NoLateJoiner /\ DistinctDiscards /\ FullDeals /\ ScoreInv /\ [Next]_vars => ScoreInv'
<1> SUFFICES ASSUME NoLateJoiner, DistinctDiscards, FullDeals, ScoreInv, [Next]_vars
             PROVE  PileInv'
  BY StepTable DEF ScoreInv
<1>1. /\ TableInv /\ RoundInv /\ PileInv /\ TypeOK /\ numPlayers \in Sizes
      /\ \A r \in Seats \ Full(numPlayers) : hands[r] = {}
  BY DEF ScoreInv, TableInv, RoundInv, BidInv, TypeInv, TypeOK, SeatInv
<1>2. ASSUME UNCHANGED <<status, hands, kitty, points, trick>> PROVE PileInv'
  BY <1>1, <1>2 DEF PileInv, ScoringCards, Around
<1>3. ASSUME NEW s \in Seats, NEW b \in BidSet, Bid(s, b) PROVE PileInv'
  BY <1>1, <1>2, <1>3, TakeContractPiles DEF Bid, MyTurn, trickVars
<1>4. ASSUME NEW s \in Seats, Pass(s) PROVE PileInv'
  <2>1. CASE Cardinality(passed') = numPlayers - 1 /\ currentBid # NoBid
    <3>1. TakeContract(declarer, currentBid) /\ status = "bidding" /\ UNCHANGED points
      BY <1>4, <2>1 DEF Pass, MyTurn
    <3>2. declarer \in Seats
      BY <2>1 DEF ScoreInv, TableInv, RoundInv, BidInv, TypeInv
    <3> QED  BY <1>1, <3>1, <3>2, TakeContractPiles
  <2>2. CASE ~(Cardinality(passed') = numPlayers - 1 /\ currentBid # NoBid)
    BY <1>2, <1>4, <2>2 DEF Pass, trickVars
  <2> QED  BY <2>1, <2>2
<1>5. ASSUME NEW s \in Seats, Redeal(s) PROVE PileInv'
  <2>1. Start(seated, 0, points) /\ status = "bidding"
    BY <1>5 DEF Redeal, MyTurn
  <2>2. Full(numPlayers) \subseteq seated /\ seated \subseteq Seats
        /\ \A r \in Seats : points[r] = {}
    BY <1>1, <2>1, TableIsFull DEF RoundInv, BoardInv
  <2> QED  BY <1>1, <2>1, <2>2, DealPiles
<1>6. ASSUME NEW s \in Seats, NEW c, CallPartner(s, c) PROVE PileInv'
  <2>1. /\ status = "calling" /\ trick' = EmptyTrick /\ UNCHANGED <<hands, kitty, points>>
    BY <1>6 DEF CallPartner, cardVars
  <2>2. \A x : Around(x)' <=> Around(x)
    BY <2>1 DEF Around, CardsOf, EmptyTrick
  <2> QED  BY <1>1, <2>1, <2>2, SamePiles DEF PileInv
<1>7. ASSUME NEW s \in Seats, Exchange(s) PROVE PileInv'
  BY <1>1, <1>6, <1>7, DiscardPiles DEF Exchange
<1>8. ASSUME NEW s \in Seats, PlayMove(s) PROVE PileInv'
  BY <1>1, <1>8, PlayPiles DEF PlayMove
<1>9. ASSUME NEW s \in Seats, Join(s) PROVE PileInv'
  <2>5. s \in Full(numPlayers) /\ s \notin seated /\ seated' = seated \cup {s}
    BY <1>1, <1>9 DEF Join, Full, Sizes, Seats
  <2>2. status = "waiting"
    BY <1>1, <2>5, TableIsFull
  <2>1. seated' \subseteq Seats /\ \A r \in Seats : points[r] = {}
    BY <1>1, <2>2, <2>5 DEF TypeOK, RoundInv, BoardInv
  <2>3. CASE IsFull(seated')
    <3>1. Start(seated', 0, points)
      BY <1>9, <2>3 DEF Join
    <3>2. Full(numPlayers) \subseteq seated'
      BY <1>1, <2>3, FullSeats DEF IsFull
    <3> QED  BY <1>1, <2>1, <3>1, <3>2, DealPiles
  <2>4. CASE ~IsFull(seated')
    BY <1>2, <1>9, <2>4 DEF Join, cardVars, trickVars
  <2> QED  BY <2>3, <2>4
<1>10. ASSUME NEW s \in Seats, NextRound(s) PROVE PileInv'
  <2> DEFINE none == [r \in Seats |-> {}]
  <2>1. Start(seated, dealer', none) /\ status = "finished"
    BY <1>10 DEF NextRound, Between
  <2>2. Full(numPlayers) \subseteq seated /\ seated \subseteq Seats
    BY <1>1, <2>1, TableIsFull
  <2>3. \A r \in Seats : none[r] = {}
    OBVIOUS
  <2> HIDE DEF none
  <2> QED  BY <1>1, <2>1, <2>2, <2>3, DealPiles
<1>11. ASSUME NEW s \in Seats,
              PlayAgain(s) \/ \E n \in ConfigChoices : ChangeConfig(s, n)
       PROVE  PileInv'
  BY <1>2, <1>11 DEF PlayAgain, ChangeConfig, cardVars, trickVars
<1>12. CASE UNCHANGED vars
  BY <1>2, <1>12 DEF vars, cardVars, trickVars
<1> QED
  BY <1>3, <1>4, <1>5, <1>7, <1>8, <1>9, <1>10, <1>11, <1>12
     DEF Next, Over, Auction, Lobby

\* Five piles without a card in common.
LEMMA PilesAddUp ==
  ASSUME NEW f \in [Seats -> SUBSET Card],
         \A s, r \in Seats : s # r => f[s] \cap f[r] = {}
  PROVE  ScoreSum([s \in Seats |-> Cardinality(f[s])])
           = Cardinality(f[0] \cup f[1] \cup f[2] \cup f[3] \cup f[4])
<1>1. ASSUME NEW S \in SUBSET Card, NEW T \in SUBSET Card, S \cap T = {}
      PROVE  /\ Cardinality(S \cup T) = Cardinality(S) + Cardinality(T)
             /\ Cardinality(S) \in Nat /\ Cardinality(T) \in Nat
  <2>1. IsFiniteSet(S) /\ IsFiniteSet(T)
    BY CardsFinite, FS_Subset
  <2>2. Cardinality(S) \in Nat /\ Cardinality(T) \in Nat
    BY <2>1, FS_CardinalityType
  <2>3. Cardinality(S \cup T) = Cardinality(S) + Cardinality(T) - Cardinality(S \cap T)
    BY <2>1, FS_Union
  <2>4. Cardinality(S \cap T) = 0
    BY <1>1, FS_EmptySet
  <2> QED  BY <2>2, <2>3, <2>4
<1> DEFINE A == f[0] \cup f[1]
           B == A \cup f[2]
           C == B \cup f[3]
<1>2. /\ f[0] \in SUBSET Card /\ f[1] \in SUBSET Card /\ f[2] \in SUBSET Card
      /\ f[3] \in SUBSET Card /\ f[4] \in SUBSET Card
  BY DEF Seats
<1>3. A \cap f[2] = {} /\ B \cap f[3] = {} /\ C \cap f[4] = {} /\ f[0] \cap f[1] = {}
  BY DEF Seats
<1>4. A \in SUBSET Card /\ B \in SUBSET Card /\ C \in SUBSET Card
  BY <1>2
<1>12. B = A \cup f[2] /\ C = B \cup f[3]
  OBVIOUS
<1>5. Cardinality(A) = Cardinality(f[0]) + Cardinality(f[1])
      /\ Cardinality(f[0]) \in Nat /\ Cardinality(f[1]) \in Nat
  BY <1>1, <1>2, <1>3
<1> HIDE DEF A, B, C
<1>6. Cardinality(B) = Cardinality(A) + Cardinality(f[2]) /\ Cardinality(f[2]) \in Nat
  BY <1>1, <1>2, <1>3, <1>4, <1>12
<1>7. Cardinality(C) = Cardinality(B) + Cardinality(f[3]) /\ Cardinality(f[3]) \in Nat
  <2>1. B \in SUBSET Card /\ f[3] \in SUBSET Card /\ B \cap f[3] = {} /\ C = B \cup f[3]
    BY <1>2, <1>3, <1>4, <1>12
  <2> QED  BY ONLY <1>1, <2>1, Zenon
<1>8. Cardinality(C \cup f[4]) = Cardinality(C) + Cardinality(f[4])
      /\ Cardinality(f[4]) \in Nat
  <2>1. C \in SUBSET Card /\ f[4] \in SUBSET Card /\ C \cap f[4] = {}
    BY <1>2, <1>3, <1>4
  <2> QED  BY ONLY <1>1, <2>1, Zenon
<1> DEFINE g == [s \in Seats |-> Cardinality(f[s])]
<1>9. /\ g[0] = Cardinality(f[0]) /\ g[1] = Cardinality(f[1]) /\ g[2] = Cardinality(f[2])
      /\ g[3] = Cardinality(f[3]) /\ g[4] = Cardinality(f[4])
  BY DEF Seats
<1> HIDE DEF g
<1>10. ScoreSum(g) = Cardinality(C \cup f[4])
  BY <1>5, <1>6, <1>7, <1>8, <1>9 DEF ScoreSum
<1> QED  BY <1>10 DEF g, C, B, A

\* CalculateFinalScore's premise: when a round is over, every scoring card of the
\* deal has been captured by somebody, whatever was bid, put down and played.
THEOREM EveryPointIsCaptured ==
  ASSUME NoLateJoiner, DistinctDiscards, FullDeals PROVE Spec => []PointsAllCaptured
<1>1. ScoreInv /\ [Next]_vars => ScoreInv'
  BY StepScore
<1>2. ScoreInv => PointsAllCaptured
  <2> SUFFICES ASSUME ScoreInv, status = "finished"
               PROVE  ScoreSum([s \in Seats |-> Cardinality(points[s])]) = TotalPoints
    BY DEF PointsAllCaptured
  <2>1. TypeOK /\ points \in [Seats -> SUBSET Card]
        /\ \A s, r \in Seats : s # r => points[s] \cap points[r] = {}
    BY DEF ScoreInv, TableInv, RoundInv, BidInv, TypeInv, TypeOK, OnePlacePerCard
  <2>2. kitty = {} /\ \A s \in Seats : hands[s] = {}
    BY DEF ScoreInv, TableInv, RoundInv, BoardInv, HandInv
  <2>3. \A s \in Seats : \A c \in points[s] : IsPointCard(c) /\ c \in Card
    BY <2>1 DEF ScoreInv, PileInv
  <2>4. ScoringCards = points[0] \cup points[1] \cup points[2] \cup points[3] \cup points[4]
    BY <2>2, <2>3 DEF ScoringCards, Around, Seats
  <2>5. Cardinality(ScoringCards) = TotalPoints
    BY DEF ScoreInv, PileInv
  <2> QED  BY <2>1, <2>4, <2>5, PilesAddUp
<1>3. Init => ScoreInv
  BY InitTable DEF Init, ScoreInv, PileInv
<1> QED  BY <1>1, <1>2, <1>3, PTL DEF Spec

=============================================================================
