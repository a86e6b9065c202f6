---------------------------- MODULE MightyProofs ----------------------------
(***************************************************************************)
(* The rules engine, for every deal, bid scale and size of hand: types,    *)
(* seats, scores, and the auction of a table nobody joins late.            *)
(***************************************************************************)
EXTENDS Mighty, ScoringProofs

(* What the helpers return *)

\* There are finitely many cards, so every hand and pile can be counted.
LEMMA CardsFinite == IsFiniteSet(Card)
<1> DEFINE Pairs == Suit \X (2..14)
           f == [x \in Pairs |-> [suit |-> x[1], rank |-> x[2]]]
           Plain == [suit : Suit, rank : 2..14]
<1>1. IsFiniteSet(Suit)
  <2>1. IsFiniteSet({"spades"}) /\ IsFiniteSet({"diamonds"})
        /\ IsFiniteSet({"hearts"}) /\ IsFiniteSet({"clubs"})
    BY FS_Singleton
  <2>2. IsFiniteSet({"spades"} \cup {"diamonds"} \cup {"hearts"} \cup {"clubs"})
    BY <2>1, FS_Union
  <2> QED  BY <2>2 DEF Suit
<1>2. IsFiniteSet(2..14)
  <2>1. 2 \in Int /\ 14 \in Int
    OBVIOUS
  <2> QED  BY ONLY <2>1, FS_Interval
<1>3. IsFiniteSet(Pairs)
  BY <1>1, <1>2, FS_Product
<1>4. f \in Surjection(Pairs, Plain)
  <2>1. f \in [Pairs -> Plain]
    OBVIOUS
  <2>2. ASSUME NEW c \in Plain PROVE \E x \in Pairs : f[x] = c
    <3>1. <<c.suit, c.rank>> \in Pairs /\ f[<<c.suit, c.rank>>] = c
      OBVIOUS
    <3> QED  BY <3>1
  <2> QED  BY <2>1, <2>2 DEF Surjection
<1>5. IsFiniteSet(Plain)
  <2> HIDE DEF f, Plain, Pairs
  <2> QED  BY <1>3, <1>4, FS_Surjection
<1>6. IsFiniteSet(Plain \cup {Joker})
  BY <1>5, FS_AddElement
<1> QED  BY <1>6 DEF Card

\* advanceToNextBidder stays at the table, and finds the first seat after t
\* that is not out, if there is one.
LEMMA NextBidderFound ==
  ASSUME numPlayers \in Sizes, NEW t \in Seats, NEW out
  PROVE  /\ NextBidder(t, out) \in Seats
         /\ \A r \in 1..numPlayers :
              (t + r) % numPlayers \notin out =>
                \E k \in 1..r :
                  /\ NextBidder(t, out) = (t + k) % numPlayers
                  /\ (t + k) % numPlayers \notin out
                  /\ \A j \in 1..(k - 1) : (t + j) % numPlayers \in out
<1> DEFINE seat(k) == (t + k) % numPlayers
           open == {k \in 1..numPlayers : seat(k) \notin out}
           first == CHOOSE k \in open : \A j \in open : k <= j
<1>1. \A k \in 1..numPlayers : seat(k) \in Seats
  BY DEF Sizes, Seats
<1>2. CASE open = {}
  BY <1>2 DEF NextBidder
<1>3. CASE open # {}
  <2>1. \E k \in open : \A j \in open : k <= j
    <3>1. PICK m \in open : TRUE
      BY <1>3
    <3>2. CASE 1 \in open
      BY <3>2
    <3>3. CASE 1 \notin open /\ 2 \in open
      BY <3>3
    <3>4. CASE 1 \notin open /\ 2 \notin open /\ 3 \in open
      BY <3>4
    <3>5. CASE 1 \notin open /\ 2 \notin open /\ 3 \notin open /\ 4 \in open
      BY <3>5
    <3>6. CASE 1 \notin open /\ 2 \notin open /\ 3 \notin open /\ 4 \notin open
      BY <3>1, <3>6 DEF Sizes
    <3> QED  BY <3>2, <3>3, <3>4, <3>5, <3>6
  <2>2. first \in open /\ \A j \in open : first <= j
    BY <2>1
  <2>3. NextBidder(t, out) = seat(first)
    BY <1>3 DEF NextBidder
  <2> HIDE DEF first
  <2>4. first \in 1..numPlayers /\ seat(first) \notin out
    BY <2>2
  <2>5. \A j \in 1..(first - 1) : seat(j) \in out
    BY <2>2, <2>4 DEF Sizes
  <2>6. \A r \in 1..numPlayers : seat(r) \notin out => first \in 1..r
    BY <2>2, <2>4 DEF Sizes
  <2> QED  BY <1>1, <2>3, <2>4, <2>5, <2>6
<1> QED  BY <1>2, <1>3

\* A search for a card finds a seat that has it, and none only if nobody has.
LEMMA SeatFound ==
  ASSUME NEW f \in [Seats -> SUBSET Card], NEW c
  PROVE  /\ SeatOf(f, c) \in Seats \cup {Nobody}
         /\ SeatOf(f, c) = Nobody <=> \A s \in Seats : c \notin f[s]
         /\ SeatOf(f, c) # Nobody => c \in f[SeatOf(f, c)]
<1> DEFINE P(s) == c \in f[s] /\ \A r \in Seats : r < s => c \notin f[r]
           first == CHOOSE s \in Seats : P(s)
<1>1. CASE \A s \in Seats : c \notin f[s]
  BY <1>1 DEF SeatOf
<1>2. CASE \E s \in Seats : c \in f[s]
  <2>1. \E s \in Seats : P(s)
    <3>1. CASE c \in f[0]
      BY <3>1 DEF Seats
    <3>2. CASE c \notin f[0] /\ c \in f[1]
      BY <3>2 DEF Seats
    <3>3. CASE c \notin f[0] /\ c \notin f[1] /\ c \in f[2]
      BY <3>3 DEF Seats
    <3>4. CASE c \notin f[0] /\ c \notin f[1] /\ c \notin f[2] /\ c \in f[3]
      BY <3>4 DEF Seats
    <3>5. CASE c \notin f[0] /\ c \notin f[1] /\ c \notin f[2] /\ c \notin f[3]
      BY <1>2, <3>5 DEF Seats
    <3> QED  BY <3>1, <3>2, <3>3, <3>4, <3>5
  <2>2. first \in Seats /\ P(first)
    BY <2>1
  <2>3. SeatOf(f, c) = first
    BY <1>2 DEF SeatOf
  <2>4. Nobody \notin Seats
    BY DEF Nobody, Seats
  <2> HIDE DEF first
  <2> QED  BY <1>2, <2>2, <2>3, <2>4
<1> QED  BY <1>1, <1>2

\* Of four or five numbers one is the first of the greatest.
LEMMA FirstBest ==
  ASSUME NEW k \in Sizes, NEW f \in [1..k -> Int]
  PROVE  \E i \in 1..k : \A j \in 1..k : f[j] < f[i] \/ (f[j] = f[i] /\ i <= j)
<1> DEFINE Best(m) == \E i \in 1..m : \A j \in 1..m : f[j] < f[i] \/ (f[j] = f[i] /\ i <= j)
<1>1. Best(1)
  BY DEF Sizes
<1>2. ASSUME NEW m \in 1..(k - 1), Best(m) PROVE Best(m + 1)
  <2> m \in Nat \ {0} /\ k \in Nat
    BY DEF Sizes
  <2>1. PICK i \in 1..m : \A j \in 1..m : f[j] < f[i] \/ (f[j] = f[i] /\ i <= j)
    BY <1>2
  <2>2. f[i] \in Int /\ f[m + 1] \in Int /\ \A j \in 1..m : f[j] \in Int
    BY DEF Sizes
  <2>3. \A j \in 1..(m + 1) : j \in 1..m \/ j = m + 1
    BY DEF Sizes
  <2>4. CASE f[m + 1] <= f[i]
    BY <2>1, <2>2, <2>3, <2>4 DEF Sizes
  <2>5. CASE f[m + 1] > f[i]
    <3>1. \A j \in 1..m : f[j] < f[m + 1]
      BY <2>1, <2>2, <2>5
    <3>2. m + 1 \in 1..(m + 1) /\ m + 1 <= m + 1
      OBVIOUS
    <3>3. \A j \in 1..(m + 1) :
            f[j] < f[m + 1] \/ (f[j] = f[m + 1] /\ m + 1 <= j)
      BY <2>3, <3>1, <3>2
    <3> QED  BY <3>2, <3>3
  <2> QED  BY <2>2, <2>4, <2>5
<1> HIDE DEF Best
<1>3. Best(2) /\ Best(3) /\ Best(4)
  BY <1>1, <1>2 DEF Sizes
<1>4. k = 5 => Best(5)
  BY <1>2, <1>3
<1> QED  BY <1>3, <1>4 DEF Best, Sizes

\* A complete trick is taken by one of those who played to it.
LEMMA WinnerPlayed ==
  ASSUME NEW t \in TrickState, Len(t.plays) \in Sizes, NEW tr, NEW edge
  PROVE  \E i \in 1..Len(t.plays) : ResolveTrick(t, tr, edge) = t.plays[i].seat
<1> DEFINE power(i) == Power(t.plays[i].card, t, tr, edge)
           k == Len(t.plays)
           best == CHOOSE i \in DOMAIN t.plays :
                     \A j \in DOMAIN t.plays :
                       power(j) < power(i) \/ (power(j) = power(i) /\ i <= j)
<1>1. t.plays \in Seq(Play) /\ DOMAIN t.plays = 1..k
  <2>1. t.plays \in Seq(Play)
    BY DEF TrickState
  <2> QED  BY <2>1
<1>2. \A i \in 1..k : t.plays[i].card \in Card
  <2>1. \A i \in 1..k : t.plays[i] \in Play
    BY <1>1
  <2> QED  BY <2>1 DEF Play
<1>3. \A c \in Card : c.rank \in Int
  BY DEF Card, Joker
<1>4. \A suit : SuitPower(suit, t, tr) \in Int
  BY DEF SuitPower, PowerTrump, PowerLead, PowerBase
<1>5. \A i \in 1..k : power(i) \in Int
  BY <1>2, <1>3, <1>4 DEF Power, PowerMighty, PowerBase, PowerJoker
<1> DEFINE f == [i \in 1..k |-> power(i)]
<1> HIDE DEF power
<1>6. f \in [1..k -> Int] /\ \A i \in 1..k : f[i] = power(i)
  BY <1>5
<1> HIDE DEF f
<1>7. \E i \in 1..k : \A j \in 1..k : f[j] < f[i] \/ (f[j] = f[i] /\ i <= j)
  BY <1>6, FirstBest
<1>8. \E i \in DOMAIN t.plays : \A j \in DOMAIN t.plays :
        power(j) < power(i) \/ (power(j) = power(i) /\ i <= j)
  BY <1>1, <1>6, <1>7
<1>9. best \in DOMAIN t.plays
  BY <1>8
<1>10. ResolveTrick(t, tr, edge) = t.plays[best].seat
  BY DEF ResolveTrick, power
<1> QED  BY <1>1, <1>9, <1>10

----------------------------------------------------------------------------
(* Types *)

\* TypeOK is inductive once a bid is known to have a bidder.
TypeInv == TypeOK /\ (currentBid # NoBid => declarer \in Seats)

\* friendSeat names a seat or nobody.
LEMMA FriendSeatType ==
  ASSUME TypeOK
  PROVE  FriendSeat \in Seats \cup {Nobody}
BY SeatFound DEF FriendSeat, TypeOK

\* Game.Start deals sets of cards.
LEMMA StartType ==
  ASSUME TypeOK, NEW table, NEW opener \in Seats,
         NEW won \in [Seats -> SUBSET Card], Start(table, opener, won)
  PROVE  /\ hands' \in [Seats -> SUBSET Card] /\ points' \in [Seats -> SUBSET Card]
         /\ kitty' \in SUBSET Card /\ status' = "bidding" /\ turn' = opener
<1>1. PICK d \in Deals[numPlayers] :
        LET dealt == {s \in table : s < numPlayers}
        IN  /\ hands' = [s \in Seats |-> IF s \in dealt THEN d.hands[s] ELSE hands[s]]
            /\ points' = [s \in Seats |-> IF s \in dealt THEN {} ELSE won[s]]
            /\ kitty' = d.kitty
            /\ status' = "bidding"
            /\ turn' = opener
  BY DEF Start
<1>2. d.hands \in [Seats -> SUBSET Card] /\ d.kitty \in SUBSET Card
  BY DealsAssumption DEF TypeOK, IsDeal
<1> QED  BY <1>1, <1>2 DEF TypeOK

\* No trick and no bid are values of their types.
LEMMA EmptyTypes == EmptyTrick \in TrickState /\ NoBid \in Bids
<1>1. <<>> \in Seq(Play)
  OBVIOUS
<1> QED  BY <1>1 DEF EmptyTrick, TrickState, NoBid, Bids

\* A trick stays one when a card is added to it.
LEMMA ExtendedType ==
  ASSUME TypeOK, NEW s \in Seats, NEW c \in Card, NEW called \in Suit \cup {Unset},
         NEW callJoker \in BOOLEAN
  PROVE  /\ Extended(s, c, called, callJoker) \in TrickState
         /\ Extended(s, c, called, callJoker).plays =
              Append(trick.plays, [seat |-> s, card |-> c])
<1> DEFINE more == Append(trick.plays, [seat |-> s, card |-> c])
           lead == IF c = Joker THEN called ELSE c.suit
           calls == callJoker /\ c = JokerCaller(trump)
<1>1. trick \in TrickState
  BY DEF TypeOK
<1>2. /\ trick.plays \in Seq(Play) /\ trick.leadSuit \in Suit \cup {Unset}
      /\ trick.jokerCalled \in BOOLEAN
      /\ trick = [plays |-> trick.plays, leadSuit |-> trick.leadSuit,
                  jokerCalled |-> trick.jokerCalled]
  BY <1>1 DEF TrickState
<1>3. [seat |-> s, card |-> c] \in Play
  BY DEF Play, Seats
<1>4. more \in Seq(Play)
  <2>1. \A q \in Seq(Play), x \in Play : Append(q, x) \in Seq(Play)
    OBVIOUS
  <2> QED  BY <1>2, <1>3, <2>1
<1>5. lead \in Suit \cup {Unset}
  <2>1. CASE c = Joker
    BY <2>1
  <2>2. CASE c # Joker
    BY <2>2 DEF Card
  <2> QED  BY <2>1, <2>2
<1>6. calls \in BOOLEAN
  OBVIOUS
<1> DEFINE t == [trick EXCEPT !.plays = more]
<1>7. t = [plays |-> more, leadSuit |-> trick.leadSuit,
           jokerCalled |-> trick.jokerCalled]
  <2>1. \A q, a, b, x : [[plays |-> q, leadSuit |-> a, jokerCalled |-> b]
                         EXCEPT !.plays = x]
                       = [plays |-> x, leadSuit |-> a, jokerCalled |-> b]
    OBVIOUS
  <2> HIDE DEF more
  <2> QED  BY <1>2, <2>1
<1> HIDE DEF more, lead, calls
<1>8. CASE trick.plays # <<>>
  <2>1. Extended(s, c, called, callJoker) = t
    BY <1>8 DEF Extended, more
  <2> HIDE DEF t
  <2>2. t \in TrickState
    BY <1>2, <1>4, <1>7 DEF TrickState
  <2> QED  BY <1>7, <2>1, <2>2 DEF more
<1>9. CASE trick.plays = <<>>
  <2>1. Extended(s, c, called, callJoker) =
          [t EXCEPT !.leadSuit = lead, !.jokerCalled = calls]
    BY <1>9 DEF Extended, more, lead, calls
  <2> HIDE DEF t
  <2>2. Extended(s, c, called, callJoker) =
          [plays |-> more, leadSuit |-> lead, jokerCalled |-> calls]
    BY <1>7, <2>1
  <2>3. Extended(s, c, called, callJoker) \in TrickState
    BY <1>4, <1>5, <1>6, <2>2 DEF TrickState
  <2> QED  BY <2>2, <2>3 DEF more
<1> QED  BY <1>8, <1>9

\* The first state has the types.
LEMMA InitTypes == Init => TypeInv
<1>1. EmptyTrick \in TrickState /\ NoBid \in Bids
  BY EmptyTypes
<1> SUFFICES ASSUME Init PROVE TypeInv
  OBVIOUS
<1>2. numPlayers \in Sizes /\ dealer \in Seats /\ turn \in Seats /\ status \in Phases
  BY InputsAssumption DEF Init, Seats, Phases
<1>3. /\ hands \in [Seats -> SUBSET Card] /\ points \in [Seats -> SUBSET Card]
      /\ played \in [Seats -> SUBSET Card] /\ kitty \in SUBSET Card
      /\ scores \in [Seats -> Int] /\ totals \in [Seats -> Int]
  BY DEF Init
<1>4. /\ trickNo \in Nat /\ rounds \in Nat /\ noFriend \in BOOLEAN
      /\ currentBid = NoBid /\ contract = NoBid /\ trick = EmptyTrick
      /\ seated = {} /\ passed = {} /\ votes = {} /\ trump = Unset
      /\ declarer = Nobody /\ partnerSeat = Nobody /\ partnerCard = NoCard
  BY DEF Init
<1> QED
  BY <1>1, <1>2, <1>3, <1>4 DEF TypeInv, TypeOK

\* JoinGame.
LEMMA JoinTypes == ASSUME TypeInv, NEW s \in Seats, Join(s) PROVE TypeInv'
<1>1. seated' \subseteq Seats
  BY DEF Join, TypeInv, TypeOK
<1>2. CASE IsFull(seated')
  <2>1. Start(seated', 0, points)
    BY <1>2 DEF Join
  <2>2. 0 \in Seats /\ points \in [Seats -> SUBSET Card] /\ TypeOK
    <3>1. 0 \in Seats
      BY DEF Seats
    <3>2. TypeOK
      BY DEF TypeInv
    <3> QED  BY <3>1, <3>2 DEF TypeOK
  <2>3. /\ hands' \in [Seats -> SUBSET Card] /\ points' \in [Seats -> SUBSET Card]
        /\ kitty' \in SUBSET Card /\ status' = "bidding" /\ turn' = 0
    BY <2>1, <2>2, StartType
  <2> QED
    BY <1>1, <2>2, <2>3 DEF Join, TypeInv, TypeOK, Phases, tableVars, auctionVars,
       friendVars, trickVars, resultVars
<1>3. CASE ~IsFull(seated')
  BY <1>1, <1>3 DEF Join, TypeInv, TypeOK, cardVars, auctionVars, friendVars,
     trickVars, resultVars
<1> QED  BY <1>2, <1>3

\* The contract goes to a seat of the table, with the kitty.
LEMMA TakeContractTypes ==
  ASSUME TypeOK, NEW who \in Seats, NEW b \in Bids, TakeContract(who, b)
  PROVE  /\ status' \in Phases /\ contract' \in Bids
         /\ trump' \in Suit \cup {NoSuit, Unset} /\ turn' \in Seats
         /\ hands' \in [Seats -> SUBSET Card] /\ kitty' \in SUBSET Card
BY DEF TypeOK, TakeContract, Phases, Bids

\* A bid.
LEMMA BidTypes ==
  ASSUME TypeInv, NEW s \in Seats, NEW b \in BidSet, Bid(s, b) PROVE TypeInv'
<1>1. b \in Bids
  BY InputsAssumption
<1>2. CASE AuctionWon(b, passed)
  <2>1. TakeContract(s, b)
    BY <1>2 DEF Bid
  <2> QED
    BY <1>1, <2>1, TakeContractTypes DEF TypeInv, TypeOK, Bid, tableVars,
       friendVars, trickVars, resultVars
<1>3. CASE ~AuctionWon(b, passed)
  <2>1. NextBidder(s, passed) \in Seats
    BY NextBidderFound DEF TypeInv, TypeOK
  <2> QED
    BY <1>1, <1>3, <2>1 DEF TypeInv, TypeOK, Bid, tableVars,
       friendVars, trickVars, resultVars
<1> QED  BY <1>2, <1>3

\* A pass.
LEMMA PassTypes == ASSUME TypeInv, NEW s \in Seats, Pass(s) PROVE TypeInv'
<1>1. passed' = passed \cup {s}
  BY DEF Pass
<1>2. CASE Cardinality(passed') = numPlayers - 1 /\ currentBid # NoBid
  <2>1. TakeContract(declarer, currentBid)
    BY <1>2 DEF Pass
  <2>2. declarer \in Seats /\ currentBid \in Bids
    BY <1>2 DEF TypeInv, TypeOK
  <2> QED
    BY <1>1, <2>1, <2>2, TakeContractTypes DEF TypeInv, TypeOK, Pass, tableVars,
       friendVars, trickVars, resultVars
<1>3. CASE ~(Cardinality(passed') = numPlayers - 1 /\ currentBid # NoBid)
  <2>1. NextBidder(s, passed') \in Seats
    BY NextBidderFound DEF TypeInv, TypeOK
  <2> QED
    BY <1>1, <1>3, <2>1 DEF TypeInv, TypeOK, Pass, tableVars,
       friendVars, trickVars, resultVars
<1> QED  BY <1>2, <1>3

\* What ClearBoard leaves has the types.
LEMMA ClearBoardTypes ==
  ASSUME TypeOK, ClearBoard
  PROVE  /\ currentBid' = NoBid /\ currentBid' \in Bids /\ contract' \in Bids
         /\ declarer' \in Seats \cup {Nobody} /\ passed' \subseteq Seats
         /\ partnerCard' \in Card \cup {NoCard}
         /\ partnerSeat' \in Seats \cup {Nobody} /\ noFriend' \in BOOLEAN
         /\ trick' \in TrickState /\ trickNo' \in Nat
         /\ played' \in [Seats -> SUBSET Card]
BY EmptyTypes DEF ClearBoard

\* A redeal.
LEMMA RedealTypes == ASSUME TypeInv, NEW s \in Seats, Redeal(s) PROVE TypeInv'
<1>1. 0 \in Seats /\ points \in [Seats -> SUBSET Card] /\ TypeOK
  <2>1. 0 \in Seats
    BY DEF Seats
  <2>2. TypeOK
    BY DEF TypeInv
  <2> QED  BY <2>1, <2>2 DEF TypeOK
<1>2. /\ hands' \in [Seats -> SUBSET Card] /\ points' \in [Seats -> SUBSET Card]
      /\ kitty' \in SUBSET Card /\ status' = "bidding" /\ turn' = 0
  BY <1>1, StartType DEF Redeal
<1> QED
  BY <1>1, <1>2, ClearBoardTypes DEF Redeal, TypeInv, TypeOK, Phases, tableVars,
     resultVars

\* A discard.
LEMMA DiscardTypes ==
  ASSUME TypeInv, NEW s \in Seats, NEW D \in SUBSET hands[s], Discard(s, D)
  PROVE  TypeInv'
<1>1. D \subseteq Card
  BY DEF TypeInv, TypeOK
<1>2. hands' \in [Seats -> SUBSET Card] /\ points' \in [Seats -> SUBSET Card]
  BY <1>1 DEF TypeInv, TypeOK, Discard
<1> QED
  BY <1>2 DEF TypeInv, TypeOK, Discard, Phases, tableVars, auctionVars, friendVars,
     trickVars, resultVars

\* A call.
LEMMA CallPartnerTypes ==
  ASSUME TypeInv, NEW s \in Seats, NEW c \in CallSet \cup {NoCard}, CallPartner(s, c)
  PROVE  TypeInv'
<1>1. partnerCard' \in Card \cup {NoCard}
  BY InputsAssumption DEF CallPartner
<1>2. noFriend' \in BOOLEAN
  BY DEF CallPartner, TypeInv, TypeOK
<1>3. trick' \in TrickState /\ trickNo' \in Nat
  BY EmptyTypes DEF CallPartner, TypeInv, TypeOK
<1> QED
  BY <1>1, <1>2, <1>3 DEF TypeInv, TypeOK, CallPartner, Phases, tableVars, auctionVars,
     cardVars, resultVars

\* The scores of a round are whole numbers.
LEMMA FinalScoresType ==
  ASSUME TypeOK, NEW friend, NEW won \in [Seats -> SUBSET Card]
  PROVE  FinalScores(friend, won) \in [Seats -> Int]
<1>1. \A s \in Seats : Cardinality(won[s]) \in Int
  <2> TAKE s \in Seats
  <2>1. IsFiniteSet(won[s])
    BY CardsFinite, FS_Subset
  <2> QED  BY <2>1, FS_CardinalityType
<1> DEFINE captured == [s \in Seats |-> Cardinality(won[s])]
<1>2. captured \in [Seats -> Int]
  BY <1>1
<1>3. numPlayers \in {4, 5} /\ seated \in SUBSET Seats /\ contract.points \in Int
      /\ noFriend \in BOOLEAN /\ FailDist \in FailDists
  BY InputsAssumption DEF TypeOK, Sizes, Bids
<1> HIDE DEF captured
<1>4. (contract.suit = NoSuit) \in BOOLEAN
  OBVIOUS
<1>5. RoundScores(numPlayers, FailDist, seated, declarer, friend, contract.points,
                  contract.suit = NoSuit, noFriend, captured) \in [Seats -> Int]
  BY <1>2, <1>3, <1>4, RoundScoresType
<1> QED  BY <1>5 DEF FinalScores, captured

\* A change of size.
LEMMA ChangeConfigTypes ==
  ASSUME TypeInv, NEW s \in Seats, NEW n \in ConfigChoices, ChangeConfig(s, n)
  PROVE  TypeInv'
BY InputsAssumption DEF ChangeConfig, TypeInv, TypeOK, auctionVars, friendVars,
   cardVars, trickVars, resultVars

\* A vote.
LEMMA PlayAgainTypes == ASSUME TypeInv, NEW s \in Seats, PlayAgain(s) PROVE TypeInv'
BY DEF PlayAgain, TypeInv, TypeOK, tableVars, auctionVars, friendVars, cardVars,
   trickVars, resultVars

\* The last vote.
LEMMA NextRoundTypes == ASSUME TypeInv, NEW s \in Seats, NextRound(s) PROVE TypeInv'
<1> DEFINE none == [r \in Seats |-> {}]
<1>1. dealer' \in Seats
  <2>1. dealer \in Seats /\ numPlayers \in Sizes
    BY DEF TypeInv, TypeOK
  <2>2. \A n \in Sizes : \A d \in Seats : (d + 1) % n \in Seats
    BY DEF Sizes, Seats
  <2> QED  BY <2>1, <2>2 DEF NextRound
<1>2. none \in [Seats -> SUBSET Card] /\ TypeOK
  BY DEF TypeInv
<1>3. Start(seated, dealer', none)
  BY DEF NextRound
<1>4. /\ hands' \in [Seats -> SUBSET Card] /\ points' \in [Seats -> SUBSET Card]
      /\ kitty' \in SUBSET Card /\ status' = "bidding" /\ turn' \in Seats
  BY <1>1, <1>2, <1>3, StartType
<1>5. scores' \in [Seats -> Int]
  BY DEF NextRound
<1> QED
  BY <1>1, <1>2, <1>4, <1>5, ClearBoardTypes DEF NextRound, TypeInv, TypeOK, Phases

\* A card is added to the trick that completes it.
LEMMA CompleteTrickTypes ==
  ASSUME TypeInv, NEW t \in TrickState, Len(t.plays) \in Sizes,
         CompleteTrick(t),
         (FriendSeat)' \in Seats \cup {Nobody}
  PROVE  /\ turn' \in Seats /\ points' \in [Seats -> SUBSET Card]
         /\ partnerSeat' \in Seats \cup {Nobody}
         /\ status' \in Phases /\ trick' \in TrickState /\ trickNo' \in Nat
         /\ scores' \in [Seats -> Int] /\ totals' \in [Seats -> Int] /\ rounds' \in Nat
<1> DEFINE winner == ResolveTrick(t, trump, IsEdge(trickNo))
           won == [points EXCEPT ![winner] = @ \cup TrickPoints(t)]
<1> TypeOK
  BY DEF TypeInv
<1>1. \A i \in 1..Len(t.plays) : t.plays[i].seat \in Seats /\ t.plays[i].card \in Card
  <2>1. t.plays \in Seq(Play)
    BY DEF TrickState
  <2>2. \A i \in 1..Len(t.plays) : t.plays[i] \in Play
    BY <2>1
  <2> QED  BY <2>2 DEF Play, Seats
<1>2. winner \in Seats
  BY <1>1, WinnerPlayed
<1>3. TrickPoints(t) \subseteq Card
  <2>1. t.plays \in Seq(Play)
    BY DEF TrickState
  <2>2. DOMAIN t.plays = 1..Len(t.plays)
    BY <2>1
  <2> QED  BY <1>1, <2>2 DEF TrickPoints, CardsOf
<1>4. won \in [Seats -> SUBSET Card]
  BY <1>3 DEF TypeOK
<1> HIDE DEF winner, won
<1>5. turn' = winner /\ points' = won
      /\ partnerSeat' = Reveal(t, winner, (FriendSeat)')
  BY DEF CompleteTrick, winner, won
<1>6. partnerSeat' \in Seats \cup {Nobody}
  BY <1>5 DEF Reveal, TypeOK
<1>7. CASE trickNo = HandSize
  <2>1. FinishRound(t, (FriendSeat)', won)
    BY <1>7 DEF CompleteTrick, winner, won
  <2>2. scores' = FinalScores((FriendSeat)', won)
        /\ status' = "finished" /\ trick' = t /\ rounds' = rounds + 1
        /\ trickNo' = trickNo
        /\ totals' = [s \in Seats |-> totals[s] + scores'[s]]
    BY <2>1 DEF FinishRound
  <2>3. scores' \in [Seats -> Int]
    BY <1>4, <2>2, FinalScoresType
  <2>4. totals' \in [Seats -> Int]
    BY <2>2, <2>3 DEF TypeOK
  <2>5. trickNo' \in Nat /\ rounds' \in Nat /\ status' \in Phases
    BY <2>2 DEF TypeOK, Phases
  <2> QED  BY <1>2, <1>4, <1>5, <1>6, <2>2, <2>3, <2>4, <2>5
<1>8. CASE trickNo # HandSize
  <2>1. /\ trick' = EmptyTrick /\ trickNo' = trickNo + 1
        /\ UNCHANGED <<status, resultVars>>
    BY <1>8 DEF CompleteTrick
  <2> QED
    BY <1>2, <1>4, <1>5, <1>6, <2>1, EmptyTypes DEF TypeOK, resultVars
<1> QED  BY <1>7, <1>8

\* A play.
LEMMA PlayCardTypes ==
  ASSUME TypeInv, NEW s \in Seats, NEW c \in hands[s], NEW called \in Suit \cup {Unset},
         NEW callJoker \in BOOLEAN, PlayCard(s, c, called, callJoker)
  PROVE  TypeInv'
<1> DEFINE t == Extended(s, c, called, callJoker)
<1> TypeOK
  BY DEF TypeInv
<1>1. c \in Card
  BY DEF TypeOK
<1>2. t \in TrickState
  BY <1>1, ExtendedType
<1> HIDE DEF t
<1>3. hands' \in [Seats -> SUBSET Card] /\ played' \in [Seats -> SUBSET Card]
  <2>1. hands' = [hands EXCEPT ![s] = @ \ {c}]
        /\ (played' = played \/ played' = [played EXCEPT ![s] = @ \cup {c}])
    BY DEF PlayCard
  <2> QED  BY <1>1, <2>1 DEF TypeOK
<1>4. UNCHANGED <<tableVars, auctionVars, partnerCard, noFriend, kitty, votes>>
  BY DEF PlayCard
<1>5. IF Len(t.plays) = numPlayers
        THEN CompleteTrick(t)
        ELSE /\ trick' = t
             /\ turn' = (turn + 1) % numPlayers
             /\ UNCHANGED <<status, partnerSeat, points, trickNo, resultVars>>
  BY DEF PlayCard, t
<1>6. /\ turn' \in Seats /\ points' \in [Seats -> SUBSET Card]
      /\ partnerSeat' \in Seats \cup {Nobody}
      /\ status' \in Phases /\ trick' \in TrickState /\ trickNo' \in Nat
      /\ scores' \in [Seats -> Int] /\ totals' \in [Seats -> Int] /\ rounds' \in Nat
  <2>1. CASE Len(t.plays) = numPlayers
    <3>1. Len(t.plays) \in Sizes
      BY <2>1 DEF TypeOK
    <3>2. (FriendSeat)' \in Seats \cup {Nobody}
      BY <1>3, SeatFound DEF FriendSeat
    <3> QED  BY <1>2, <1>5, <2>1, <3>1, <3>2, CompleteTrickTypes
  <2>2. CASE Len(t.plays) # numPlayers
    <3>1. (turn + 1) % numPlayers \in Seats
      BY DEF TypeOK, Sizes, Seats
    <3> QED  BY <1>2, <1>5, <2>2, <3>1 DEF TypeOK, resultVars
  <2> QED  BY <2>1, <2>2
<1> QED
  BY <1>3, <1>4, <1>6 DEF TypeInv, TypeOK, tableVars, auctionVars

\* Every step keeps the types.
LEMMA NextTypes == TypeInv /\ [Next]_vars => TypeInv'
<1> SUFFICES ASSUME TypeInv, [Next]_vars PROVE TypeInv'
  OBVIOUS
<1>1. ASSUME NEW s \in Seats, Auction(s) PROVE TypeInv'
  BY <1>1, BidTypes, PassTypes, RedealTypes DEF Auction
<1>2. ASSUME NEW s \in Seats, Exchange(s) PROVE TypeInv'
  BY <1>2, DiscardTypes, CallPartnerTypes DEF Exchange
<1>3. ASSUME NEW s \in Seats, PlayMove(s) PROVE TypeInv'
  BY <1>3, PlayCardTypes DEF PlayMove
<1>4. ASSUME NEW s \in Seats, Lobby(s) PROVE TypeInv'
  BY <1>4, JoinTypes, PlayAgainTypes, NextRoundTypes, ChangeConfigTypes DEF Lobby
<1>5. CASE UNCHANGED vars
  BY <1>5 DEF vars, tableVars, auctionVars, friendVars, cardVars, trickVars,
     resultVars, TypeInv, TypeOK
<1> QED  BY <1>1, <1>2, <1>3, <1>4, <1>5 DEF Next, Over

\* Every variable of a table keeps its type.
THEOREM TypeCorrect == Spec => []TypeOK
<1>1. TypeInv => TypeOK
  BY DEF TypeInv
<1> QED  BY InitTypes, NextTypes, <1>1, PTL DEF Spec

----------------------------------------------------------------------------
(* The auction at a table nobody joins late: it cannot get lost, and every
   move brings it nearer its end.  A late joiner is possible only at a table
   that has been made larger than the company at it. *)

NoLateJoiner == ConfigChoices \subseteq {4} \/ StartSizes = {5}

\* Until the first deal nothing has been bid, and after it nobody is missing.
CompanyInv ==
  /\ status = "waiting" =>
       /\ numPlayers \in StartSizes
       /\ currentBid = NoBid /\ declarer = Nobody /\ passed = {}
  /\ status # "waiting" =>
       /\ 0..(numPlayers - 1) \subseteq seated
       /\ StartSizes = {5} => Seats \subseteq seated

\* Everyone between the highest bidder and the seat to speak has passed.
BiddingOrder ==
  status = "bidding" /\ currentBid # NoBid =>
    \E k \in 1..(numPlayers - 1) :
      /\ turn = (declarer + k) % numPlayers
      /\ \A j \in 1..(k - 1) : (declarer + j) % numPlayers \in passed

BidInv == TypeInv /\ CompanyInv /\ AuctionInv /\ BiddingOrder

----------------------------------------------------------------------------
(* Going round a table *)

\* Going on from where one has got to.
LEMMA GoingOn ==
  ASSUME NEW n \in Sizes, NEW a \in 0..20, NEW b \in 0..20
  PROVE  ((a % n) + b) % n = (a + b) % n
<1>1. CASE n = 4
  BY <1>1
<1>2. CASE n = 5
  BY <1>2
<1> QED  BY <1>1, <1>2 DEF Sizes

\* Every other seat is met on the way round.
LEMMA Reached ==
  ASSUME NEW n \in Sizes, NEW d \in 0..(n - 1), NEW r \in 0..(n - 1), r # d
  PROVE  \E m \in 1..(n - 1) : r = (d + m) % n
<1> DEFINE m == IF r > d THEN r - d ELSE r - d + n
<1>1. m \in 1..(n - 1)
  BY DEF Sizes
<1>2. r = (d + m) % n
  <2>1. CASE n = 4
    BY <2>1
  <2>2. CASE n = 5
    BY <2>2
  <2> QED  BY <2>1, <2>2 DEF Sizes
<1> QED  BY <1>1, <1>2

\* On the way round one meets others only.
LEMMA NotBack ==
  ASSUME NEW n \in Sizes, NEW d \in 0..(n - 1), NEW k \in 1..(n - 1)
  PROVE  (d + k) % n \in 0..(n - 1) /\ (d + k) % n # d
<1>1. CASE n = 4
  BY <1>1
<1>2. CASE n = 5
  BY <1>2
<1> QED  BY <1>1, <1>2 DEF Sizes

\* A table for n has n seats.
LEMMA SeatsCount ==
  ASSUME NEW n \in Sizes
  PROVE  IsFiniteSet(0..(n - 1)) /\ Cardinality(0..(n - 1)) = n
<1> DEFINE m == n - 1
<1>1. m \in Int /\ ~(0 > m) /\ m - 0 + 1 = n
  BY DEF Sizes
<1>2. 0 \in Int
  OBVIOUS
<1> HIDE DEF m
<1>3. IsFiniteSet(0..m) /\ Cardinality(0..m) = IF 0 > m THEN 0 ELSE m - 0 + 1
  BY ONLY <1>1, <1>2, FS_Interval
<1>4. IsFiniteSet(0..m) /\ Cardinality(0..m) = n
  BY <1>1, <1>3
<1> QED  BY <1>4 DEF m

\* If not everyone is out somebody is in.
LEMMA SomeoneIn ==
  ASSUME NEW n \in Sizes, NEW out \in SUBSET (0..(n - 1)), Cardinality(out) # n
  PROVE  \E r \in 0..(n - 1) : r \notin out
<1>2. Cardinality(0..(n - 1)) = n
  BY SeatsCount
<1>3. out # 0..(n - 1)
  BY <1>2
<1> QED  BY <1>3

\* If not everyone but d is out somebody else is in.
LEMMA SomeoneElseIn ==
  ASSUME NEW n \in Sizes, NEW d \in 0..(n - 1), NEW out \in SUBSET (0..(n - 1)),
         d \notin out, Cardinality(out) # n - 1
  PROVE  \E r \in 0..(n - 1) : r # d /\ r \notin out
<1>2. IsFiniteSet(0..(n - 1)) /\ Cardinality(0..(n - 1)) = n
  BY SeatsCount
<1>3. Cardinality((0..(n - 1)) \ {d}) = n - 1
  BY <1>2, FS_RemoveElement
<1>4. out # (0..(n - 1)) \ {d}
  BY <1>3
<1> QED  BY <1>4

----------------------------------------------------------------------------
(* The steps *)

\* The first state.
LEMMA InitBids == Init => BidInv
BY InitTypes DEF Init, BidInv, CompanyInv, AuctionInv, BiddingOrder

\* JoinGame: a newcomer is only possible before the first deal.
LEMMA JoinBids == ASSUME BidInv, NEW s \in Seats, Join(s) PROVE BidInv'
<1>1. TypeInv'
  BY JoinTypes DEF BidInv
<1>2. numPlayers \in Sizes
  BY DEF BidInv, TypeInv, TypeOK
<1>3. status = "waiting"
  <2>1. s \in 0..(numPlayers - 1)
    BY <1>2 DEF Join, Seats, Sizes
  <2> QED  BY <2>1 DEF Join, BidInv, CompanyInv
<1>4. UNCHANGED <<numPlayers, currentBid, declarer, passed>>
  BY DEF Join, auctionVars
<1>5. currentBid = NoBid /\ declarer = Nobody /\ passed = {} /\ numPlayers \in StartSizes
  BY <1>3 DEF BidInv, CompanyInv
<1>6. CASE IsFull(seated')
  <2>1. status' = "bidding" /\ turn' = 0
    BY <1>6 DEF Join, Start
  <2>2. 0..(numPlayers' - 1) \subseteq seated'
    BY <1>4, <1>6 DEF IsFull
  <2>3. StartSizes = {5} => Seats \subseteq seated'
    BY <1>4, <1>5, <2>2 DEF Seats
  <2>4. turn' \in 0..(numPlayers' - 1) /\ turn' \notin passed'
    BY <1>2, <1>4, <1>5, <2>1 DEF Sizes
  <2> QED
    BY <1>1, <1>4, <1>5, <2>1, <2>2, <2>3, <2>4
       DEF BidInv, CompanyInv, AuctionInv, BiddingOrder
<1>7. CASE ~IsFull(seated')
  <2>1. status' = "waiting"
    BY <1>3, <1>7 DEF Join
  <2> QED
    BY <1>1, <1>4, <1>5, <2>1 DEF BidInv, CompanyInv, AuctionInv, BiddingOrder
<1> QED  BY <1>6, <1>7

\* A bid: the next to speak is somebody else who is in.
LEMMA BidBids ==
  ASSUME BidInv, NEW s \in Seats, NEW b \in BidSet, Bid(s, b) PROVE BidInv'
<1> DEFINE n == numPlayers
<1>1. TypeInv'
  BY BidTypes DEF BidInv
<1>2. n \in Sizes /\ passed \subseteq 0..(n - 1) /\ s \in 0..(n - 1) /\ s \notin passed
  BY DEF Bid, MyTurn, BidInv, TypeInv, TypeOK, AuctionInv
<1>3. /\ numPlayers' = n /\ passed' = passed /\ seated' = seated
      /\ currentBid' = b /\ declarer' = s
  BY DEF Bid, tableVars
<1>4. status' # "waiting" /\ CompanyInv'
  BY <1>3 DEF Bid, MyTurn, TakeContract, BidInv, CompanyInv
<1>5. CASE AuctionWon(b, passed)
  <2>1. status' = "exchanging"
    BY <1>5 DEF Bid, TakeContract
  <2> QED  BY <1>1, <1>4, <2>1 DEF BidInv, AuctionInv, BiddingOrder
<1>6. CASE ~AuctionWon(b, passed)
  <2>1. b.points \in MinBid(n)..MaxBid /\ b.points # MaxBid /\ Cardinality(passed) # n - 1
    BY <1>6 DEF AuctionWon, Bid, LegalBid
  <2>2. b.points < MaxBid /\ b # NoBid
    BY <1>2, <2>1, PointsAssumption DEF MinBid, NoBid, Sizes
  <2>3. PICK r \in 0..(n - 1) : r # s /\ r \notin passed
    BY <1>2, <2>1, SomeoneElseIn
  <2>4. PICK m \in 1..(n - 1) : r = (s + m) % n
    BY <1>2, <2>3, Reached
  <2>5. PICK k \in 1..m : /\ NextBidder(s, passed) = (s + k) % n
                          /\ (s + k) % n \notin passed
                          /\ \A j \in 1..(k - 1) : (s + j) % n \in passed
    <3>1. m \in 1..n
      BY <1>2 DEF Sizes
    <3> HIDE DEF n
    <3> QED  BY <1>2, <2>3, <2>4, <3>1, NextBidderFound DEF n
  <2>6. k \in 1..(n - 1)
    BY <1>2 DEF Sizes
  <2>7. turn' = (s + k) % n
    BY <1>6, <2>5 DEF Bid
  <2>8. turn' \in 0..(n - 1) /\ turn' # s
    BY <1>2, <2>6, <2>7, NotBack
  <2>9. s # Nobody
    BY DEF Seats, Nobody
  <2>10. AuctionInv'
    BY <1>2, <1>3, <2>2, <2>5, <2>7, <2>8, <2>9 DEF AuctionInv
  <2>11. BiddingOrder'
    BY <1>3, <2>5, <2>6, <2>7 DEF BiddingOrder
  <2> QED  BY <1>1, <1>4, <2>10, <2>11 DEF BidInv
<1> QED  BY <1>5, <1>6

\* A pass: between the highest bidder and the next to speak everyone has
\* passed, and somebody else is still in.
LEMMA PassBids == ASSUME BidInv, NEW s \in Seats, Pass(s) PROVE BidInv'
<1> DEFINE n == numPlayers
<1>1. TypeInv'
  BY PassTypes DEF BidInv
<1>2. n \in Sizes /\ passed \subseteq 0..(n - 1) /\ s \in 0..(n - 1) /\ s \notin passed
  BY DEF Pass, MyTurn, BidInv, TypeInv, TypeOK, AuctionInv
<1>3. /\ numPlayers' = n /\ passed' = passed \cup {s} /\ seated' = seated
      /\ currentBid' = currentBid /\ declarer' = declarer
  BY DEF Pass, tableVars
<1>4. status' # "waiting" /\ CompanyInv'
  BY <1>3 DEF Pass, MyTurn, TakeContract, BidInv, CompanyInv
<1>5. passed' \in SUBSET (0..(n - 1)) /\ Cardinality(passed') # n
  BY <1>2, <1>3 DEF Pass
<1>6. /\ currentBid = NoBid <=> declarer = Nobody
      /\ currentBid # NoBid =>
           /\ declarer \in 0..(n - 1) /\ declarer \notin passed /\ s # declarer
           /\ currentBid.points < MaxBid
  BY DEF Pass, MyTurn, BidInv, AuctionInv
<1>7. CASE Cardinality(passed') = n - 1 /\ currentBid # NoBid
  <2>1. status' = "exchanging"
    BY <1>7 DEF Pass, TakeContract
  <2> QED  BY <1>1, <1>4, <2>1 DEF BidInv, AuctionInv, BiddingOrder
<1>8. CASE currentBid = NoBid
  <2>1. turn' = NextBidder(s, passed')
    BY <1>8 DEF Pass
  <2>2. PICK r \in 0..(n - 1) : r \notin passed'
    BY <1>2, <1>5, SomeoneIn
  <2>3. r # s
    BY <1>3, <2>2
  <2>4. PICK m \in 1..(n - 1) : r = (s + m) % n
    BY <1>2, <2>2, <2>3, Reached
  <2>5. m \in 1..n
    BY <1>2 DEF Sizes
  <2>6. PICK k \in 1..m : NextBidder(s, passed') = (s + k) % n /\ (s + k) % n \notin passed'
    <3> HIDE DEF n
    <3> QED  BY <1>2, <2>2, <2>4, <2>5, NextBidderFound DEF n
  <2>7. k \in 1..(n - 1)
    BY <1>2 DEF Sizes
  <2>8. turn' \in 0..(n - 1) /\ turn' \notin passed'
    BY <1>2, <2>1, <2>6, <2>7, NotBack
  <2> QED
    BY <1>1, <1>3, <1>4, <1>5, <1>6, <1>8, <2>8 DEF BidInv, AuctionInv, BiddingOrder
<1>9. CASE Cardinality(passed') # n - 1 /\ currentBid # NoBid
  <2> DEFINE d == declarer
  <2>1. turn' = NextBidder(s, passed')
    BY <1>9 DEF Pass
  <2>2. d \in 0..(n - 1) /\ d \notin passed'
    BY <1>3, <1>6, <1>9
  <2>3. PICK k \in 1..(n - 1) : /\ s = (d + k) % n
                                /\ \A j \in 1..(k - 1) : (d + j) % n \in passed
    BY <1>9 DEF Pass, MyTurn, BidInv, BiddingOrder
  <2>4. PICK r \in 0..(n - 1) : r # d /\ r \notin passed'
    BY <1>2, <1>5, <1>9, <2>2, SomeoneElseIn
  <2>5. PICK m \in 1..(n - 1) : r = (d + m) % n
    BY <1>2, <2>2, <2>4, Reached
  <2> HIDE DEF n, d
  <2>6. k \in 1..4 /\ m \in 1..4 /\ n \in {4, 5}
    BY <1>2 DEF Sizes
  <2>7. m > k
    <3>1. m # k
      BY <1>3, <2>3, <2>4, <2>5
    <3>2. ~(m \in 1..(k - 1))
      BY <1>3, <2>3, <2>4, <2>5
    <3> QED  BY <2>6, <3>1, <3>2
  <2>8. d \in 0..20 /\ \A i \in 0..8 : k + i \in 0..20 /\ (s + i) % n = (d + (k + i)) % n
    <3>1. d \in 0..20 /\ \A i \in 0..8 : k + i \in 0..20
      BY <1>2, <2>2, <2>6
    <3>2. ASSUME NEW i \in 0..8 PROVE (s + i) % n = (d + (k + i)) % n
      <4>1. CASE n = 4
        BY <2>2, <2>3, <2>6, <4>1
      <4>2. CASE n = 5
        BY <2>2, <2>3, <2>6, <4>2
      <4> QED  BY <2>6, <4>1, <4>2
    <3> QED  BY <3>1, <3>2
  <2>9. m - k \in 1..n /\ (s + (m - k)) % n = r
    <3>1. m - k \in 0..8 /\ k + (m - k) = m
      BY <2>6, <2>7
    <3>2. m - k \in 1..n
      BY <2>6, <2>7
    <3> QED  BY <2>5, <2>8, <3>1, <3>2
  <2>10. PICK i \in 1..(m - k) :
            /\ NextBidder(s, passed') = (s + i) % n
            /\ (s + i) % n \notin passed'
            /\ \A j \in 1..(i - 1) : (s + j) % n \in passed'
    BY <1>2, <2>4, <2>9, NextBidderFound DEF n
  <2>11. k + i \in 1..(n - 1) /\ i \in 0..8
    BY <2>6, <2>7, <2>10
  <2>12. turn' = (d + (k + i)) % n
    BY <2>1, <2>8, <2>10, <2>11
  <2>13. turn' \in 0..(n - 1) /\ turn' # d /\ turn' \notin passed'
    BY <1>2, <2>1, <2>2, <2>10, <2>11, <2>12, NotBack
  <2>14. ASSUME NEW j \in 1..((k + i) - 1) PROVE (d + j) % n \in passed'
    <3>1. CASE j < k
      <4>1. j \in 1..(k - 1)
        BY <2>6, <3>1
      <4> QED  BY <1>3, <2>3, <4>1
    <3>2. CASE j = k
      BY <1>3, <2>3, <3>2
    <3>3. CASE j > k
      <4>1. j - k \in 1..(i - 1) /\ j - k \in 0..8 /\ k + (j - k) = j
        BY <2>6, <2>11, <3>3
      <4> QED  BY <2>8, <2>10, <4>1
    <3> QED  BY <2>6, <3>1, <3>2, <3>3
  <2>15. BiddingOrder'
    <3>1. n = numPlayers' /\ d = declarer'
      BY <1>3 DEF n, d
    <3> QED  BY <2>11, <2>12, <2>14, <3>1 DEF BiddingOrder
  <2>16. AuctionInv'
    BY <1>3, <1>5, <1>6, <1>9, <2>2, <2>13 DEF AuctionInv, n, d
  <2> QED  BY <1>1, <1>4, <2>15, <2>16 DEF BidInv
<1> QED  BY <1>7, <1>8, <1>9

\* A deal with nothing bid and nobody out.
LEMMA RedealBids == ASSUME BidInv, NEW s \in Seats, Redeal(s) PROVE BidInv'
<1>1. TypeInv' /\ numPlayers \in Sizes
  BY RedealTypes DEF BidInv, TypeInv, TypeOK
<1>2. status' = "bidding" /\ turn' = 0 /\ UNCHANGED <<numPlayers, seated>>
  BY DEF Redeal, Start, tableVars
<1>3. currentBid' = NoBid /\ declarer' = Nobody /\ passed' = {}
  BY DEF Redeal, ClearBoard
<1>4. CompanyInv'
  BY <1>2 DEF Redeal, MyTurn, BidInv, CompanyInv
<1>5. 0 \in 0..(numPlayers - 1)
  BY <1>1 DEF Sizes
<1> QED  BY <1>1, <1>2, <1>3, <1>4, <1>5 DEF BidInv, AuctionInv, BiddingOrder

\* The next round is opened by a seat of the table.
LEMMA NextRoundBids == ASSUME BidInv, NEW s \in Seats, NextRound(s) PROVE BidInv'
<1>1. TypeInv' /\ numPlayers \in Sizes /\ dealer \in Seats
  BY NextRoundTypes DEF BidInv, TypeInv, TypeOK
<1>2. status' = "bidding" /\ turn' = (dealer + 1) % numPlayers
      /\ UNCHANGED <<numPlayers, seated>>
  BY DEF NextRound, Start
<1>3. currentBid' = NoBid /\ declarer' = Nobody /\ passed' = {}
  BY DEF NextRound, ClearBoard
<1>4. CompanyInv'
  BY <1>2 DEF NextRound, Between, BidInv, CompanyInv
<1>5. (dealer + 1) % numPlayers \in 0..(numPlayers - 1)
  BY <1>1 DEF Sizes, Seats
<1> QED  BY <1>1, <1>2, <1>3, <1>4, <1>5 DEF BidInv, AuctionInv, BiddingOrder

\* A table may only be made smaller, so nobody is missing afterwards.
LEMMA ChangeConfigBids ==
  ASSUME NoLateJoiner, BidInv, NEW s \in Seats, NEW n \in ConfigChoices, ChangeConfig(s, n)
  PROVE  BidInv'
<1>1. TypeInv' /\ numPlayers \in Sizes /\ n \in Sizes
  BY ChangeConfigTypes, InputsAssumption DEF BidInv, TypeInv, TypeOK
<1>2. numPlayers' = n /\ status = "finished" /\ UNCHANGED <<status, seated>>
  BY DEF ChangeConfig, Between
<1>3. 0..(numPlayers - 1) \subseteq seated /\ (StartSizes = {5} => Seats \subseteq seated)
  BY <1>2 DEF BidInv, CompanyInv
<1>4. 0..(n - 1) \subseteq seated
  <2>1. CASE StartSizes = {5}
    BY <1>1, <1>3, <2>1 DEF Sizes, Seats
  <2>2. CASE ConfigChoices \subseteq {4}
    <3>1. n = 4
      BY <2>2
    <3> QED  BY <1>1, <1>3, <3>1 DEF Sizes
  <2> QED  BY <2>1, <2>2 DEF NoLateJoiner
<1>5. CompanyInv'
  BY <1>2, <1>3, <1>4 DEF CompanyInv
<1> QED  BY <1>1, <1>2, <1>5 DEF BidInv, AuctionInv, BiddingOrder

\* Once the auction is over it is over until the next deal.
LEMMA OtherBids ==
  ASSUME BidInv, TypeInv', UNCHANGED <<numPlayers, seated>>,
         status \notin {"waiting", "bidding"}, status' \notin {"waiting", "bidding"}
  PROVE  BidInv'
BY DEF BidInv, CompanyInv, AuctionInv, BiddingOrder

\* The play leaves the auction behind.
LEMMA PlayBids == ASSUME BidInv, NEW s \in Seats, PlayMove(s) PROVE BidInv'
<1>1. PICK c \in hands[s], called \in Suit \cup {Unset}, callJoker \in BOOLEAN :
        PlayCard(s, c, called, callJoker)
  BY DEF PlayMove
<1>2. TypeInv'
  BY PlayCardTypes, <1>1 DEF BidInv
<1>3. status = "playing" /\ UNCHANGED <<numPlayers, seated>>
  BY <1>1 DEF PlayCard, MyTurn, tableVars
<1>4. status' \in {"playing", "finished"}
  <2> DEFINE t == Extended(s, c, called, callJoker)
  <2>1. CompleteTrick(t) \/ UNCHANGED status
    BY <1>1 DEF PlayCard
  <2> HIDE DEF t
  <2> QED  BY <1>3, <2>1 DEF CompleteTrick, FinishRound
<1> QED  BY <1>2, <1>3, <1>4, OtherBids

\* Every step.
LEMMA NextBids == NoLateJoiner /\ BidInv /\ [Next]_vars => BidInv'
<1> SUFFICES ASSUME NoLateJoiner, BidInv, [Next]_vars PROVE BidInv'
  OBVIOUS
<1>1. TypeInv'
  BY NextTypes DEF BidInv
<1>2. ASSUME NEW s \in Seats, Auction(s) PROVE BidInv'
  BY <1>2, BidBids, PassBids, RedealBids DEF Auction
<1>3. ASSUME NEW s \in Seats, NEW D, Discard(s, D) PROVE BidInv'
  BY <1>1, <1>3, OtherBids DEF Discard, tableVars
<1>4. ASSUME NEW s \in Seats, NEW c, CallPartner(s, c) PROVE BidInv'
  BY <1>1, <1>4, OtherBids DEF CallPartner, tableVars
<1>5. ASSUME NEW s \in Seats, PlayAgain(s) PROVE BidInv'
  BY <1>1, <1>5, OtherBids DEF PlayAgain, Between, tableVars
<1>6. ASSUME NEW s \in Seats, Lobby(s) PROVE BidInv'
  BY <1>5, <1>6, JoinBids, NextRoundBids, ChangeConfigBids DEF Lobby
<1>7. CASE UNCHANGED vars
  BY <1>1, <1>7 DEF vars, tableVars, auctionVars, BidInv, CompanyInv, AuctionInv,
     BiddingOrder
<1> QED  BY <1>2, <1>3, <1>4, <1>6, <1>7, PlayBids DEF Next, Over, Exchange

\* At a table nobody joins late, the seat to speak is never one that passed, the
\* highest bidder is never asked to speak against herself and never goes out
\* (validateBid, advanceToNextBidder), for every deal and every run of bids.
THEOREM AuctionSound == ASSUME NoLateJoiner PROVE Spec => []AuctionInv
<1>1. BidInv /\ [Next]_vars => BidInv'
  BY NextBids
<1>2. BidInv => AuctionInv
  BY DEF BidInv
<1> QED  BY InitBids, <1>1, <1>2, PTL DEF Spec

----------------------------------------------------------------------------
(* Progress *)

\* At such a table every bid or pass brings the auction nearer its end, but
\* for the last pass of a table where nobody has bid (processBid, processPass).
THEOREM AuctionEnds == ASSUME NoLateJoiner PROVE Spec => AuctionAdvances
<1> DEFINE Nearer ==
      status = "bidding" =>
        \/ Headroom' < Headroom
        \/ /\ currentBid = NoBid /\ Cardinality(passed) = numPlayers - 1
           /\ passed' = {}
<1>1. ASSUME BidInv, Next, status = "bidding" PROVE Nearer \/ UNCHANGED vars
  <2>1. /\ numPlayers \in Sizes /\ currentBid \in Bids /\ passed \subseteq 0..(numPlayers - 1)
        /\ numPlayers \in Int /\ currentBid.points \in Int /\ MaxBid \in Int
    BY <1>1, PointsAssumption DEF BidInv, TypeInv, TypeOK, AuctionInv, Bids, Sizes
  <2>2. IsFiniteSet(passed) /\ Cardinality(passed) \in Nat
    BY <2>1, SeatsCount, FS_Subset, FS_CardinalityType
  <2>3. ASSUME NEW s \in Seats, NEW b \in BidSet, Bid(s, b) PROVE Headroom' < Headroom
    <3>1. currentBid' = b /\ passed' = passed /\ numPlayers' = numPlayers
      BY <2>3 DEF Bid, tableVars
    <3>2. b.points \in Int /\ b.points > currentBid.points
      <4>1. b.points \in MinBid(numPlayers)..MaxBid /\ b \in Bids
        BY <2>3, InputsAssumption DEF Bid, LegalBid
      <4>2. CASE currentBid = NoBid
        BY <2>1, <4>1, <4>2, PointsAssumption DEF NoBid, MinBid, Sizes, Bids
      <4>3. CASE currentBid # NoBid
        BY <2>3, <4>1, <4>3 DEF Bid, LegalBid, Bids
      <4> QED  BY <4>2, <4>3
    <3> QED  BY <2>1, <2>2, <3>1, <3>2 DEF Headroom
  <2>4. ASSUME NEW s \in Seats, Pass(s) PROVE Headroom' < Headroom
    <3>1. currentBid' = currentBid /\ passed' = passed \cup {s} /\ numPlayers' = numPlayers
      BY <2>4 DEF Pass, tableVars
    <3>2. s \notin passed
      BY <1>1, <2>4 DEF Pass, MyTurn, BidInv, AuctionInv
    <3>3. Cardinality(passed') = Cardinality(passed) + 1
      BY <2>2, <3>1, <3>2, FS_AddElement
    <3> QED  BY <2>1, <2>2, <3>1, <3>3 DEF Headroom
  <2>5. ASSUME NEW s \in Seats, Redeal(s)
        PROVE  currentBid = NoBid /\ Cardinality(passed) = numPlayers - 1 /\ passed' = {}
    <3>1. passed' = {} /\ turn = s /\ Cardinality(passed \cup {s}) = numPlayers
      BY <2>5 DEF Redeal, ClearBoard, MyTurn
    <3>2. s \notin passed /\ s \in 0..(numPlayers - 1)
      BY <1>1, <3>1 DEF BidInv, AuctionInv
    <3>3. Cardinality(passed) = numPlayers - 1
      <4>1. Cardinality(passed \cup {s}) = Cardinality(passed) + 1
        BY <2>2, <3>2, FS_AddElement
      <4> QED  BY <2>1, <2>2, <3>1, <4>1
    <3>4. currentBid = NoBid
      <4>1. SUFFICES ASSUME currentBid # NoBid PROVE FALSE
        OBVIOUS
      <4>2. /\ declarer \in 0..(numPlayers - 1)
            /\ declarer \notin passed \cup {s}
        BY <1>1, <3>1, <4>1 DEF BidInv, AuctionInv
      <4>3. passed \cup {s} \subseteq (0..(numPlayers - 1)) \ {declarer}
        BY <2>1, <3>2, <4>2
      <4>4. /\ IsFiniteSet((0..(numPlayers - 1)) \ {declarer})
            /\ Cardinality((0..(numPlayers - 1)) \ {declarer}) = numPlayers - 1
        BY <2>1, <4>2, SeatsCount, FS_RemoveElement
      <4>5. Cardinality(passed \cup {s}) <= numPlayers - 1
        BY <4>3, <4>4, FS_Subset
      <4> QED  BY <2>1, <3>1, <4>5
    <3> QED  BY <3>1, <3>3, <3>4
  <2>6. ASSUME NEW s \in Seats, Exchange(s) \/ PlayMove(s) PROVE FALSE
    BY <1>1, <2>6 DEF Exchange, Discard, CallPartner, PlayMove, PlayCard, MyTurn
  <2>7. ASSUME NEW s \in Seats, Lobby(s) PROVE FALSE
    <3>1. ~Join(s)
      <4>1. s < numPlayers => s \in seated
        BY <1>1, <2>1 DEF BidInv, CompanyInv, Seats, Sizes
      <4> QED  BY <4>1 DEF Join
    <3> QED  BY <1>1, <2>7, <3>1 DEF Lobby, PlayAgain, NextRound, ChangeConfig, Between
  <2> QED  BY <1>1, <2>3, <2>4, <2>5, <2>6, <2>7 DEF Next, Auction, Over
<1>2. BidInv /\ [Next]_vars => [Nearer]_vars
  BY <1>1
<1>3. BidInv /\ [Next]_vars => BidInv'
  BY NextBids
<1> QED  BY InitBids, <1>2, <1>3, PTL DEF Spec, AuctionAdvances

=============================================================================
