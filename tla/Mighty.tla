------------------------------- MODULE Mighty -------------------------------
(***************************************************************************)
(* The rules engine (internal/game): one table from the first player who   *)
(* sits down, through auctions, exchanges, partner calls and tricks, to    *)
(* the vote for another round.  One action per move of ApplyMove, guarded  *)
(* by what ValidateMove accepts, and one for taking a seat.                *)
(*                                                                         *)
(* A player is known by her seat (seats fill in order and are never given  *)
(* up).  Hands and captured points are sets of cards.  Of g.Tricks the     *)
(* model keeps its length (trickNo), its last element (trick) and who      *)
(* played each card first (played), which is all the code reads of it.     *)
(***************************************************************************)
EXTENDS Cards, Scoring

CONSTANTS
  HandSize,         \* cards dealt to a seat = tricks in a round (10 in the code)
  KittySize,        \* cards in the kitty and in a discard (3 in the code)
  Deals,            \* Deals[n]: the deals a shuffle for n seats may produce
  BidSet,           \* bids clients send, legal or not
  CallSet,          \* cards clients call
  ConfigChoices,    \* seat counts clients ask for between rounds
  StartSizes,       \* seat counts a table is created with
  AllowJokerPartner, FailDist,    \* the rest of GameConfig
  DistinctDiscards, \* TRUE: no client names a card twice in one discard
  MaxRounds         \* bound: the table is left once this many are scored

Sizes == {4, 5}

Nobody == -1         \* g.Declarer, g.PartnerSeat before there is one

NoBid == [points |-> 0, suit |-> NoSuit]      \* a nil *Bid

Bids == [points : Int, suit : Suit \cup {NoSuit}]

TrickState ==
  [plays : Seq(Play), leadSuit : Suit \cup {Unset}, jokerCalled : BOOLEAN]

Phases == {"waiting", "bidding", "exchanging", "calling", "playing", "finished"}

IsDeal(d, n) ==
  /\ d.hands \in [Seats -> SUBSET Card]
  /\ d.kitty \in SUBSET Card
  /\ \A s \in Seats : IF s < n THEN Cardinality(d.hands[s]) = HandSize
                               ELSE d.hands[s] = {}
  /\ Cardinality(d.kitty) = KittySize
  /\ \A s \in Seats : d.hands[s] \cap d.kitty = {}
  /\ \A s, r \in Seats : s # r => d.hands[s] \cap d.hands[r] = {}
  /\ UNION {d.hands[s] : s \in Seats} \cup d.kitty \subseteq DeckFor(n)

ASSUME SizesAssumption == HandSize \in Nat \ {0} /\ KittySize \in Nat \ {0}
ASSUME DealsAssumption == \A n \in Sizes : \A d \in Deals[n] : IsDeal(d, n)
ASSUME InputsAssumption ==
  /\ BidSet \subseteq Bids /\ CallSet \subseteq Card
  /\ ConfigChoices \subseteq Sizes /\ StartSizes \subseteq Sizes
  /\ AllowJokerPartner \in BOOLEAN /\ FailDist \in FailDists
  /\ DistinctDiscards \in BOOLEAN /\ MaxRounds \in Nat

VARIABLES
  numPlayers, seated,               \* Config.NumPlayers, the non-nil Players
  status, turn, dealer,
  currentBid, declarer, passed, contract, trump,
  partnerCard, partnerSeat, noFriend,
  hands, kitty, points,
  trick, trickNo, played,
  scores, totals, rounds,           \* Scores, TotalScores, len(ScoreHistory)
  votes                             \* PlayAgainVotes

tableVars == <<numPlayers, seated, dealer>>
auctionVars == <<currentBid, declarer, passed, contract, trump>>
friendVars == <<partnerCard, partnerSeat, noFriend>>
cardVars == <<hands, kitty, points>>
trickVars == <<trick, trickNo, played>>
resultVars == <<scores, totals, rounds>>

vars == <<tableVars, status, turn, auctionVars, friendVars, cardVars,
          trickVars, resultVars, votes>>

----------------------------------------------------------------------------
(* Derived state *)

TheMighty == Mighty(trump)

IsSpecial(c) == c = TheMighty \/ c = Joker

IsEdge(k) == k = 1 \/ k = HandSize

HasSuit(s, suit) == \E c \in hands[s] : c.suit = suit

SeatOf(f, c) ==
  IF \E s \in Seats : c \in f[s]
    THEN CHOOSE s \in Seats : c \in f[s] /\ \A r \in Seats : r < s => c \notin f[r]
    ELSE Nobody

\* Mutant: tricks are not searched for the called card.
FriendSeat_HandsOnly ==
  IF noFriend \/ partnerCard = NoCard THEN Nobody ELSE SeatOf(hands, partnerCard)

\* Who holds the called card, or played it.
FriendSeat ==
  IF noFriend \/ partnerCard = NoCard THEN Nobody
  ELSE IF SeatOf(hands, partnerCard) # Nobody THEN SeatOf(hands, partnerCard)
  ELSE SeatOf(played, partnerCard)

\* Mutant: the turn goes the other way and leaves the table.
NextBidder_Backwards(t, out) == t - 1

\* Mutant: the turn also goes to those who passed.
NextBidder_IgnoresPassed(t, out) == (t + 1) % numPlayers

\* advanceToNextBidder: the next seat after t that is not in out; t itself
\* when everybody is.
NextBidder(t, out) ==
  LET seat(k) == (t + k) % numPlayers
      open == {k \in 1..numPlayers : seat(k) \notin out}
  IN  IF open = {} THEN t ELSE seat(CHOOSE k \in open : \A j \in open : k <= j)

----------------------------------------------------------------------------
(* Initial state *)

Init ==
  /\ numPlayers \in StartSizes
  /\ seated = {} /\ dealer = 0 /\ status = "waiting" /\ turn = 0
  /\ currentBid = NoBid /\ contract = NoBid /\ declarer = Nobody
  /\ passed = {} /\ trump = Unset
  /\ partnerCard = NoCard /\ partnerSeat = Nobody /\ noFriend = FALSE
  /\ hands = [s \in Seats |-> {}] /\ points = [s \in Seats |-> {}] /\ kitty = {}
  /\ trick = EmptyTrick /\ trickNo = 0 /\ played = [s \in Seats |-> {}]
  /\ scores = [s \in Seats |-> 0] /\ totals = [s \in Seats |-> 0]
  /\ rounds = 0 /\ votes = {}

----------------------------------------------------------------------------
(* Seating and dealing *)

\* Mutant: only the piles of seats that are dealt to are cleared.
Start_KeepsOldPiles(table, opener, won) ==
  LET dealt == {s \in table : s < numPlayers}
  IN  \E d \in Deals[numPlayers] :
        /\ hands' = [s \in Seats |-> IF s \in dealt THEN d.hands[s] ELSE hands[s]]
        /\ points' = [s \in Seats |-> IF s \in dealt THEN {} ELSE points[s]]
        /\ kitty' = d.kitty /\ status' = "bidding" /\ turn' = opener

\* Game.Start: opener speaks first, won is what the seats captured so far.
Start(table, opener, won) ==
  LET dealt == {s \in table : s < numPlayers}
  IN  \E d \in Deals[numPlayers] :
        /\ hands' = [s \in Seats |-> IF s \in dealt THEN d.hands[s] ELSE hands[s]]
        /\ points' = [s \in Seats |-> IF s \in dealt THEN {} ELSE won[s]]
        /\ kitty' = d.kitty
        /\ status' = "bidding"
        /\ turn' = opener

IsFull(table) == 0..(numPlayers - 1) \subseteq table

\* A newcomer takes the first free seat; the last one starts the game,
\* whatever phase it is in.
Join(s) ==
  /\ s < numPlayers /\ s \notin seated /\ 0..(s - 1) \subseteq seated
  /\ seated' = seated \cup {s}
  /\ IF IsFull(seated') THEN Start(seated', 0, points)
                        ELSE UNCHANGED <<cardVars, status, turn>>
  /\ UNCHANGED <<numPlayers, dealer, auctionVars, friendVars, trickVars,
                 resultVars, votes>>

----------------------------------------------------------------------------
(* The auction *)

MyTurn(s, phase) == status = phase /\ s \in seated /\ turn = s

\* Mutant: a bid may equal the one before.
LegalBid_AllowsEqual(b) ==
  /\ b.points \in MinBid(numPlayers)..MaxBid
  /\ currentBid # NoBid => b.points >= currentBid.points

LegalBid(b) ==
  /\ b.points \in MinBid(numPlayers)..MaxBid
  /\ currentBid # NoBid => b.points > currentBid.points

\* Mutant: the kitty is copied, not moved.
TakeContract_KeepsKitty(who, b) ==
  /\ status' = "exchanging"
  /\ contract' = b /\ trump' = b.suit
  /\ turn' = who
  /\ hands' = [hands EXCEPT ![who] = @ \cup kitty]
  /\ UNCHANGED kitty

\* The auction is over: who receives the contract and the kitty.
TakeContract(who, b) ==
  /\ status' = "exchanging"
  /\ contract' = b
  /\ trump' = b.suit
  /\ turn' = who
  /\ hands' = [hands EXCEPT ![who] = @ \cup kitty]
  /\ kitty' = {}

AuctionWon(b, out) == b.points = MaxBid \/ Cardinality(out) = numPlayers - 1

Bid(s, b) ==
  /\ MyTurn(s, "bidding") /\ LegalBid(b)
  /\ currentBid' = b
  /\ declarer' = s
  /\ IF AuctionWon(b, passed)
       THEN TakeContract(s, b)
       ELSE /\ turn' = NextBidder(s, passed)
            /\ UNCHANGED <<status, contract, trump, hands, kitty>>
  /\ UNCHANGED <<tableVars, passed, friendVars, points, trickVars,
                 resultVars, votes>>

\* A pass that leaves the highest bidder alone gives her the contract.
Pass(s) ==
  /\ MyTurn(s, "bidding")
  /\ Cardinality(passed \cup {s}) # numPlayers
  /\ passed' = passed \cup {s}
  /\ IF Cardinality(passed') = numPlayers - 1 /\ currentBid # NoBid
       THEN TakeContract(declarer, currentBid)
       ELSE /\ turn' = NextBidder(s, passed')
            /\ UNCHANGED <<status, contract, trump, hands, kitty>>
  /\ UNCHANGED <<tableVars, currentBid, declarer, friendVars, points,
                 trickVars, resultVars, votes>>

\* Mutant: the passes of the last auction stay.
ClearBoard_KeepsPasses ==
  /\ currentBid' = NoBid /\ contract' = NoBid /\ declarer' = Nobody
  /\ passed' = passed
  /\ partnerCard' = NoCard /\ partnerSeat' = Nobody /\ noFriend' = FALSE
  /\ trick' = EmptyTrick /\ trickNo' = 0 /\ played' = [s \in Seats |-> {}]

\* What a new auction starts from (a redeal and resetForNextRound clear it;
\* the start of a table that has just filled up does not).
ClearBoard ==
  /\ currentBid' = NoBid /\ contract' = NoBid /\ declarer' = Nobody
  /\ passed' = {}
  /\ partnerCard' = NoCard /\ partnerSeat' = Nobody /\ noFriend' = FALSE
  /\ trick' = EmptyTrick /\ trickNo' = 0 /\ played' = [s \in Seats |-> {}]

\* Everyone passed: the hands are thrown in.
Redeal(s) ==
  /\ MyTurn(s, "bidding")
  /\ Cardinality(passed \cup {s}) = numPlayers
  /\ ClearBoard
  /\ trump' = Unset
  /\ Start(seated, 0, points)
  /\ UNCHANGED <<tableVars, resultVars, votes>>

----------------------------------------------------------------------------
(* The exchange and the partner call *)

\* Mutant: one card too few is put down.
IsDiscard_OneShort(D) == Cardinality(D) = KittySize - 1

\* What is left of a discard list once repeated cards are merged: with
\* repetitions it names fewer cards than it has entries.
IsDiscard(D) ==
  IF DistinctDiscards THEN Cardinality(D) = KittySize
                      ELSE Cardinality(D) \in 1..KittySize

Discard(s, D) ==
  /\ status = "exchanging" /\ s \in seated /\ s = declarer
  /\ IsDiscard(D)
  /\ hands' = [hands EXCEPT ![s] = @ \ D]
  /\ points' = [points EXCEPT ![s] = @ \cup {c \in D : IsPointCard(c)}]
  /\ status' = "calling"
  /\ UNCHANGED <<tableVars, turn, auctionVars, friendVars, kitty, trickVars,
                 resultVars, votes>>

MayCall(c) == c = Joker => numPlayers # 4 \/ AllowJokerPartner

\* NoCard announces a round without a friend.  Either opens the first trick.
CallPartner(s, c) ==
  /\ status = "calling" /\ s \in seated /\ s = declarer
  /\ MayCall(c)
  /\ partnerCard' = c
  /\ noFriend' = (noFriend \/ c = NoCard)
  /\ status' = "playing"
  /\ turn' = declarer
  /\ trickNo' = trickNo + 1
  /\ trick' = EmptyTrick
  /\ UNCHANGED <<tableVars, auctionVars, partnerSeat, cardVars, played,
                 resultVars, votes>>

----------------------------------------------------------------------------
(* The play *)

\* Mutant: the rule of the last trick but two is missing.
LateForced_LastButOneOnly(s, c) ==
  Cardinality(hands[s]) = 2 /\ (TheMighty \in hands[s] \/ Joker \in hands[s])
    => IsSpecial(c)

\* The mighty and the joker may not be kept for the last trick.
LateForced(s, c) ==
  LET left == Cardinality(hands[s])
      mighty == TheMighty \in hands[s]
      joker == Joker \in hands[s]
  IN  \/ IsSpecial(c)
      \/ /\ ~(left = 3 /\ mighty /\ joker)
         /\ ~(left = 2 /\ (mighty \/ joker))

JokerForced(s, c) == trick.jokerCalled /\ Joker \in hands[s] => IsSpecial(c)

\* "called" is the suit a led joker asks for, Unset when none is named.
LegalLead(s, c, called, callJoker) ==
  /\ trickNo = 1 =>
       /\ ~IsSpecial(c)
       /\ c.suit = trump => \A x \in hands[s] : x.suit = trump \/ IsSpecial(x)
  /\ IF c = Joker THEN called \in Suit ELSE called = Unset
  /\ callJoker => c = JokerCaller(trump) /\ ~IsEdge(trickNo)

\* Mutant: the mighty is barred from the first trick without exception.
LegalFollow_MightyBarred(s, c, called) ==
  /\ called = Unset
  /\ trickNo = 1 => ~IsSpecial(c)
  /\ c.suit = trick.leadSuit \/ IsSpecial(c) \/ ~HasSuit(s, trick.leadSuit)

LegalFollow(s, c, called) ==
  /\ called = Unset
  /\ trickNo = 1 =>
       /\ c # Joker
       /\ c = TheMighty => /\ c.suit = trick.leadSuit
                           /\ \A x \in hands[s] : x.suit = trick.leadSuit => x = c
  /\ c.suit = trick.leadSuit \/ IsSpecial(c) \/ ~HasSuit(s, trick.leadSuit)

LegalPlay(s, c, called, callJoker) ==
  /\ c \in hands[s]
  /\ LateForced(s, c)
  /\ JokerForced(s, c)
  /\ IF trick.plays = <<>> THEN LegalLead(s, c, called, callJoker)
                           ELSE LegalFollow(s, c, called)

\* The trick once s has added c to it.
Extended(s, c, called, callJoker) ==
  LET t == [trick EXCEPT !.plays = Append(@, [seat |-> s, card |-> c])]
  IN  IF trick.plays # <<>> THEN t
      ELSE [t EXCEPT !.leadSuit = IF c = Joker THEN called ELSE c.suit,
                     !.jokerCalled = callJoker /\ c = JokerCaller(trump)]

\* Mutant: whoever takes the trick is shown.
Reveal_AnyWinner(t, winner, friend) ==
  IF partnerSeat = Nobody /\ friend # Nobody /\ TrickReveals(t, friend)
    THEN winner ELSE partnerSeat

\* The friend is shown when she takes a trick on the declarer's behalf.
Reveal(t, winner, friend) ==
  IF partnerSeat = Nobody /\ friend # Nobody /\ winner = friend
     /\ TrickReveals(t, friend)
    THEN friend ELSE partnerSeat

\* The whole round is scored from the new state.
FinalScores(friend, won) ==
  RoundScores(numPlayers, FailDist, seated, declarer, friend, contract.points,
              contract.suit = NoSuit, noFriend,
              [s \in Seats |-> Cardinality(won[s])])

FinishRound(t, friend, won) ==
  /\ status' = "finished"
  /\ trick' = t
  /\ scores' = FinalScores(friend, won)
  /\ totals' = [s \in Seats |-> totals[s] + scores'[s]]
  /\ rounds' = rounds + 1
  /\ UNCHANGED trickNo

\* t is complete: it is resolved and the next trick, or the end, follows.
CompleteTrick(t) ==
  LET winner == ResolveTrick(t, trump, IsEdge(trickNo))
      won == [points EXCEPT ![winner] = @ \cup TrickPoints(t)]
  IN  /\ turn' = winner
      /\ points' = won
      /\ partnerSeat' = Reveal(t, winner, FriendSeat')
      /\ IF trickNo = HandSize
           THEN FinishRound(t, FriendSeat', won)
           ELSE /\ trick' = EmptyTrick
                /\ trickNo' = trickNo + 1
                /\ UNCHANGED <<status, resultVars>>

PlayCard(s, c, called, callJoker) ==
  /\ MyTurn(s, "playing")
  /\ LegalPlay(s, c, called, callJoker)
  /\ hands' = [hands EXCEPT ![s] = @ \ {c}]
  /\ played' = IF SeatOf(played, c) # Nobody
                 THEN played ELSE [played EXCEPT ![s] = @ \cup {c}]
  /\ UNCHANGED <<tableVars, auctionVars, partnerCard, noFriend, kitty, votes>>
  /\ LET t == Extended(s, c, called, callJoker)
     IN  IF Len(t.plays) = numPlayers
           THEN CompleteTrick(t)
           ELSE /\ trick' = t
                /\ turn' = (turn + 1) % numPlayers
                /\ UNCHANGED <<status, partnerSeat, points, trickNo, resultVars>>

----------------------------------------------------------------------------
(* Between rounds *)

Between(s) == status = "finished" /\ s \in seated /\ rounds < MaxRounds

ChangeConfig(s, n) ==
  /\ Between(s)
  /\ numPlayers' = n
  /\ votes' = {}
  /\ UNCHANGED <<seated, dealer, status, turn, auctionVars, friendVars, cardVars,
                 trickVars, resultVars>>

\* Mutant: one vote may be missing.
Unanimous_OneShort(v) == Cardinality(v) >= numPlayers - 1

Unanimous(v) == Cardinality(v) = numPlayers

PlayAgain(s) ==
  /\ Between(s)
  /\ ~Unanimous(votes \cup {s})
  /\ votes' = votes \cup {s}
  /\ UNCHANGED <<tableVars, status, turn, auctionVars, friendVars, cardVars,
                 trickVars, resultVars>>

\* The vote that completes the count: resetForNextRound.
NextRound(s) ==
  /\ Between(s)
  /\ Unanimous(votes \cup {s})
  /\ votes' = {}
  /\ ClearBoard
  /\ scores' = [r \in Seats |-> 0]
  /\ dealer' = (dealer + 1) % numPlayers
  /\ Start(seated, dealer', [r \in Seats |-> {}])
  /\ UNCHANGED <<numPlayers, seated, trump, totals, rounds>>

----------------------------------------------------------------------------
(* The next-state relation.  A client may send any move at any time; what the
   guards refuse changes nothing. *)

Auction(s) == Pass(s) \/ Redeal(s) \/ \E b \in BidSet : Bid(s, b)

Exchange(s) ==
  \/ \E D \in SUBSET hands[s] : Discard(s, D)
  \/ \E c \in CallSet \cup {NoCard} : CallPartner(s, c)

PlayMove(s) ==
  \E c \in hands[s], called \in Suit \cup {Unset}, callJoker \in BOOLEAN :
    PlayCard(s, c, called, callJoker)

Lobby(s) ==
  \/ Join(s)
  \/ PlayAgain(s)
  \/ NextRound(s)
  \/ \E n \in ConfigChoices : ChangeConfig(s, n)

\* The bound is reached.
Over == status = "finished" /\ rounds >= MaxRounds /\ UNCHANGED vars

Next ==
  \/ \E s \in Seats : Auction(s) \/ Exchange(s) \/ PlayMove(s) \/ Lobby(s)
  \/ Over

Spec == Init /\ [][Next]_vars

----------------------------------------------------------------------------
(* Properties *)

\* Every variable has its type.
TypeOK ==
  /\ numPlayers \in Sizes /\ seated \subseteq Seats /\ dealer \in Seats
  /\ status \in Phases /\ turn \in Seats
  /\ currentBid \in Bids /\ contract \in Bids
  /\ declarer \in Seats \cup {Nobody} /\ passed \subseteq Seats
  /\ trump \in Suit \cup {NoSuit, Unset}
  /\ partnerCard \in Card \cup {NoCard}
  /\ partnerSeat \in Seats \cup {Nobody} /\ noFriend \in BOOLEAN
  /\ hands \in [Seats -> SUBSET Card] /\ points \in [Seats -> SUBSET Card]
  /\ kitty \in SUBSET Card
  /\ trick \in TrickState /\ trickNo \in Nat /\ played \in [Seats -> SUBSET Card]
  /\ scores \in [Seats -> Int] /\ totals \in [Seats -> Int] /\ rounds \in Nat
  /\ votes \subseteq Seats

\* The auction (validateBid, advanceToNextBidder and the two ways it ends):
\* the seat to speak has not passed; once there is a bid, the highest bidder
\* is still in, is not asked to speak against herself, and has a rival left.
AuctionInv ==
  status = "bidding" =>
    /\ turn \in 0..(numPlayers - 1) /\ turn \notin passed
    /\ passed \subseteq 0..(numPlayers - 1)
    /\ currentBid = NoBid <=> declarer = Nobody
    /\ currentBid # NoBid =>
         /\ declarer \in 0..(numPlayers - 1)
         /\ declarer \notin passed /\ turn # declarer
         /\ currentBid.points < MaxBid

Headroom == (MaxBid - currentBid.points) + (numPlayers - Cardinality(passed))

\* Every move of an auction brings it nearer its end, except the pass of the
\* last player of a table where nobody has bid: nobody who passed comes back,
\* and nobody bids what has been bid.
AuctionAdvances ==
  [][status = "bidding" =>
       \/ Headroom' < Headroom
       \/ /\ currentBid = NoBid /\ Cardinality(passed) = numPlayers - 1
          /\ passed' = {}]_vars

\* A card is in one place: a hand, the kitty, the table or a captured pile.
OnePlacePerCard ==
  LET onTable == IF status = "playing" THEN CardsOf(trick) ELSE {}
  IN  \A s \in Seats :
        /\ hands[s] \cap (kitty \cup onTable) = {}
        /\ points[s] \cap (kitty \cup onTable) = {}
        /\ \A r \in Seats : /\ hands[s] \cap points[r] = {}
                            /\ s # r => /\ hands[s] \cap hands[r] = {}
                                        /\ points[s] \cap points[r] = {}

\* CalculateFinalScore's premise: when a round is over every scoring card of
\* the deal is in some player's pile.
PointsAllCaptured ==
  status = "finished" =>
    ScoreSum([s \in Seats |-> Cardinality(points[s])]) = TotalPoints

\* The seats that have played to the current trick are those before the one
\* to move, in order, and every hand is as long as the tricks to come.
HandsInStep ==
  status = "playing" =>
    LET k == Len(trick.plays)
    IN  /\ k < numPlayers /\ turn \in 0..(numPlayers - 1)
        /\ \A i \in 1..k : (trick.plays[i].seat + (k + 1 - i)) % numPlayers = turn
        /\ \A s \in 0..(numPlayers - 1) :
             LET due == IF \E i \in 1..k : trick.plays[i].seat = s THEN 0 ELSE 1
             IN  Cardinality(hands[s]) = HandSize - trickNo + due

\* Whatever the restrictions of validatePlayCard add up to, the player to
\* move has a card they let her play.
NeverStuck ==
  status = "playing" =>
    \E c \in hands[turn], called \in Suit \cup {Unset} : LegalPlay(turn, c, called, FALSE)

\* The forcing rules of the last but two and last but one tricks: nobody goes
\* into the last trick with the mighty or the joker.
NoSpecialAtTheEnd ==
  status = "playing" /\ trickNo = HandSize =>
    \A s \in Seats : ~\E c \in hands[s] : IsSpecial(c)

\* friendSeat is recomputed from hands and tricks at every use: it names the
\* same seat from the call to the scoring, and a revealed friend stays so.
FriendStable ==
  [][status = "playing" =>
       /\ FriendSeat' = FriendSeat
       /\ partnerSeat # Nobody => partnerSeat' = partnerSeat]_vars

\* Who is shown as partner is who holds or played the called card.
RevealSound == partnerSeat # Nobody => partnerSeat = FriendSeat

\* An auction opens on a clean board, in the first round, in a later one and after
\* everyone has passed: full hands, empty piles, no bid, no pass, no friend, no
\* trick and no vote left from before.
FreshBoard ==
  /\ currentBid = NoBid /\ declarer = Nobody /\ passed = {}
  /\ partnerCard = NoCard /\ partnerSeat = Nobody /\ ~noFriend
  /\ trickNo = 0 /\ trick = EmptyTrick /\ \A s \in Seats : played[s] = {}
  /\ \A s \in Seats : points[s] = {}
  /\ \A s \in Seats : Cardinality(hands[s]) = IF s < numPlayers THEN HandSize ELSE 0
  /\ votes = {}

\* Everyone but one has passed and nobody bids.
ThrownIn == /\ status = "bidding" /\ Cardinality(passed) = numPlayers - 1
            /\ currentBid = NoBid /\ currentBid' = NoBid

FreshAuction ==
  [][(status # "bidding" \/ ThrownIn) /\ status' = "bidding" => FreshBoard']_vars

\* A new round needs the vote of everyone who will play it.
EveryoneConsents ==
  [][rounds > 0 /\ status = "finished" /\ status' = "bidding" =>
       \E s \in seated : 0..(numPlayers' - 1) \subseteq votes \cup {s}]_vars

\* A round moves points between the players and makes none.
TotalsZeroSum == ScoreSum(scores) = 0 /\ ScoreSum(totals) = 0

\* Docs and tests of ResolveTrick: without the mighty and the joker, a card
\* that is neither trump nor of the suit led does not take the trick.
LedSuitBeatsOffSuit ==
  status = "finished" =>
    \A i \in DOMAIN trick.plays :
      LET c == trick.plays[i].card
      IN  trick.plays[i].seat = turn =>
            IsSpecial(c) \/ c.suit \in {trump, trick.leadSuit}

=============================================================================
