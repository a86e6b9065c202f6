------------------------------ MODULE Scoring ------------------------------
(***************************************************************************)
(* CalculateFinalScore: what a round is worth to each seat.                *)
(*                                                                         *)
(* TotalPoints is the number of scoring cards dealt (20 in the code) and   *)
(* MaxBid the bid that undertakes to win them all (10): with the code's    *)
(* values Target is bid + 10 and a back run is at least 11 cards lost.     *)
(***************************************************************************)
EXTENDS Integers, FiniteSets

CONSTANTS TotalPoints, MaxBid

ASSUME PointsAssumption == TotalPoints \in Nat /\ MaxBid \in Nat

Seats == 0..4

FailDists == {"equal_split", "declarer_alone", "two_one_split"}

NoSeat == -1

MinBid(n) == IF n = 4 THEN 4 ELSE 3

Target(bid) == bid + (TotalPoints - MaxBid)

Double(b) == IF b THEN 2 ELSE 1

\* Mutant: a lost contract counts downwards.
Stake_Negative(n, bid, noTrump, alone, p) ==
  LET base == IF p >= Target(bid)
                THEN 2 * (bid - MinBid(n)) + (p - Target(bid)) ELSE p - Target(bid)
  IN  base * Double(p = TotalPoints)
           * Double(TotalPoints - p >= (TotalPoints \div 2) + 1)
           * Double(noTrump) * Double(alone)

\* Mutant: the back run is counted on the callers' cards.
Stake_BackRunOfCallers(n, bid, noTrump, alone, p) ==
  LET base == IF p >= Target(bid)
                THEN 2 * (bid - MinBid(n)) + (p - Target(bid)) ELSE Target(bid) - p
  IN  base * Double(p = TotalPoints) * Double(p >= (TotalPoints \div 2) + 1)
           * Double(noTrump) * Double(alone)

\* S: what one opponent pays or collects.  p is what the callers captured.
Stake(n, bid, noTrump, alone, p) ==
  LET base == IF p >= Target(bid)
                THEN 2 * (bid - MinBid(n)) + (p - Target(bid))
                ELSE Target(bid) - p
  IN  base * Double(p = TotalPoints)
           * Double(TotalPoints - p >= (TotalPoints \div 2) + 1)
           * Double(noTrump) * Double(alone)

\* The callers' side.  A friend who is the declarer, or nobody, is no partner.
Team(declarer, friend) ==
  IF friend = NoSeat THEN {declarer} ELSE {declarer, friend}

\* Mutant: the declarer pays twice s, odd or not.
SpecialPay_NoRemainder(seat, declarer, friend, failDist, s) ==
  LET oppGain == IF failDist = "declarer_alone" THEN s ELSE (3 * s + 1) \div 2
      partnerPay == IF failDist = "declarer_alone" THEN 0 ELSE s
  IN  CASE seat = declarer -> -(2 * s)
        [] seat # declarer /\ seat = friend -> -partnerPay
        [] OTHER -> oppGain

\* Mutant: declarer and partner are swapped.
SpecialPay_Swapped(seat, declarer, friend, failDist, s) ==
  LET oppGain == IF failDist = "declarer_alone" THEN s ELSE (3 * s + 1) \div 2
      partnerPay == IF failDist = "declarer_alone" THEN 0 ELSE s
  IN  CASE seat = declarer -> -partnerPay
        [] seat # declarer /\ seat = friend -> -(2 * oppGain - partnerPay)
        [] OTHER -> oppGain

\* The four-player split of a lost contract, under the two other settings.
SpecialPay(seat, declarer, friend, failDist, s) ==
  LET oppGain == IF failDist = "declarer_alone" THEN s ELSE (3 * s + 1) \div 2
      partnerPay == IF failDist = "declarer_alone" THEN 0 ELSE s
  IN  CASE seat = declarer -> -(2 * oppGain - partnerPay)
        [] seat # declarer /\ seat = friend -> -partnerPay
        [] OTHER -> oppGain

\* Mutant: three opponents, whatever the table.
StandardPay_FixedTable(seat, declarer, friend, opponents, s) ==
  CASE seat = declarer ->
         3 * s - (IF friend \notin {NoSeat, declarer} THEN s ELSE 0)
    [] seat # declarer /\ seat = friend -> s
    [] OTHER -> -s

\* The standard split: each opponent pays s, the partner collects s, the
\* declarer the rest.  s is negative when the contract failed.
StandardPay(seat, declarer, friend, opponents, s) ==
  CASE seat = declarer ->
         opponents * s - (IF friend \notin {NoSeat, declarer} THEN s ELSE 0)
    [] seat # declarer /\ seat = friend -> s
    [] OTHER -> -s

\* The result of the round for every seat; a seat nobody holds gets nothing.
\* captured[seat] is the number of scoring cards the seat has won.
RoundScores(n, failDist, seated, declarer, friend, bid, noTrump, alone, captured) ==
  LET team == Team(declarer, friend)
      won(seat) == IF seat \in seated THEN captured[seat] ELSE 0
      p == IF friend \in {NoSeat, declarer}
             THEN won(declarer) ELSE won(declarer) + won(friend)
      s == Stake(n, bid, noTrump, alone, p)
      made == p >= Target(bid)
      special == /\ ~made /\ friend \notin {NoSeat, declarer}
                 /\ n = 4 /\ failDist # "equal_split"
  IN  [seat \in Seats |->
         IF seat \notin seated THEN 0
         ELSE IF special THEN SpecialPay(seat, declarer, friend, failDist, s)
         ELSE StandardPay(seat, declarer, friend, Cardinality(seated \ team),
                          IF made THEN s ELSE -s)]

ScoreSum(f) == f[0] + f[1] + f[2] + f[3] + f[4]

=============================================================================
