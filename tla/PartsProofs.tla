----------------------------- MODULE PartsProofs -----------------------------
(***************************************************************************)
(* Proofs about the parts that share no state.  The scoring of a round,    *)
(* for every number of scoring cards and every bid scale: its scores sum   *)
(* to zero, have the sign of the outcome, and weigh on nobody more than on *)
(* the declarer.  The lobby, for any number of games, players and listings *)
(* that interleave: games are sound, and listings accurate.  And all parts *)
(* together: what is proved of a part holds of the service.                *)
(***************************************************************************)
EXTENDS Parts, ScoringProofs, RateProofs, RegistryProofs

----------------------------------------------------------------------------
(* The scoring *)

\* The contract of a sweep is a possible one, and so is the count of cards.
SweepInv ==
  /\ n \in {4, 5} /\ failDist \in FailDists /\ friend \in NoSeat..(n - 1)
  /\ bid \in MinBid(n)..MaxBid
  /\ noTrump \in BOOLEAN /\ alone \in BOOLEAN /\ p \in 0..TotalPoints

\* The first state, and every step.
LEMMA SweepStays ==
  /\ SweepInit => SweepInv
  /\ SweepInv /\ [Capture]_<<contractVars, p>> => SweepInv'
<1>1. SweepInit => SweepInv
  BY PointsAssumption DEF SweepInit, SweepInv, MinBid
<1>2. SweepInv /\ [Capture]_<<contractVars, p>> => SweepInv'
  BY PointsAssumption DEF SweepInv, Capture, contractVars
<1> QED  BY <1>1, <1>2

\* Whatever is captured, the scores of a round sum to zero.
THEOREM SweepIsZeroSum == SweepSpec => []ZeroSum
<1>3. SweepInv => ZeroSum
  <2> SUFFICES ASSUME SweepInv PROVE ScoreSum(Result) = 0
    BY DEF ZeroSum
  <2>1. Captured \in [Seats -> Int]
    BY PointsAssumption DEF SweepInv, Captured
  <2>2. 0 \in Full(n) /\ Table = Full(n)
    BY DEF SweepInv, Full, Table
  <2> QED  BY <2>1, <2>2, RoundIsZeroSum DEF SweepInv, Result
<1> QED  BY SweepStays, <1>3, PTL DEF SweepSpec

\* The doublings leave the sign of a stake alone.
LEMMA StakeSign ==
  ASSUME NEW k \in {4, 5}, NEW b \in Int, b >= MinBid(k), NEW nt \in BOOLEAN,
         NEW al \in BOOLEAN, NEW q \in Int
  PROVE  /\ Stake(k, b, nt, al, q) \in Int /\ Stake(k, b, nt, al, q) >= 0
         /\ q < Target(b) => Stake(k, b, nt, al, q) > 0
<1> DEFINE base == IF q >= Target(b) THEN 2 * (b - MinBid(k)) + (q - Target(b))
                                     ELSE Target(b) - q
           d1 == Double(q = TotalPoints)
           d2 == Double(TotalPoints - q >= (TotalPoints \div 2) + 1)
           d3 == Double(nt)
           d4 == Double(al)
<1>1. Target(b) \in Int /\ MinBid(k) \in Int
  BY PointsAssumption DEF Target, MinBid
<1>2. base \in Int /\ base >= 0 /\ (q < Target(b) => base > 0)
  BY <1>1
<1>3. d1 \in {1, 2} /\ d2 \in {1, 2} /\ d3 \in {1, 2} /\ d4 \in {1, 2}
  BY DEF Double
<1>4. Stake(k, b, nt, al, q) = base * d1 * d2 * d3 * d4
  BY DEF Stake
<1>5. \A x \in Int : \A y \in {1, 2} :
        x * y \in Int /\ (x >= 0 => x * y >= 0) /\ (x > 0 => x * y > 0)
  OBVIOUS
<1> HIDE DEF base, d1, d2, d3, d4
<1>6. base * d1 \in Int /\ base * d1 >= 0 /\ (q < Target(b) => base * d1 > 0)
  BY <1>2, <1>3, <1>5
<1>7. /\ base * d1 * d2 \in Int /\ base * d1 * d2 >= 0
      /\ q < Target(b) => base * d1 * d2 > 0
  BY <1>3, <1>5, <1>6
<1>8. /\ base * d1 * d2 * d3 \in Int /\ base * d1 * d2 * d3 >= 0
      /\ q < Target(b) => base * d1 * d2 * d3 > 0
  BY <1>3, <1>5, <1>7
<1> QED  BY <1>3, <1>4, <1>5, <1>8

\* What a sweep's result is for a seat of the table.
ResultOf(r, s) ==
  LET made == p >= Target(bid)
      pair == friend \notin {NoSeat, 0}
  IN  IF ~made /\ pair /\ n = 4 /\ failDist # "equal_split"
        THEN SpecialPay(r, 0, friend, failDist, s)
        ELSE StandardPay(r, 0, friend, IF pair THEN n - 2 ELSE n - 1,
                         IF made THEN s ELSE -s)

\* The callers' cards are the declarer's; that is all the formula looks at.
LEMMA ResultIs ==
  ASSUME SweepInv, NEW r \in Table
  PROVE  Result[r] = ResultOf(r, Stake(n, bid, noTrump, alone, p))
<1> DEFINE won(seat) == IF seat \in Table THEN Captured[seat] ELSE 0
           q == IF friend \in {NoSeat, 0} THEN won(0) ELSE won(0) + won(friend)
<1>1. /\ Table = Full(n) /\ Table \subseteq Seats /\ 0 \in Table /\ r \in Seats
      /\ n \in {4, 5} /\ friend \in NoSeat..(n - 1) /\ p \in Int
  BY DEF SweepInv, Table, Full, Seats
<1>2. \E s \in Table : s \notin Callers
  <2>1. {0, 1, 2, 3} \subseteq Table
    BY <1>1 DEF Full
  <2>2. ~({0, 1, 2} \subseteq Callers)
    BY DEF Callers, Team
  <2> QED  BY <2>1, <2>2
<1> DEFINE opponent == CHOOSE s \in Table : s \notin Callers
<1>3. opponent \in Table /\ opponent \notin Callers
  BY <1>2
<1> HIDE DEF opponent
<1>4. Captured[0] = p /\ (friend \notin {NoSeat, 0} => Captured[friend] = 0)
  <2>1. Captured = [s \in Seats |-> IF s = 0 THEN p
                                    ELSE IF s = opponent THEN TotalPoints - p ELSE 0]
    BY DEF Captured, opponent
  <2>2. friend \notin {NoSeat, 0} => friend # opponent /\ friend \in Seats
    BY <1>1, <1>3 DEF Callers, Team, Seats, NoSeat
  <2> QED  BY <2>1, <2>2 DEF Seats
<1>5. q = p
  <2>1. friend \notin {NoSeat, 0} => friend \in Table
    BY <1>1 DEF Full, NoSeat
  <2> QED  BY <1>1, <1>4, <2>1
<1>6. Cardinality(Table \ Team(0, friend)) = IF friend \in {NoSeat, 0} THEN n - 1 ELSE n - 2
  BY <1>1, Opponents
<1>7. Result[r] =
        LET s == Stake(n, bid, noTrump, alone, q)
            made == q >= Target(bid)
            special == ~made /\ friend \notin {NoSeat, 0} /\ n = 4 /\ failDist # "equal_split"
        IN  IF special THEN SpecialPay(r, 0, friend, failDist, s)
            ELSE StandardPay(r, 0, friend, Cardinality(Table \ Team(0, friend)),
                             IF made THEN s ELSE -s)
  BY <1>1 DEF Result, RoundScores
<1> HIDE DEF q, won
<1> QED  BY <1>5, <1>6, <1>7 DEF ResultOf

\* Who pays and who collects is decided by the outcome alone, whatever the stake,
\* the friend and the setting (CalculateFinalScore).
THEOREM OutcomeDecides == SweepSpec => []OutcomeDecidesSign
<1>1. SweepInv => OutcomeDecidesSign
  <2> SUFFICES ASSUME SweepInv PROVE OutcomeDecidesSign
    OBVIOUS
  <2> DEFINE s == Stake(n, bid, noTrump, alone, p)
             made == p >= Target(bid)
  <2>1. s \in Int /\ s >= 0 /\ (~made => s > 0)
    <3>1. Target(bid) \in Int
      BY PointsAssumption DEF Target, SweepInv
    <3> QED  BY <3>1, StakeSign DEF SweepInv
  <2>2. n \in {4, 5} /\ friend \in NoSeat..(n - 1) /\ Table = 0..(n - 1)
    BY DEF SweepInv, Table
  <2>3. \A r \in Table : Result[r] = ResultOf(r, s)
    BY ResultIs
  <2> HIDE DEF s
  <2>4. \A r \in Callers \ {NoSeat} :
          r \in Table /\ (made => ResultOf(r, s) >= 0) /\ (~made => ResultOf(r, s) <= 0)
    BY <2>1, <2>2 DEF Callers, Team, NoSeat, ResultOf, SpecialPay, StandardPay
  <2>5. \A r \in Table \ Callers :
          (made => -ResultOf(r, s) >= 0) /\ (~made => -ResultOf(r, s) <= 0)
    BY <2>1, <2>2 DEF Callers, Team, NoSeat, ResultOf, SpecialPay, StandardPay
  <2>6. 0 \in Table /\ (~made => ResultOf(0, s) < 0)
    BY <2>1, <2>2 DEF NoSeat, ResultOf, SpecialPay, StandardPay
  <2> QED  BY <2>3, <2>4, <2>5, <2>6 DEF OutcomeDecidesSign
<1> QED  BY SweepStays, <1>1, PTL DEF SweepSpec

\* Nobody has more at stake than the declarer, under any setting (CalculateFinalScore).
THEOREM DeclarerRisksMost == SweepSpec => []DeclarerAtStake
<1>1. SweepInv => DeclarerAtStake
  <2> SUFFICES ASSUME SweepInv PROVE DeclarerAtStake
    OBVIOUS
  <2> DEFINE s == Stake(n, bid, noTrump, alone, p)
             abs(x) == IF x < 0 THEN -x ELSE x
  <2>0. p \in Int /\ Target(bid) \in Int
    BY PointsAssumption DEF Target, SweepInv
  <2>1. s \in Int /\ s >= 0
    BY StakeSign DEF SweepInv
  <2>2. n \in {4, 5} /\ friend \in NoSeat..(n - 1) /\ Table = 0..(n - 1)
    BY DEF SweepInv, Table
  <2>3. \A r \in Table : Result[r] = ResultOf(r, s)
    BY ResultIs
  <2> HIDE DEF s
  <2>4. 0 \in Table /\ \A r \in Table : abs(ResultOf(r, s)) <= abs(ResultOf(0, s))
    <3>0. ResultOf(0, s) \in Int
      <4> DEFINE pair == friend \notin {NoSeat, 0}
                 opponents == IF pair THEN n - 2 ELSE n - 1
      <4>1. \A u \in Int : opponents * u - u \in Int /\ opponents * u \in Int
        <5>1. opponents \in Int
          BY <2>2
        <5> HIDE DEF opponents
        <5> QED  BY <5>1
      <4>2. /\ \A u \in Int : StandardPay(0, 0, friend, opponents, u) \in Int
            /\ SpecialPay(0, 0, friend, failDist, s) \in Int
        <5> HIDE DEF opponents
        <5> QED  BY <2>1, <4>1 DEF StandardPay, SpecialPay
      <4>3. s \in Int /\ -s \in Int
        BY <2>1
      <4> HIDE DEF opponents
      <4>4. (IF p >= Target(bid) THEN s ELSE -s) \in Int
        BY <4>3
      <4> QED  BY <4>2, <4>4 DEF ResultOf, opponents
    <3> SUFFICES ASSUME NEW r \in Table, r # 0
                 PROVE  abs(ResultOf(r, s)) <= abs(ResultOf(0, s))
      BY <2>2, <3>0
    <3>1. CASE p < Target(bid) /\ friend \notin {NoSeat, 0} /\ n = 4 /\ failDist # "equal_split"
      <4> DEFINE gain == IF failDist = "declarer_alone" THEN s ELSE (3 * s + 1) \div 2
                 pay == IF failDist = "declarer_alone" THEN 0 ELSE s
      <4>1. /\ ResultOf(0, s) = -(2 * gain - pay)
            /\ ResultOf(r, s) \in {gain, -pay}
        BY <2>0, <3>1 DEF ResultOf, SpecialPay
      <4>2. gain \in Int /\ pay \in Int /\ pay >= 0 /\ gain >= pay
        BY <2>1
      <4> HIDE DEF gain, pay
      <4> QED  BY <4>1, <4>2
    <3>2. CASE ~(p < Target(bid) /\ friend \notin {NoSeat, 0} /\ n = 4 /\ failDist # "equal_split")
      <4> DEFINE u == IF p >= Target(bid) THEN s ELSE -s
      <4>1. /\ ResultOf(0, s) = IF friend \in {NoSeat, 0} THEN (n - 1) * u ELSE (n - 2) * u - u
            /\ ResultOf(r, s) \in {u, -u}
        BY <2>1, <2>2, <2>0, <3>2 DEF ResultOf, StandardPay
      <4>2. u \in Int
        BY <2>1
      <4>3. ResultOf(0, s) \in {u, 2 * u, 3 * u, 4 * u}
        <5> HIDE DEF u
        <5> QED  BY <2>2, <4>1, <4>2
      <4> HIDE DEF u
      <4> QED  BY <4>1, <4>2, <4>3
    <3> QED  BY <3>1, <3>2
  <2> QED  BY <2>3, <2>4 DEF DeclarerAtStake
<1> QED  BY SweepStays, <1>1, PTL DEF SweepSpec

\* No back run of a contract that is made: the lowest bid, 3, undertakes half of
\* the scoring cards (13 of 20 in the code).
SteepTargets == MaxBid - 3 <= TotalPoints \div 2

\* The stake of a contract that fails shrinks with every card, that of one that is
\* made grows.
LEMMA StakeMoves ==
  ASSUME SteepTargets, NEW k \in {4, 5}, NEW b \in MinBid(k)..MaxBid, NEW nt \in BOOLEAN,
         NEW al \in BOOLEAN, NEW q \in 0..(TotalPoints - 1)
  PROVE  /\ q + 1 < Target(b) => Stake(k, b, nt, al, q + 1) <= Stake(k, b, nt, al, q)
         /\ q >= Target(b) => Stake(k, b, nt, al, q + 1) >= Stake(k, b, nt, al, q)
<1> DEFINE base(x) == IF x >= Target(b) THEN 2 * (b - MinBid(k)) + (x - Target(b))
                                        ELSE Target(b) - x
           d1(x) == Double(x = TotalPoints)
           d2(x) == Double(TotalPoints - x >= (TotalPoints \div 2) + 1)
           d3 == Double(nt)
           d4 == Double(al)
           f(x) == base(x) * d1(x) * d2(x) * d3 * d4
<1>1. /\ TotalPoints \in Nat /\ MaxBid \in Nat /\ MinBid(k) \in {3, 4} /\ b \in Int
      /\ Target(b) \in Int /\ Target(b) <= TotalPoints
      /\ TotalPoints - Target(b) <= TotalPoints \div 2
  BY PointsAssumption DEF Target, MinBid, SteepTargets
<1>2. \A x : /\ d1(x) \in {1, 2} /\ d2(x) \in {1, 2} /\ d3 \in {1, 2} /\ d4 \in {1, 2}
             /\ Stake(k, b, nt, al, x) = f(x)
  BY DEF Double, Stake
<1>3. \A x, y \in Int : \A m, o \in {1, 2} :
        x * m \in Int /\ (x >= 0 => x * m >= 0) /\ (0 <= x /\ x <= y /\ m <= o => x * m <= y * o)
  OBVIOUS
<1>4. ASSUME NEW x \in Int, NEW y \in Int, 0 <= base(x), base(x) <= base(y),
             d1(x) <= d1(y), d2(x) <= d2(y)
      PROVE  f(x) <= f(y)
  <2>1. base(x) \in Int /\ base(y) \in Int
    BY <1>1
  <2> HIDE DEF base, d1, d2, d3, d4
  <2>2. /\ base(x) * d1(x) \in Int /\ base(x) * d1(x) >= 0
        /\ base(y) * d1(y) \in Int /\ base(x) * d1(x) <= base(y) * d1(y)
    BY <1>2, <1>3, <1>4, <2>1
  <2>3. /\ base(x) * d1(x) * d2(x) \in Int /\ base(x) * d1(x) * d2(x) >= 0
        /\ base(y) * d1(y) * d2(y) \in Int
        /\ base(x) * d1(x) * d2(x) <= base(y) * d1(y) * d2(y)
    BY <1>2, <1>3, <1>4, <2>2
  <2>4. /\ base(x) * d1(x) * d2(x) * d3 \in Int /\ base(x) * d1(x) * d2(x) * d3 >= 0
        /\ base(y) * d1(y) * d2(y) * d3 \in Int
        /\ base(x) * d1(x) * d2(x) * d3 <= base(y) * d1(y) * d2(y) * d3
    BY <1>2, <1>3, <2>3
  <2> QED  BY <1>2, <1>3, <2>4
<1>5. ASSUME q + 1 < Target(b) PROVE f(q + 1) <= f(q)
  <2>1. 0 <= base(q + 1) /\ base(q + 1) <= base(q)
    BY <1>1, <1>5
  <2>2. d1(q + 1) <= d1(q) /\ d2(q + 1) <= d2(q)
    BY <1>1, <1>5 DEF Double
  <2> HIDE DEF base, d1, d2, f
  <2> QED  BY <1>1, <1>4, <2>1, <2>2
<1>6. ASSUME q >= Target(b) PROVE f(q) <= f(q + 1)
  <2>1. 0 <= base(q) /\ base(q) <= base(q + 1)
    BY <1>1, <1>6
  <2>2. d1(q) <= d1(q + 1) /\ d2(q) <= d2(q + 1)
    BY <1>1, <1>6 DEF Double
  <2> HIDE DEF base, d1, d2, f
  <2> QED  BY <1>1, <1>4, <2>1, <2>2
<1>7. \A x : f(x) = Stake(k, b, nt, al, x)
  BY <1>2
<1> HIDE DEF f
<1> QED  BY <1>5, <1>6, <1>7

\* One more scoring card never costs the callers, whatever doubling it brings or
\* takes away (CalculateFinalScore): nobody has a reason to leave cards behind.
THEOREM CapturingPays == ASSUME SteepTargets PROVE SweepSpec => CapturingNeverCosts
<1> DEFINE Pays == \A s \in Callers \ {NoSeat} : Result'[s] >= Result[s]
           Known == \A x \in Table : Result[x] = ResultOf(x, Stake(n, bid, noTrump, alone, p))
<1>1. SweepInv => Known
  BY ResultIs
<1>2. SweepInv' => Known'
  BY <1>1, PTL
<1>3. SweepInv /\ SweepInv' /\ [Capture]_<<contractVars, p>> => [Pays]_<<contractVars, p>>
  <2> SUFFICES ASSUME SweepInv, SweepInv', Capture, NEW r \in Callers \ {NoSeat}
               PROVE  Result'[r] >= Result[r]
    OBVIOUS
  <2> DEFINE s == Stake(n, bid, noTrump, alone, p)
             u == Stake(n, bid, noTrump, alone, p + 1)
             made == p >= Target(bid)
             won == p + 1 >= Target(bid)
             pair == friend \notin {NoSeat, 0}
             opponents == IF pair THEN n - 2 ELSE n - 1
             up(x) == StandardPay(r, 0, friend, opponents, x)
             down(x) == IF pair /\ n = 4 /\ failDist # "equal_split"
                          THEN SpecialPay(r, 0, friend, failDist, x)
                          ELSE StandardPay(r, 0, friend, opponents, -x)
  <2>1. /\ n \in {4, 5} /\ friend \in NoSeat..(n - 1) /\ Table = 0..(n - 1)
        /\ bid \in MinBid(n)..MaxBid /\ MinBid(n) \in {3, 4} /\ Target(bid) \in Int
        /\ p \in 0..(TotalPoints - 1) /\ noTrump \in BOOLEAN /\ alone \in BOOLEAN
    BY PointsAssumption DEF SweepInv, Table, MinBid, Target, Capture
  <2>2. UNCHANGED <<n, failDist, friend, bid, noTrump, alone>> /\ p' = p + 1
    BY DEF Capture, contractVars
  <2>3. bid \in Int /\ bid >= MinBid(n) /\ p \in Int /\ p + 1 \in Int
    BY <2>1, PointsAssumption
  <2>4. s \in Int /\ s >= 0 /\ u \in Int /\ u >= 0
    BY <2>1, <2>3, StakeSign
  <2>5. (~won => u <= s) /\ (made => u >= s) /\ (made => won)
    BY <2>1, <2>3, <2>4, StakeMoves
  <2>6. r \in Table /\ (r = 0 \/ (pair /\ r = friend))
    BY <2>1 DEF Callers, Team, NoSeat
  <2>7. Result[r] = IF made THEN up(s) ELSE down(s)
    BY <1>1, <2>6 DEF ResultOf
  <2>8. Result'[r] = IF won THEN up(u) ELSE down(u)
    <3>1. Table' = Table
      BY <2>2 DEF Table
    <3>2. Result'[r] = ResultOf(r, Stake(n, bid, noTrump, alone, p))'
      BY <1>2, <2>6, <3>1
    <3>3. Target(bid)' = Target(bid)
      BY <2>2 DEF Target
    <3>4. Stake(n, bid, noTrump, alone, p)' = u
      BY <2>2
    <3> QED  BY <2>2, <3>2, <3>3, <3>4 DEF ResultOf
  <2> HIDE DEF s, u, won, made
  <2>9. /\ \A x \in Int : up(x) \in Int
        /\ \A x \in Int : x >= 0 => up(x) >= 0
        /\ \A x, y \in Int : x <= y => up(x) <= up(y)
    <3>1. CASE r = 0
      <4>1. \A x \in Int : up(x) = IF pair THEN opponents * x - x ELSE opponents * x
        BY <2>1, <3>1 DEF StandardPay, NoSeat
      <4>2. pair => (n = 4 => opponents = 2) /\ (n = 5 => opponents = 3)
        OBVIOUS
      <4>3. ~pair => (n = 4 => opponents = 3) /\ (n = 5 => opponents = 4)
        OBVIOUS
      <4> HIDE DEF up, pair, opponents
      <4>4. \/ \A x \in Int : up(x) = x
            \/ \A x \in Int : up(x) = 2 * x
            \/ \A x \in Int : up(x) = 3 * x
            \/ \A x \in Int : up(x) = 4 * x
        <5>1. CASE pair /\ n = 4
          BY <4>1, <4>2, <5>1
        <5>2. CASE pair /\ n = 5
          BY <4>1, <4>2, <5>2
        <5>3. CASE ~pair /\ n = 4
          BY <4>1, <4>3, <5>3
        <5>4. CASE ~pair /\ n = 5
          BY <4>1, <4>3, <5>4
        <5> QED  BY <2>1, <5>1, <5>2, <5>3, <5>4
      <4> QED  BY <4>4
    <3>2. CASE r # 0
      <4>1. \A x \in Int : up(x) = x
        BY <2>6, <3>2 DEF StandardPay
      <4> HIDE DEF up
      <4> QED  BY <4>1
    <3> QED  BY <3>1, <3>2
  <2>10. /\ \A x \in Int : down(x) \in Int
         /\ \A x \in Int : x >= 0 => down(x) <= 0
         /\ \A x, y \in Int : x <= y => down(y) <= down(x)
    <3>1. CASE pair /\ n = 4 /\ failDist # "equal_split"
      <4>1. \/ \A x \in Int : down(x) = 0
            \/ \A x \in Int : down(x) = -x
            \/ \A x \in Int : down(x) = -(2 * x)
            \/ \A x \in Int : down(x) = -(2 * ((3 * x + 1) \div 2) - x)
        <5>1. CASE failDist = "declarer_alone"
          <6>1. r = 0 => \A x \in Int : down(x) = -(2 * x)
            BY <3>1, <5>1 DEF SpecialPay
          <6>2. r # 0 => \A x \in Int : down(x) = 0
            <7>1. r # 0 => \A x \in Int : down(x) = -0
              BY <2>6, <3>1, <5>1 DEF SpecialPay
            <7>2. -0 = 0
              <8>1. \A y \in Int : -y \in Int /\ -y + y = 0
                OBVIOUS
              <8>2. \A y \in Int : y + 0 = y
                OBVIOUS
              <8>3. 0 \in Int
                OBVIOUS
              <8>4. -0 \in Int /\ -0 + 0 = 0
                BY ONLY <8>1, <8>3
              <8> QED  BY ONLY <8>2, <8>4
            <7> QED  BY <7>1, <7>2
          <6> QED  BY <6>1, <6>2
        <5>2. CASE failDist # "declarer_alone"
          BY <2>6, <3>1, <5>2 DEF SpecialPay
        <5> QED  BY <5>1, <5>2
      <4> HIDE DEF down
      <4> QED  BY <4>1
    <3>2. CASE ~(pair /\ n = 4 /\ failDist # "equal_split")
      <4>1. \A x \in Int : down(x) = up(-x)
        BY <3>2
      <4>2. \A x, y \in Int : -x \in Int /\ (x <= y => -y <= -x) /\ (x >= 0 => -x <= 0)
        OBVIOUS
      <4>3. \A x \in Int : x <= 0 => up(x) <= 0
        <5>1. up(0) = 0
          BY <2>1, <2>6 DEF StandardPay
        <5> HIDE DEF up
        <5> QED  BY <2>9, <5>1
      <4> HIDE DEF down, up
      <4> QED  BY <2>9, <4>1, <4>2, <4>3
    <3> QED  BY <3>1, <3>2
  <2> HIDE DEF up, down
  <2>11. CASE ~won
    BY <2>4, <2>5, <2>7, <2>8, <2>10, <2>11
  <2>12. CASE made
    BY <2>4, <2>5, <2>7, <2>8, <2>9, <2>12
  <2>13. CASE won /\ ~made
    BY <2>4, <2>7, <2>8, <2>9, <2>10, <2>13
  <2> QED  BY <2>11, <2>12, <2>13
<1> QED  BY SweepStays, <1>3, PTL DEF SweepSpec, CapturingNeverCosts

----------------------------------------------------------------------------
(* The lobby: which rows a query returns *)

\* The number of places after one differs from place to place, and takes every
\* value there is room for.
LEMMA Ranks ==
  ASSUME NEW m \in Nat, NEW S \in SUBSET (1 .. m)
  PROVE  /\ IsFiniteSet(S) /\ Cardinality(S) \in Nat
         /\ \A i \in S : /\ Cardinality(GameLobby!After(i, S)) \in 0 .. (Cardinality(S) - 1)
                         /\ Cardinality(GameLobby!After(i, S)) <= m - i
         /\ \A i, j \in S :
              Cardinality(GameLobby!After(i, S)) = Cardinality(GameLobby!After(j, S)) => i = j
         /\ \A k \in 1 .. Cardinality(S) :
              \E i \in S : Cardinality(GameLobby!After(i, S)) = k - 1
<1> DEFINE rank(i) == Cardinality(GameLobby!After(i, S))
           c == Cardinality(S)
<1>0. S \subseteq Int /\ m \in Int /\ \A i \in S : 1 <= i /\ i <= m
  OBVIOUS
<1>1. IsFiniteSet(S) /\ c \in Nat
  <2>1. IsFiniteSet(1 .. m)
    BY <1>0, FS_Interval
  <2> QED  BY <2>1, FS_Subset, FS_CardinalityType
<1>2. \A i \in S : IsFiniteSet(GameLobby!After(i, S)) /\ rank(i) \in Nat
  <2> TAKE i \in S
  <2>1. GameLobby!After(i, S) \in SUBSET S
    BY DEF GameLobby!After
  <2> QED  BY <1>1, <2>1, FS_Subset, FS_CardinalityType
<1>3. ASSUME NEW i \in S PROVE rank(i) \in 0 .. (c - 1) /\ rank(i) <= m - i
  <2>1. GameLobby!After(i, S) \in SUBSET (S \ {i})
    BY DEF GameLobby!After
  <2>2. IsFiniteSet(S \ {i}) /\ Cardinality(S \ {i}) = c - 1
    BY <1>1, FS_RemoveElement
  <2>3. rank(i) <= c - 1
    BY <2>1, <2>2, FS_Subset
  <2>4. i \in Int /\ i <= m /\ i + 1 \in Int /\ m \in Int
    BY <1>0
  <2>5. GameLobby!After(i, S) \in SUBSET ((i + 1) .. m)
    <3>1. \A j \in S : j > i => j \in (i + 1) .. m
      BY <1>0, <2>4
    <3> QED  BY <3>1 DEF GameLobby!After
  <2>6. IsFiniteSet((i + 1) .. m) /\ Cardinality((i + 1) .. m) = m - i
    <3>1. /\ IsFiniteSet((i + 1) .. m)
          /\ Cardinality((i + 1) .. m) = IF i + 1 > m THEN 0 ELSE m - (i + 1) + 1
      BY <2>4, FS_Interval
    <3> QED  BY <2>4, <3>1
  <2>7. rank(i) <= m - i
    BY <2>5, <2>6, FS_Subset
  <2> QED  BY <1>1, <1>2, <2>3, <2>7
<1>4. ASSUME NEW i \in S, NEW j \in S, i < j PROVE rank(i) # rank(j)
  <2>1. /\ \A k \in S : k > j => k > i
        /\ j > i /\ ~(j > j)
    BY <1>0, <1>4
  <2>2. GameLobby!After(j, S) \in SUBSET GameLobby!After(i, S)
    BY <2>1 DEF GameLobby!After
  <2>3. GameLobby!After(j, S) # GameLobby!After(i, S)
    BY <2>1 DEF GameLobby!After
  <2> QED  BY <1>2, <2>2, <2>3, FS_Subset
<1>5. \A i, j \in S : rank(i) = rank(j) => i = j
  <2> HIDE DEF rank
  <2>1. \A i, j \in S : i < j \/ i = j \/ j < i
    OBVIOUS
  <2> QED  BY <1>4, <2>1
<1>6. \A k \in 1 .. c : \E i \in S : rank(i) = k - 1
  <2> DEFINE T == 0 .. (c - 1)
             f == [i \in S |-> rank(i)]
  <2>1. IsFiniteSet(T) /\ Cardinality(T) = c
    <3>1. c - 1 \in Int /\ 0 \in Int
      BY <1>1
    <3>2. /\ IsFiniteSet(T)
          /\ Cardinality(T) = IF 0 > c - 1 THEN 0 ELSE (c - 1) - 0 + 1
      BY <3>1, FS_Interval
    <3> QED  BY <1>1, <3>2
  <2>2. f \in Injection(S, T)
    <3> HIDE DEF c
    <3> QED  BY <1>3, <1>5 DEF Injection, IsInjective
  <2>3. f \in Surjection(S, T)
    <3> HIDE DEF f, T
    <3> QED  BY <2>1, <2>2, FS_Injection
  <2>4. \A t \in T : \E i \in S : rank(i) = t
    <3> HIDE DEF rank
    <3> QED  BY <2>3 DEF Surjection
  <2>5. \A k \in 1 .. c : k - 1 \in T
    BY <1>1
  <2> HIDE DEF T, rank, c
  <2> QED  BY <2>4, <2>5
<1> QED  BY <1>1, <1>3, <1>5, <1>6

\* Nothing is at two places of q.
NoTwice(q) == \A i, j \in DOMAIN q : q[i] = q[j] => i = j

\* A query returns no row twice, and every row with the status unless as many
\* newer games exist as it returns at most.
LEMMA QueryReturns ==
  ASSUME born \in Seq(Games), NoTwice(born), NEW s
  PROVE  /\ GameLobby!Newest(s) \in Seq(Games) /\ NoTwice(GameLobby!Newest(s))
         /\ \A i \in DOMAIN born : row[born[i]] = s =>
              \/ born[i] \in GameLobby!Elements(GameLobby!Newest(s))
              \/ Len(born) - i >= ListLimit
<1> DEFINE S == GameLobby!Places(s)
           c == Cardinality(S)
           rank(i) == Cardinality(GameLobby!After(i, S))
           at(k) == CHOOSE i \in S : rank(i) = k - 1
           q == GameLobby!Newest(s)
<1>1. S \in SUBSET (1 .. Len(born)) /\ Len(born) \in Nat /\ ListLimit \in Nat
  BY LobbyAssumption DEF GameLobby!Places, GameLobby!LobbyAssumption
<1>2. /\ c \in Nat
      /\ \A i \in S : rank(i) \in 0 .. (c - 1) /\ rank(i) <= Len(born) - i
      /\ \A i, j \in S : rank(i) = rank(j) => i = j
      /\ \A k \in 1 .. c : \E i \in S : rank(i) = k - 1
  BY <1>1, Ranks
<1> DEFINE len == IF c < ListLimit THEN c ELSE ListLimit
<1>3. len \in Nat /\ len <= c /\ (len = c \/ len = ListLimit)
  BY <1>1, <1>2
<1>4. q = [k \in 1 .. len |-> born[at(k)]]
  BY DEF GameLobby!Newest, GameLobby!Shown, GameLobby!Cardinality, Cardinality
<1> HIDE DEF S, c, rank, q, len
<1>5. \A k \in 1 .. len : at(k) \in S /\ rank(at(k)) = k - 1
  BY <1>2, <1>3
<1>6. \A i \in S : i \in DOMAIN born /\ born[i] \in Games
  BY <1>1
<1> HIDE DEF at
<1>7. q \in Seq(Games) /\ Len(q) = len /\ DOMAIN q = 1 .. len
  BY <1>3, <1>4, <1>5, <1>6
<1>8. NoTwice(q)
  <2> SUFFICES ASSUME NEW i \in 1 .. len, NEW j \in 1 .. len, q[i] = q[j]
               PROVE  i = j
    BY <1>7 DEF NoTwice
  <2>1. born[at(i)] = born[at(j)]
    BY <1>4
  <2>2. at(i) = at(j)
    BY <1>5, <1>6, <2>1 DEF NoTwice
  <2>3. i - 1 = j - 1
    BY <1>5, <2>2
  <2> QED  BY <1>3, <2>3
<1>9. ASSUME NEW i \in DOMAIN born, row[born[i]] = s
       PROVE  born[i] \in GameLobby!Elements(q) \/ Len(born) - i >= ListLimit
  <2>1. i \in S
    BY <1>9 DEF S, GameLobby!Places
  <2>2. rank(i) \in 0 .. (c - 1) /\ rank(i) <= Len(born) - i
    BY <1>2, <2>1
  <2>3. CASE rank(i) < len
    <3>1. rank(i) + 1 \in 1 .. len /\ (rank(i) + 1) - 1 = rank(i)
      BY <1>3, <2>2, <2>3
    <3>2. at(rank(i) + 1) = i
      BY <1>2, <1>5, <2>1, <3>1
    <3>3. q[rank(i) + 1] = born[i]
      BY <1>4, <3>1, <3>2
    <3> QED  BY <1>7, <3>1, <3>3 DEF GameLobby!Elements
  <2>4. CASE rank(i) >= len
    BY <1>1, <1>2, <1>3, <2>2, <2>4
  <2> QED  BY <1>3, <2>2, <2>3, <2>4
<1> QED  BY <1>7, <1>8, <1>9 DEF q

----------------------------------------------------------------------------
(* The lobby: games, seats and rows *)

LobbyTypes ==
  /\ born \in Seq(Games)
  /\ row \in [Games -> {"none", "waiting"}]
  /\ status \in [Games -> GameLobby!Phases \cup {"none"}]
  /\ seats \in [Games -> Seq(Players)] /\ size \in [Games -> SeatCounts \cup {0}]
  /\ making \in [Games -> {"idle", "insert", "save", "join", "done"}]
  /\ reply \in [Games -> {"none", "ok", "failed"}]

\* How far a creator's request is, and what is there so far.
MakingSound(g) ==
  /\ making[g] = "idle" <=> g \notin GameLobby!Elements(born)
  /\ making[g] # "idle" => size[g] # 0
  /\ row[g] # "none" => making[g] \in {"save", "join", "done"}
  /\ making[g] \in {"save", "join"} => row[g] # "none"
  /\ status[g] # "none" => row[g] # "none" /\ making[g] \in {"join", "done"}
  /\ reply[g] = "ok" => making[g] = "done"

\* Who sits at a game: nobody twice, and nobody if the game is not stored; a seat
\* is free while it waits and none while it is played.
TableSound(g) ==
  /\ NoTwice(seats[g]) /\ \E count \in SeatCounts \cup {0} : Len(seats[g]) <= count
  /\ status[g] = "none" => seats[g] = <<>>
  /\ status[g] = "waiting" => Len(seats[g]) < size[g]
  /\ status[g] = "bidding" => Len(seats[g]) >= size[g]
  /\ reply[g] = "ok" /\ status[g] # "none" =>
       Creator[g] \in GameLobby!Elements(seats[g])

GamesInv ==
  /\ LobbyTypes /\ NoTwice(born)
  /\ \A g \in Games : MakingSound(g) /\ TableSound(g)

\* Appending something new keeps a sequence free of repetitions.
LEMMA Appending ==
  ASSUME NEW A, NEW q \in Seq(A), NEW e \in A
  PROVE  /\ Append(q, e) \in Seq(A) /\ Len(Append(q, e)) = Len(q) + 1
         /\ GameLobby!Elements(Append(q, e)) = GameLobby!Elements(q) \cup {e}
         /\ NoTwice(q) /\ e \notin GameLobby!Elements(q) => NoTwice(Append(q, e))
         /\ \A i \in DOMAIN q : i \in DOMAIN Append(q, e) /\ Append(q, e)[i] = q[i]
<1> DEFINE z == Append(q, e)
<1>1. /\ z \in Seq(A) /\ Len(z) = Len(q) + 1 /\ Len(q) \in Nat
      /\ DOMAIN q = 1 .. Len(q) /\ DOMAIN z = 1 .. (Len(q) + 1)
      /\ \A i \in 1 .. Len(q) : z[i] = q[i]
      /\ z[Len(q) + 1] = e
  OBVIOUS
<1> HIDE DEF z
<1>2. \A i \in DOMAIN z : i \in DOMAIN q \/ i = Len(q) + 1
  BY <1>1
<1>3. GameLobby!Elements(z) = GameLobby!Elements(q) \cup {e}
  BY <1>1, <1>2 DEF GameLobby!Elements
<1>4. NoTwice(q) /\ e \notin GameLobby!Elements(q) => NoTwice(z)
  BY <1>1, <1>2 DEF NoTwice, GameLobby!Elements
<1> QED  BY <1>1, <1>3, <1>4 DEF z

\* A join seats a player who is not there, or changes nothing; a creator who does
\* not sit afterwards is not told that she does.
LEMMA Entering ==
  ASSUME GamesInv, NEW g \in Games, NEW x \in Players, GameLobby!Enter(x, g)
  PROVE  /\ seats' \in [Games -> Seq(Players)] /\ size' = size
         /\ status' \in [Games -> GameLobby!Phases \cup {"none"}]
         /\ \A h \in Games \ {g} : seats'[h] = seats[h] /\ status'[h] = status[h]
         /\ status[g] = "none" <=> status'[g] = "none"
         /\ NoTwice(seats'[g]) /\ \E count \in SeatCounts \cup {0} : Len(seats'[g]) <= count
         /\ status'[g] = "none" => seats'[g] = <<>>
         /\ status'[g] = "waiting" => Len(seats'[g]) < size[g]
         /\ status'[g] = "bidding" => Len(seats'[g]) >= size[g]
         /\ GameLobby!Elements(seats[g]) \subseteq GameLobby!Elements(seats'[g])
         /\ status[g] # "none" /\ GameLobby!Verdict(x, g) \in {"seat", "refresh"} =>
              x \in GameLobby!Elements(seats'[g])
<1>1. /\ seats \in [Games -> Seq(Players)] /\ TableSound(g)
      /\ status \in [Games -> GameLobby!Phases \cup {"none"}]
      /\ size[g] \in SeatCounts \cup {0} /\ size[g] \in Nat /\ Len(seats[g]) \in Nat
  <2>1. SeatCounts \subseteq Nat
    BY LobbyAssumption DEF GameLobby!LobbyAssumption
  <2>2. seats[g] \in Seq(Players) /\ size[g] \in SeatCounts \cup {0}
    BY DEF GamesInv, LobbyTypes
  <2>3. Len(seats[g]) \in Nat
    BY <2>2
  <2>4. size[g] \in Nat
    BY <2>1, <2>2
  <2>5. /\ seats \in [Games -> Seq(Players)] /\ TableSound(g)
        /\ status \in [Games -> GameLobby!Phases \cup {"none"}]
    BY DEF GamesInv, LobbyTypes
  <2> QED  BY <2>2, <2>3, <2>4, <2>5
<1>2. CASE GameLobby!Verdict(x, g) = "seat"
  <2>1. /\ status[g] # "none" /\ x \notin GameLobby!Elements(seats[g])
        /\ Len(seats[g]) < size[g]
    BY <1>2 DEF GameLobby!Verdict
  <2>2. status[g] \in {"waiting", "finished"}
    BY <1>1, <2>1 DEF TableSound, GameLobby!Phases
  <2>3. /\ seats' = [seats EXCEPT ![g] = Append(@, x)] /\ size' = size
        /\ status' = IF Len(seats[g]) + 1 = size[g]
                       THEN [status EXCEPT ![g] = "bidding"] ELSE status
    BY <1>2 DEF GameLobby!Enter
  <2>4. seats'[g] = Append(seats[g], x)
    BY <1>1, <2>3
  <2>5. /\ Append(seats[g], x) \in Seq(Players)
        /\ Len(seats'[g]) = Len(seats[g]) + 1 /\ NoTwice(seats'[g])
        /\ GameLobby!Elements(seats'[g]) = GameLobby!Elements(seats[g]) \cup {x}
    BY <1>1, <2>1, <2>4, Appending DEF TableSound
  <2>6. /\ seats' \in [Games -> Seq(Players)]
        /\ \A h \in Games \ {g} : seats'[h] = seats[h] /\ status'[h] = status[h]
    BY <1>1, <2>3, <2>5
  <2>7. /\ status' \in [Games -> GameLobby!Phases \cup {"none"}]
        /\ status'[g] = IF Len(seats[g]) + 1 = size[g] THEN "bidding" ELSE status[g]
    BY <1>1, <2>2, <2>3 DEF GameLobby!Phases
  <2>8. /\ Len(seats'[g]) <= size[g]
        /\ status'[g] = "waiting" => Len(seats'[g]) < size[g]
        /\ status'[g] = "bidding" => Len(seats'[g]) >= size[g]
        /\ status'[g] # "none"
    BY <1>1, <2>1, <2>2, <2>5, <2>7
  <2> QED  BY <1>1, <2>1, <2>3, <2>5, <2>6, <2>7, <2>8
<1>3. CASE GameLobby!Verdict(x, g) # "seat"
  <2>1. UNCHANGED <<status, seats, size>>
    BY <1>3 DEF GameLobby!Enter, GameLobby!gameVars
  <2>2. status[g] # "none" /\ GameLobby!Verdict(x, g) = "refresh" =>
          x \in GameLobby!Elements(seats[g])
    BY DEF GameLobby!Verdict
  <2> QED  BY <1>1, <1>3, <2>1, <2>2 DEF TableSound
<1> QED  BY <1>2, <1>3

\* One game moves: the invariant is kept if it is kept for that game.
LEMMA OneGame ==
  ASSUME GamesInv, NEW g \in Games, LobbyTypes', UNCHANGED born,
         \A h \in Games \ {g} : /\ row'[h] = row[h] /\ status'[h] = status[h]
                                /\ seats'[h] = seats[h] /\ making'[h] = making[h]
                                /\ size'[h] = size[h]
                                /\ reply'[h] = reply[h],
         MakingSound(g)', TableSound(g)'
  PROVE  GamesInv'
<1>1. ASSUME NEW h \in Games \ {g} PROVE MakingSound(h)' /\ TableSound(h)'
  BY DEF GamesInv, MakingSound, TableSound
<1>2. NoTwice(born)'
  BY DEF GamesInv
<1> QED  BY <1>1, <1>2 DEF GamesInv

\* Before its state is saved a game has no player, and it is to have a seat.
LEMMA Unsaved ==
  ASSUME GamesInv, NEW g \in Games, making[g] = "save"
  PROVE  status[g] = "none" /\ seats[g] = <<>> /\ 0 < size[g] /\ Len(seats[g]) = 0
<1>1. SeatCounts \subseteq Nat \ {0}
  BY LobbyAssumption DEF GameLobby!LobbyAssumption
<1>2. size[g] \in SeatCounts \cup {0} /\ MakingSound(g) /\ TableSound(g)
  BY DEF GamesInv, LobbyTypes
<1>3. size[g] \in Nat \ {0} /\ status[g] = "none" /\ seats[g] = <<>>
  BY <1>1, <1>2 DEF MakingSound, TableSound
<1> QED  BY <1>3

LEMMA GamesStep == GamesInv /\ GameLobby!Next => GamesInv'
<1> SUFFICES ASSUME GamesInv, GameLobby!Next PROVE GamesInv'
  OBVIOUS
<1> USE DEF GameLobby!createVars, GameLobby!gameVars, GameLobby!MakingGoes
<1>0. /\ LobbyTypes /\ NoTwice(born) /\ SeatCounts \subseteq Nat \ {0}
      /\ Creator \in [Games -> Players] /\ Listers \subseteq Players
      /\ \A g \in Games : MakingSound(g) /\ TableSound(g)
  BY LobbyAssumption DEF GamesInv, GameLobby!LobbyAssumption
<1>1. ASSUME NEW g \in Games, NEW count \in SeatCounts, GameLobby!BeginCreate(g, count)
      PROVE  GamesInv'
  <2>1. /\ making[g] = "idle" /\ born' = Append(born, g)
        /\ making' = [making EXCEPT ![g] = "insert"] /\ size' = [size EXCEPT ![g] = count]
        /\ UNCHANGED <<row, reply, status, seats>>
    BY <1>1 DEF GameLobby!BeginCreate
  <2>2. born \in Seq(Games) /\ g \notin GameLobby!Elements(born)
    BY <1>0, <2>1 DEF LobbyTypes, MakingSound
  <2>3. /\ born' \in Seq(Games) /\ NoTwice(born')
        /\ GameLobby!Elements(born') = GameLobby!Elements(born) \cup {g}
    BY <1>0, <2>1, <2>2, Appending
  <2>4. LobbyTypes'
    BY <1>0, <2>1, <2>3 DEF LobbyTypes
  <2>5. GameLobby!Elements(born)' = GameLobby!Elements(born')
    BY DEF GameLobby!Elements
  <2>6. \A h \in Games : MakingSound(h)' /\ TableSound(h)'
    <3> TAKE h \in Games
    <3>1. MakingSound(h)'
      BY <1>0, <2>1, <2>3, <2>5 DEF MakingSound, LobbyTypes
    <3>2. status[g] = "none" /\ size' = [size EXCEPT ![g] = count]
      BY <1>0, <2>1 DEF MakingSound
    <3>3. TableSound(h)'
      BY <1>0, <2>1, <3>2 DEF TableSound, LobbyTypes, GameLobby!Elements
    <3> QED  BY <3>1, <3>3
  <2> QED  BY <2>3, <2>4, <2>6 DEF GamesInv, NoTwice
<1>2. ASSUME NEW g \in Games, GameLobby!InsertRow(g) PROVE GamesInv'
  <2>1. /\ making[g] = "insert" /\ row' = [row EXCEPT ![g] = "waiting"]
        /\ making' = [making EXCEPT ![g] = "save"]
        /\ UNCHANGED <<born, reply, status, seats, size>>
    BY <1>2 DEF GameLobby!InsertRow
  <2>2. LobbyTypes'
    BY <1>0, <2>1 DEF LobbyTypes
  <2>3. row'[g] = "waiting" /\ making'[g] = "save"
    BY <1>0, <2>1 DEF LobbyTypes
  <2>4. MakingSound(g)'
    BY <1>0, <2>1, <2>3 DEF MakingSound, GameLobby!Elements
  <2>5. TableSound(g)'
    BY <1>0, <2>1 DEF TableSound, GameLobby!Elements
  <2> QED  BY <1>0, <2>1, <2>2, <2>4, <2>5, OneGame DEF LobbyTypes
<1>3. ASSUME NEW g \in Games, GameLobby!SaveState(g) PROVE GamesInv'
  <2>1. /\ making[g] = "save" /\ status' = [status EXCEPT ![g] = "waiting"]
        /\ making' = [making EXCEPT ![g] = "join"]
        /\ UNCHANGED <<born, row, reply, seats, size>>
    BY <1>3 DEF GameLobby!SaveState
  <2>2. LobbyTypes'
    BY <1>0, <2>1 DEF LobbyTypes, GameLobby!Phases
  <2>3. status[g] = "none" /\ seats[g] = <<>> /\ 0 < size[g] /\ Len(seats[g]) = 0
    BY <1>0, <2>1, Unsaved
  <2>4. MakingSound(g)' /\ TableSound(g)'
    BY <1>0, <2>1, <2>3 DEF MakingSound, TableSound, LobbyTypes, GameLobby!Elements
  <2> QED  BY <1>0, <2>1, <2>2, <2>4, OneGame DEF LobbyTypes
<1>4. ASSUME NEW g \in Games, GameLobby!JoinCreator(g) PROVE GamesInv'
  <2>1. /\ making[g] = "join" /\ GameLobby!Enter(Creator[g], g) /\ Creator[g] \in Players
        /\ making' = [making EXCEPT ![g] = "done"]
        /\ reply' = [reply EXCEPT ![g] =
             IF GameLobby!Verdict(Creator[g], g) \in {"seat", "refresh"} THEN "ok" ELSE "failed"]
        /\ UNCHANGED <<born, row>>
    BY <1>0, <1>4 DEF GameLobby!JoinCreator, GameLobby!Answered
  <2>2. LobbyTypes'
    BY <1>0, <2>1, Entering DEF LobbyTypes
  <2>3. MakingSound(g)'
    <3>1. making'[g] = "done" /\ (status'[g] = "none" <=> status[g] = "none")
      BY <1>0, <2>1, Entering DEF LobbyTypes
    <3>2. UNCHANGED <<size, row, born>> /\ MakingSound(g)
      BY <1>0, <2>1, Entering
    <3> QED  BY <2>1, <3>1, <3>2 DEF MakingSound, GameLobby!Elements
  <2>4. TableSound(g)'
    <3>1. reply'[g] = "ok" => GameLobby!Verdict(Creator[g], g) \in {"seat", "refresh"}
      BY <1>0, <2>1 DEF LobbyTypes
    <3> QED  BY <1>0, <2>1, <3>1, Entering DEF TableSound, GameLobby!Elements
  <2> QED  BY <1>0, <2>1, <2>2, <2>3, <2>4, Entering, OneGame DEF LobbyTypes
<1>5. ASSUME NEW g \in Games, GameLobby!CreateFails(g) PROVE GamesInv'
  <2>1. /\ making[g] \in {"insert", "save", "join"}
        /\ making' = [making EXCEPT ![g] = "done"]
        /\ reply' = [reply EXCEPT ![g] = "failed"]
        /\ UNCHANGED <<born, row, status, seats, size>>
    BY <1>5 DEF GameLobby!CreateFails, GameLobby!Answered
  <2>2. LobbyTypes'
    BY <1>0, <2>1 DEF LobbyTypes
  <2>3. MakingSound(g)' /\ TableSound(g)'
    BY <1>0, <2>1 DEF MakingSound, TableSound, LobbyTypes, GameLobby!Elements
  <2> QED  BY <1>0, <2>1, <2>2, <2>3, OneGame DEF LobbyTypes
<1>6. ASSUME NEW g \in Games, GameLobby!CreateReplyLost(g) PROVE GamesInv'
  <2>1. /\ making[g] \in {"insert", "save", "join"}
        /\ making' = [making EXCEPT ![g] = "done"]
        /\ reply' = [reply EXCEPT ![g] = "failed"]
        /\ UNCHANGED born
    BY <1>6 DEF GameLobby!CreateReplyLost, GameLobby!Answered
  <2>2. CASE making[g] = "insert"
    <3>1. row' = [row EXCEPT ![g] = "waiting"] /\ UNCHANGED <<status, seats, size>>
      BY <1>6, <2>2 DEF GameLobby!CreateReplyLost
    <3>2. LobbyTypes'
      BY <1>0, <2>1, <3>1 DEF LobbyTypes
    <3>3. row'[g] = "waiting" /\ making'[g] = "done" /\ reply'[g] = "failed"
      BY <1>0, <2>1, <3>1 DEF LobbyTypes
    <3>4. MakingSound(g)'
      BY <1>0, <2>1, <2>2, <3>1, <3>3 DEF MakingSound, GameLobby!Elements
    <3>5. TableSound(g)'
      BY <1>0, <3>1, <3>3 DEF TableSound, GameLobby!Elements
    <3> QED  BY <1>0, <2>1, <3>1, <3>2, <3>4, <3>5, OneGame DEF LobbyTypes
  <2>3. CASE making[g] = "save"
    <3>1. status' = [status EXCEPT ![g] = "waiting"] /\ UNCHANGED <<row, seats, size>>
      BY <1>6, <2>3 DEF GameLobby!CreateReplyLost
    <3>2. LobbyTypes'
      BY <1>0, <2>1, <3>1 DEF LobbyTypes, GameLobby!Phases
    <3>3. /\ status[g] = "none" /\ seats[g] = <<>> /\ 0 < size[g] /\ Len(seats[g]) = 0
          /\ status'[g] = "waiting" /\ making'[g] = "done" /\ reply'[g] = "failed"
      BY <1>0, <2>1, <2>3, <3>1, Unsaved DEF LobbyTypes
    <3>4. MakingSound(g)'
      BY <1>0, <2>1, <2>3, <3>1, <3>3 DEF MakingSound, GameLobby!Elements
    <3>5. TableSound(g)'
      BY <1>0, <3>1, <3>3 DEF TableSound, GameLobby!Elements
    <3> QED  BY <1>0, <2>1, <3>1, <3>2, <3>4, <3>5, OneGame DEF LobbyTypes
  <2>4. CASE making[g] = "join"
    <3>1. GameLobby!Enter(Creator[g], g) /\ UNCHANGED row /\ Creator[g] \in Players
      BY <1>0, <1>6, <2>4 DEF GameLobby!CreateReplyLost
    <3>2. LobbyTypes'
      BY <1>0, <2>1, <3>1, Entering DEF LobbyTypes
    <3>3. MakingSound(g)' /\ TableSound(g)'
      <4>1. MakingSound(g)'
        <5>1. /\ making'[g] = "done" /\ reply'[g] = "failed"
              /\ status'[g] = "none" <=> status[g] = "none"
          BY <1>0, <2>1, <3>1, Entering DEF LobbyTypes
        <5>2. UNCHANGED <<size, row, born>> /\ MakingSound(g)
          BY <1>0, <2>1, <3>1, Entering
        <5> QED  BY <2>4, <5>1, <5>2 DEF MakingSound, GameLobby!Elements
      <4>2. TableSound(g)'
        BY <1>0, <2>1, <3>1, Entering DEF TableSound, LobbyTypes, GameLobby!Elements
      <4> QED  BY <4>1, <4>2
    <3> QED  BY <1>0, <2>1, <3>1, <3>2, <3>3, Entering, OneGame DEF LobbyTypes
  <2> QED  BY <2>1, <2>2, <2>3, <2>4
<1>7. ASSUME NEW g \in Games, GameLobby!EndRound(g) \/ GameLobby!PlayAgain(g)
      PROVE  GamesInv'
  <2>1. /\ status[g] \in {"bidding", "finished"}
        /\ \/ status' = [status EXCEPT ![g] = "finished"]
           \/ /\ Len(seats[g]) >= size[g]
              /\ status' = [status EXCEPT ![g] = "bidding"]
        /\ UNCHANGED <<born, row, making, reply, seats, size>>
    BY <1>7 DEF GameLobby!EndRound, GameLobby!PlayAgain
  <2>2. LobbyTypes'
    BY <1>0, <2>1 DEF LobbyTypes, GameLobby!Phases
  <2>3. /\ status'[g] \in {"bidding", "finished"}
        /\ status'[g] = "bidding" => Len(seats[g]) >= size[g]
    BY <1>0, <2>1 DEF LobbyTypes
  <2>4. MakingSound(g)'
    <3>1. UNCHANGED <<born, row, making, reply, size>> /\ MakingSound(g)
      BY <1>0, <2>1
    <3>2. status[g] # "none"
      BY <2>1
    <3> QED  BY <3>1, <3>2 DEF MakingSound, GameLobby!Elements
  <2>5. TableSound(g)'
    <3>1. UNCHANGED <<reply, seats, size>> /\ TableSound(g) /\ status[g] # "none"
      BY <1>0, <2>1
    <3> QED  BY <2>3, <3>1 DEF TableSound, GameLobby!Elements
  <2>6. \A h \in Games \ {g} : status'[h] = status[h]
    BY <1>0, <2>1 DEF LobbyTypes
  <2> QED  BY <1>0, <2>1, <2>2, <2>4, <2>5, <2>6, OneGame
<1>11. ASSUME NEW g \in Games, NEW count \in SeatCounts, GameLobby!ChangeConfig(g, count)
       PROVE  GamesInv'
  <2>1. /\ status[g] = "finished" /\ size' = [size EXCEPT ![g] = count]
        /\ UNCHANGED <<born, row, making, reply, status, seats>>
    BY <1>11 DEF GameLobby!ChangeConfig
  <2>2. LobbyTypes'
    BY <1>0, <2>1 DEF LobbyTypes
  <2>3. size'[g] # 0
    BY <1>0, <2>1 DEF LobbyTypes
  <2>4. MakingSound(g)' /\ TableSound(g)'
    BY <1>0, <2>1, <2>3 DEF MakingSound, TableSound, GameLobby!Elements
  <2> QED  BY <1>0, <2>1, <2>2, <2>4, OneGame DEF LobbyTypes
<1>8. ASSUME NEW g \in Games, GameLobby!Expire(g) PROVE GamesInv'
  <2>1. /\ status' = [status EXCEPT ![g] = "none"] /\ seats' = [seats EXCEPT ![g] = <<>>]
        /\ UNCHANGED <<born, row, making, reply, size>>
    BY <1>8 DEF GameLobby!Expire
  <2>2. LobbyTypes'
    BY <1>0, <2>1 DEF LobbyTypes
  <2>3. status'[g] = "none" /\ seats'[g] = <<>> /\ Len(seats'[g]) = 0
    BY <1>0, <2>1 DEF LobbyTypes
  <2>4. MakingSound(g)' /\ TableSound(g)'
    BY <1>0, <2>1, <2>3 DEF MakingSound, TableSound, GameLobby!Elements, NoTwice
  <2> QED  BY <1>0, <2>1, <2>2, <2>4, OneGame DEF LobbyTypes
<1>9. ASSUME NEW g \in Games, NEW x \in Players,
             GameLobby!Join(x, g) \/ GameLobby!JoinInVain(x, g)
      PROVE  GamesInv'
  <2>1. GameLobby!Enter(x, g) /\ UNCHANGED <<born, row, making, reply>>
    BY <1>9 DEF GameLobby!Join, GameLobby!JoinInVain
  <2>2. /\ seats' \in [Games -> Seq(Players)] /\ size' = size
        /\ status' \in [Games -> GameLobby!Phases \cup {"none"}]
        /\ \A h \in Games \ {g} : seats'[h] = seats[h] /\ status'[h] = status[h]
        /\ status[g] = "none" <=> status'[g] = "none"
        /\ NoTwice(seats'[g]) /\ \E count \in SeatCounts \cup {0} : Len(seats'[g]) <= count
        /\ status'[g] = "none" => seats'[g] = <<>>
        /\ status'[g] = "waiting" => Len(seats'[g]) < size[g]
        /\ status'[g] = "bidding" => Len(seats'[g]) >= size[g]
        /\ GameLobby!Elements(seats[g]) \subseteq GameLobby!Elements(seats'[g])
    BY <1>0, <2>1, Entering
  <2>3. LobbyTypes'
    BY <1>0, <2>1, <2>2 DEF LobbyTypes
  <2>4. GameLobby!Elements(born)' = GameLobby!Elements(born)
    BY <2>1 DEF GameLobby!Elements
  <2>5. MakingSound(g)'
    BY <1>0, <2>1, <2>2, <2>4 DEF MakingSound
  <2>6. GameLobby!Elements(seats[g])' = GameLobby!Elements(seats'[g])
    BY DEF GameLobby!Elements
  <2>7. TableSound(g)'
    BY <1>0, <2>1, <2>2, <2>6 DEF TableSound
  <2> QED  BY <1>0, <2>1, <2>2, <2>3, <2>5, <2>7, OneGame
<1>10. ASSUME NEW l \in Listers, (\E s \in Asked : GameLobby!Query(l, s))
                \/ GameLobby!LoadOne(l) \/ GameLobby!LoadFails(l) \/ GameLobby!EndListing(l)
       PROVE  GamesInv'
  <2>1. UNCHANGED <<born, row, making, reply, status, seats, size>>
    BY <1>10 DEF GameLobby!Query, GameLobby!LoadOne, GameLobby!LoadFails, GameLobby!EndListing
  <2> QED  BY <1>0, <2>1
          DEF GamesInv, LobbyTypes, NoTwice, MakingSound, TableSound, GameLobby!Elements
<1> QED
  BY <1>1, <1>2, <1>3, <1>4, <1>5, <1>6, <1>7, <1>8, <1>9, <1>10, <1>11
     DEF GameLobby!Next

----------------------------------------------------------------------------
(* The lobby: listings *)

ListTypes ==
  /\ listing \in [Listers -> {"idle", "load", "done"}]
  /\ asked \in [Listers -> GameLobby!Phases]
  /\ todo \in [Listers -> Seq(Games)] /\ found \in [Listers -> Seq(Games)]
  /\ missed \in [Listers -> SUBSET Games]
  /\ steady \in [Listers -> SUBSET Games] /\ ever \in [Listers -> SUBSET Games]

\* The games with the phase that l asks for.
Matching(l) == {g \in Games : status[g] = asked[l]}

\* As many newer games exist as a query returns.
Buried(g) == \E i \in DOMAIN born : born[i] = g /\ Len(born) - i >= ListLimit

\* A game that had the phase all the time is found, has yet to be loaded, could not
\* be loaded, or was too old for the query.
NothingLost(l) ==
  \A g \in steady[l] : \/ g \in GameLobby!Elements(found[l]) \cup GameLobby!Elements(todo[l])
                       \/ g \in missed[l]
                       \/ Buried(g)

ListingSound(l) ==
  /\ NoTwice(todo[l]) /\ NoTwice(found[l])
  /\ GameLobby!Elements(todo[l]) \cap GameLobby!Elements(found[l]) = {}
  /\ listing[l] = "idle" => found[l] = <<>>
  /\ listing[l] = "done" => todo[l] = <<>>
  /\ listing[l] = "load" => steady[l] \subseteq Matching(l) /\ Matching(l) \subseteq ever[l]
  /\ GameLobby!Elements(found[l]) \subseteq ever[l]
  /\ listing[l] # "idle" /\ asked[l] = "waiting" => NothingLost(l)

LobbyInv == GamesInv /\ ListTypes /\ \A l \in Listers : ListingSound(l)

\* The first of a sequence without repetitions is not in the rest of it.
LEMMA Taking ==
  ASSUME NEW A, NEW q \in Seq(A), q # <<>>
  PROVE  /\ Head(q) \in A /\ Tail(q) \in Seq(A)
         /\ GameLobby!Elements(q) = {Head(q)} \cup GameLobby!Elements(Tail(q))
         /\ NoTwice(q) => NoTwice(Tail(q)) /\ Head(q) \notin GameLobby!Elements(Tail(q))
<1> DEFINE z == Tail(q)
<1>1. /\ Len(q) \in Nat \ {0} /\ DOMAIN q = 1 .. Len(q) /\ Head(q) = q[1] /\ q[1] \in A
      /\ z \in Seq(A) /\ DOMAIN z = 1 .. (Len(q) - 1)
      /\ \A i \in 1 .. (Len(q) - 1) : z[i] = q[i + 1]
  OBVIOUS
<1> HIDE DEF z
<1>2. \A i \in DOMAIN z : i + 1 \in DOMAIN q /\ z[i] = q[i + 1] /\ i + 1 # 1
  BY <1>1
<1>3. \A i \in DOMAIN q : i = 1 \/ (i - 1 \in DOMAIN z /\ z[i - 1] = q[i])
  <2> TAKE i \in DOMAIN q
  <2>1. i # 1 => i - 1 \in 1 .. (Len(q) - 1) /\ (i - 1) + 1 = i
    BY <1>1
  <2> QED  BY <1>1, <2>1
<1>4. 1 \in DOMAIN q
  BY <1>1
<1>5. GameLobby!Elements(q) = {q[1]} \cup GameLobby!Elements(z)
  BY <1>2, <1>3, <1>4 DEF GameLobby!Elements
<1>6. NoTwice(q) => NoTwice(z)
  <2> SUFFICES ASSUME NoTwice(q), NEW i \in DOMAIN z, NEW j \in DOMAIN z, z[i] = z[j]
               PROVE  i = j
    BY DEF NoTwice
  <2>1. i + 1 = j + 1
    BY <1>2 DEF NoTwice
  <2> QED  BY <1>1, <2>1
<1>7. NoTwice(q) => q[1] \notin GameLobby!Elements(z)
  BY <1>2, <1>4 DEF NoTwice, GameLobby!Elements
<1> QED  BY <1>1, <1>5, <1>6, <1>7 DEF z

\* What the history remembers.
LEMMA Tracking ==
  ASSUME ListTypes, GameLobby!Track, NEW l \in Listers
  PROVE  /\ steady' \in [Listers -> SUBSET Games] /\ ever' \in [Listers -> SUBSET Games]
         /\ listing[l] = "idle" /\ listing'[l] = "load" =>
              steady'[l] = Matching(l)' /\ ever'[l] = Matching(l)'
         /\ listing[l] = "load" => /\ steady'[l] = steady[l] \cap Matching(l)'
                                   /\ ever'[l] = ever[l] \cup Matching(l)'
         /\ listing[l] # "load" /\ ~(listing[l] = "idle" /\ listing'[l] = "load") =>
              steady'[l] = steady[l] /\ ever'[l] = ever[l]
<1> DEFINE Now(k) == {g \in Games : status'[g] = asked'[k]}
<1>1. /\ steady' = [k \in Listers |->
           CASE listing[k] = "idle" /\ listing'[k] = "load" -> Now(k)
             [] listing[k] = "load" -> steady[k] \cap Now(k)
             [] OTHER -> steady[k]]
      /\ ever' = [k \in Listers |->
           CASE listing[k] = "idle" /\ listing'[k] = "load" -> Now(k)
             [] listing[k] = "load" -> ever[k] \cup Now(k)
             [] OTHER -> ever[k]]
  BY DEF GameLobby!Track
<1>2. Matching(l)' = Now(l) /\ \A k \in Listers : Now(k) \in SUBSET Games
  BY DEF Matching
<1> HIDE DEF Now
<1>3. \A k \in Listers :
        /\ listing[k] = "idle" /\ listing'[k] = "load" =>
             steady'[k] = Now(k) /\ ever'[k] = Now(k)
        /\ listing[k] = "load" =>
             steady'[k] = steady[k] \cap Now(k) /\ ever'[k] = ever[k] \cup Now(k)
        /\ listing[k] # "load" /\ ~(listing[k] = "idle" /\ listing'[k] = "load") =>
             steady'[k] = steady[k] /\ ever'[k] = ever[k]
  BY <1>1
<1>4. /\ steady' \in [Listers -> SUBSET Games]
      /\ ever' \in [Listers -> SUBSET Games]
  <2>1. \A k \in Listers : steady[k] \in SUBSET Games /\ ever[k] \in SUBSET Games
    BY DEF ListTypes
  <2>2. \A k \in Listers : steady'[k] \in SUBSET Games /\ ever'[k] \in SUBSET Games
    BY <1>2, <1>3, <2>1
  <2>3. /\ steady' = [k \in Listers |-> steady'[k]]
        /\ ever' = [k \in Listers |-> ever'[k]]
    BY <1>1
  <2> QED  BY <2>2, <2>3
<1> QED  BY <1>2, <1>3, <1>4

\* Games only come after those that exist.
LEMMA BurialIsForEver ==
  ASSUME born \in Seq(Games), born' = born \/ \E h \in Games : born' = Append(born, h),
         NEW g, Buried(g)
  PROVE  Buried(g)'
<1>1. CASE born' = born
  BY <1>1 DEF Buried
<1>2. ASSUME NEW h \in Games, born' = Append(born, h) PROVE Buried(g)'
  <2>1. PICK i \in DOMAIN born : born[i] = g /\ Len(born) - i >= ListLimit
    BY DEF Buried
  <2>2. /\ i \in DOMAIN born' /\ born'[i] = g /\ Len(born') = Len(born) + 1
        /\ i \in Int /\ Len(born) \in Int
    BY <1>2, <2>1
  <2>3. ListLimit \in Nat
    BY LobbyAssumption DEF GameLobby!LobbyAssumption
  <2> QED  BY <2>1, <2>2, <2>3 DEF Buried
<1> QED  BY <1>1, <1>2

\* A listing in which nothing happens stays sound, whatever happens to the games.
LEMMA QuietListing ==
  ASSUME LobbyInv, GameLobby!Track, NEW l \in Listers,
         born' = born \/ \E h \in Games : born' = Append(born, h),
         /\ listing'[l] = listing[l] /\ asked'[l] = asked[l]
         /\ todo'[l] = todo[l] /\ found'[l] = found[l] /\ missed'[l] = missed[l]
  PROVE  ListingSound(l)'
<1>1. ListingSound(l) /\ ListTypes /\ born \in Seq(Games)
  BY DEF LobbyInv, GamesInv, LobbyTypes
<1>2. /\ GameLobby!Elements(todo[l])' = GameLobby!Elements(todo[l])
      /\ GameLobby!Elements(found[l])' = GameLobby!Elements(found[l])
      /\ NoTwice(todo[l])' = NoTwice(todo[l]) /\ NoTwice(found[l])' = NoTwice(found[l])
  BY DEF GameLobby!Elements, NoTwice
<1>3. steady'[l] \subseteq steady[l] /\ ever[l] \subseteq ever'[l]
  BY <1>1, Tracking
<1>4. listing[l] = "load" => steady'[l] \subseteq Matching(l)' /\ Matching(l)' \subseteq ever'[l]
  BY <1>1, Tracking
<1>5. NothingLost(l) => NothingLost(l)'
  <2> SUFFICES ASSUME NothingLost(l), NEW g \in steady'[l]
               PROVE  \/ g \in GameLobby!Elements(found[l])' \cup GameLobby!Elements(todo[l])'
                      \/ g \in missed'[l]
                      \/ Buried(g)'
    BY DEF NothingLost
  <2> QED  BY <1>1, <1>2, <1>3, BurialIsForEver DEF NothingLost
<1> QED  BY <1>1, <1>2, <1>3, <1>4, <1>5 DEF ListingSound

\* The query: what is waiting has a row, so it is found or too old.
LEMMA QueryListing ==
  ASSUME LobbyInv, GameLobby!Track, NEW l \in Listers, NEW s \in Asked, GameLobby!Query(l, s)
  PROVE  ListingSound(l)' /\ ListTypes'
<1> DEFINE q == GameLobby!Newest(s)
<1>1. /\ GamesInv /\ ListingSound(l) /\ ListTypes /\ born \in Seq(Games) /\ NoTwice(born)
      /\ row \in [Games -> {"none", "waiting"}] /\ s \in GameLobby!Phases
  BY LobbyAssumption
     DEF LobbyInv, GamesInv, LobbyTypes, GameLobby!LobbyAssumption, GameLobby!Phases
<1>2. /\ listing[l] = "idle" /\ asked' = [asked EXCEPT ![l] = s]
      /\ todo' = [todo EXCEPT ![l] = q] /\ listing' = [listing EXCEPT ![l] = "load"]
      /\ UNCHANGED <<born, row, status, seats, found, missed>>
  BY DEF GameLobby!Query, GameLobby!createVars, GameLobby!gameVars
<1>3. /\ q \in Seq(Games) /\ NoTwice(q)
      /\ \A i \in DOMAIN born : row[born[i]] = s =>
           born[i] \in GameLobby!Elements(q) \/ Len(born) - i >= ListLimit
  BY <1>1, QueryReturns
<1> HIDE DEF q
<1>4. asked'[l] = s /\ todo'[l] = q /\ listing'[l] = "load" /\ found'[l] = <<>>
  BY <1>1, <1>2 DEF ListTypes, ListingSound
<1>5. steady'[l] = Matching(l)' /\ ever'[l] = Matching(l)'
  BY <1>1, <1>2, <1>4, Tracking
<1>6. ListTypes'
  BY <1>1, <1>2, <1>3, Tracking DEF ListTypes
<1>7. /\ GameLobby!Elements(todo[l])' = GameLobby!Elements(q)
      /\ GameLobby!Elements(found[l])' = {} /\ NoTwice(todo[l])' /\ NoTwice(found[l])'
  BY <1>3, <1>4 DEF GameLobby!Elements, NoTwice
<1>8. s = "waiting" => NothingLost(l)'
  <2> SUFFICES ASSUME s = "waiting", NEW g \in Matching(l)'
               PROVE  g \in GameLobby!Elements(q) \/ Buried(g)'
    BY <1>5, <1>7 DEF NothingLost
  <2>1. g \in Games /\ status[g] = "waiting"
    BY <1>2, <1>4 DEF Matching
  <2>2. row[g] = "waiting" /\ g \in GameLobby!Elements(born)
    BY <1>1, <2>1 DEF GamesInv, MakingSound
  <2>3. PICK i \in DOMAIN born : born[i] = g
    BY <2>2 DEF GameLobby!Elements
  <2>4. born[i] \in GameLobby!Elements(q) \/ Len(born) - i >= ListLimit
    BY <1>3, <2>2, <2>3
  <2>5. Len(born) - i >= ListLimit => Buried(g)
    BY <2>3 DEF Buried
  <2>6. Buried(g) => Buried(g)'
    BY <1>2 DEF Buried
  <2> QED  BY <2>3, <2>4, <2>5, <2>6
<1> QED  BY <1>4, <1>5, <1>6, <1>7, <1>8 DEF ListingSound

\* One more game is loaded, or cannot be loaded, or there is none left: a game that
\* has the phase is found.
LEMMA LoadListing ==
  ASSUME LobbyInv, GameLobby!Track, NEW l \in Listers,
         GameLobby!LoadOne(l) \/ GameLobby!LoadFails(l) \/ GameLobby!EndListing(l)
  PROVE  ListingSound(l)' /\ ListTypes'
<1>1. /\ ListingSound(l) /\ ListTypes /\ todo[l] \in Seq(Games) /\ found[l] \in Seq(Games)
      /\ missed[l] \in SUBSET Games
  BY DEF LobbyInv, ListTypes
<1>2. /\ listing[l] = "load" /\ UNCHANGED <<born, status, asked>>
  BY DEF GameLobby!LoadOne, GameLobby!LoadFails, GameLobby!EndListing,
         GameLobby!createVars, GameLobby!gameVars
<1>3. /\ steady'[l] = steady[l] /\ ever'[l] = ever[l] /\ Matching(l)' = Matching(l)
      /\ steady[l] \subseteq Matching(l) /\ Matching(l) \subseteq ever[l]
      /\ steady' \in [Listers -> SUBSET Games] /\ ever' \in [Listers -> SUBSET Games]
  <2>1. Matching(l)' = Matching(l)
    BY <1>2 DEF Matching
  <2> QED  BY <1>1, <1>2, <2>1, Tracking DEF ListingSound
<1>4. \A g : Buried(g)' <=> Buried(g)
  BY <1>2 DEF Buried
<1>5. CASE GameLobby!EndListing(l)
  <2>1. /\ todo[l] = <<>> /\ listing' = [listing EXCEPT ![l] = "done"]
        /\ UNCHANGED <<todo, found, missed>>
    BY <1>5 DEF GameLobby!EndListing
  <2>2. ListTypes' /\ listing'[l] = "done"
    BY <1>1, <1>2, <1>3, <2>1 DEF ListTypes
  <2>3. NothingLost(l)' = NothingLost(l)
    BY <1>3, <1>4, <2>1 DEF NothingLost, GameLobby!Elements
  <2> QED
    BY <1>1, <1>2, <1>3, <2>1, <2>2, <2>3 DEF ListingSound, NoTwice, GameLobby!Elements
<1>6. CASE ~GameLobby!EndListing(l)
  <2> DEFINE h == Head(todo[l])
  <2>1. /\ todo[l] # <<>> /\ todo' = [todo EXCEPT ![l] = Tail(@)] /\ UNCHANGED listing
        /\ \/ /\ UNCHANGED missed
              /\ found' = IF status[h] = asked[l]
                            THEN [found EXCEPT ![l] = Append(@, h)] ELSE found
           \/ /\ UNCHANGED found
              /\ missed' = [missed EXCEPT ![l] = @ \cup {h}]
    BY <1>6 DEF GameLobby!LoadOne, GameLobby!LoadFails, GameLobby!Matches
  <2>2. /\ h \in Games /\ Tail(todo[l]) \in Seq(Games) /\ NoTwice(Tail(todo[l]))
        /\ GameLobby!Elements(todo[l]) = {h} \cup GameLobby!Elements(Tail(todo[l]))
        /\ h \notin GameLobby!Elements(Tail(todo[l]))
        /\ h \notin GameLobby!Elements(found[l])
    BY <1>1, <2>1, Taking DEF ListingSound
  <2> HIDE DEF h
  <2>3. /\ todo'[l] = Tail(todo[l])
        /\ \/ /\ missed'[l] = missed[l]
              /\ found'[l] = IF status[h] = asked[l] THEN Append(found[l], h) ELSE found[l]
           \/ /\ found'[l] = found[l]
              /\ missed'[l] = missed[l] \cup {h}
    BY <1>1, <2>1 DEF ListTypes
  <2>4. /\ Append(found[l], h) \in Seq(Games) /\ NoTwice(Append(found[l], h))
        /\ GameLobby!Elements(Append(found[l], h)) = GameLobby!Elements(found[l]) \cup {h}
    BY <1>1, <2>2, Appending DEF ListingSound
  <2>5. ListTypes'
    <3>1. todo' \in [Listers -> Seq(Games)]
      BY <1>1, <2>1, <2>2 DEF ListTypes
    <3>2. found' \in [Listers -> Seq(Games)]
      BY <1>1, <2>1, <2>4 DEF ListTypes
    <3>3. missed' \in [Listers -> SUBSET Games]
      <4>1. missed' = missed \/ missed' = [missed EXCEPT ![l] = @ \cup {h}]
        BY <2>1
      <4>2. missed \in [Listers -> SUBSET Games] /\ missed[l] \cup {h} \in SUBSET Games
        BY <1>1, <2>2 DEF ListTypes
      <4>3. CASE missed' = [missed EXCEPT ![l] = @ \cup {h}]
        <5> DEFINE more == missed[l] \cup {h}
        <5>1. more \in SUBSET Games /\ missed' = [missed EXCEPT ![l] = more]
          BY <4>2, <4>3
        <5> HIDE DEF more
        <5> QED  BY <4>2, <5>1
      <4> QED  BY <4>1, <4>2, <4>3
    <3> QED  BY <1>1, <1>2, <1>3, <2>1, <3>1, <3>2, <3>3 DEF ListTypes
  <2>6. /\ GameLobby!Elements(todo[l])' = GameLobby!Elements(Tail(todo[l]))
        /\ NoTwice(todo[l])'
    BY <2>2, <2>3 DEF GameLobby!Elements, NoTwice
  <2>7. /\ NoTwice(found[l])'
        /\ \/ GameLobby!Elements(found[l])' = GameLobby!Elements(found[l])
           \/ /\ h \in Matching(l)
              /\ GameLobby!Elements(found[l])' = GameLobby!Elements(found[l]) \cup {h}
    <3>1. CASE found'[l] = found[l]
      BY <1>1, <3>1 DEF ListingSound, NoTwice, GameLobby!Elements
    <3>2. CASE found'[l] = Append(found[l], h) /\ status[h] = asked[l]
      <4>1. h \in Matching(l)
        BY <2>2, <3>2 DEF Matching
      <4>2. NoTwice(found[l])'
        BY <2>4, <3>2 DEF NoTwice
      <4>3. GameLobby!Elements(found[l])' = GameLobby!Elements(found[l]) \cup {h}
        BY <2>4, <3>2 DEF GameLobby!Elements
      <4> QED  BY <4>1, <4>2, <4>3
    <3> QED  BY <2>3, <3>1, <3>2
  <2>8. NothingLost(l) => NothingLost(l)'
    <3> SUFFICES ASSUME NothingLost(l), NEW g \in steady[l]
                 PROVE  \/ g \in GameLobby!Elements(found[l])' \cup GameLobby!Elements(todo[l])'
                        \/ g \in missed'[l]
                        \/ Buried(g)
      BY <1>3, <1>4 DEF NothingLost
    <3>1. CASE g # h
      BY <2>2, <2>3, <2>6, <2>7, <3>1 DEF NothingLost
    <3>2. CASE g = h
      <4>1. status[h] = asked[l]
        BY <1>3, <3>2 DEF Matching
      <4>2. \/ h \in missed'[l]
            \/ found'[l] = Append(found[l], h)
        BY <2>3, <4>1
      <4>3. found'[l] = Append(found[l], h) => h \in GameLobby!Elements(found[l])'
        BY <2>4 DEF GameLobby!Elements
      <4> QED  BY <3>2, <4>2, <4>3
    <3> QED  BY <3>1, <3>2
  <2> QED
    <3>1. GameLobby!Elements(todo[l])' \cap GameLobby!Elements(found[l])' = {}
      BY <1>1, <2>2, <2>6, <2>7 DEF ListingSound
    <3>2. GameLobby!Elements(found[l])' \subseteq ever'[l]
      BY <1>1, <1>3, <2>7 DEF ListingSound
    <3>3. listing'[l] = "load" /\ asked'[l] = asked[l]
      BY <1>2, <2>1
    <3> QED
      BY <1>1, <1>2, <1>3, <2>5, <2>6, <2>7, <2>8, <3>1, <3>2, <3>3 DEF ListingSound
<1> QED  BY <1>5, <1>6

LEMMA InitLobbyInv == GameLobby!Init => LobbyInv
<1> SUFFICES ASSUME GameLobby!Init PROVE LobbyInv
  OBVIOUS
<1>1. /\ born = <<>> /\ row = [g \in Games |-> "none"] /\ status = [g \in Games |-> "none"]
      /\ seats = [g \in Games |-> <<>>] /\ making = [g \in Games |-> "idle"]
      /\ size = [g \in Games |-> 0]
      /\ reply = [g \in Games |-> "none"]
      /\ listing = [l \in Listers |-> "idle"] /\ asked = [l \in Listers |-> "waiting"]
      /\ todo = [l \in Listers |-> <<>>] /\ found = [l \in Listers |-> <<>>]
      /\ missed = [l \in Listers |-> {}] /\ steady = [l \in Listers |-> {}]
      /\ ever = [l \in Listers |-> {}]
  BY LobbyAssumption DEF GameLobby!Init, GameLobby!LobbyAssumption
<1>2. GameLobby!Elements(<<>>) = {} /\ NoTwice(<<>>) /\ Len(<<>>) = 0
      /\ \A A : <<>> \in Seq(A)
  BY DEF GameLobby!Elements, NoTwice
<1>3. LobbyTypes
  BY <1>1, <1>2 DEF LobbyTypes
<1>4. ListTypes
  BY <1>1, <1>2 DEF ListTypes, GameLobby!Phases
<1>5. \A g \in Games : MakingSound(g) /\ TableSound(g)
  <2> TAKE g \in Games
  <2>1. /\ row[g] = "none" /\ status[g] = "none" /\ seats[g] = <<>>
        /\ making[g] = "idle" /\ reply[g] = "none"
    BY <1>1
  <2>2. 0 \in SeatCounts \cup {0} /\ Len(seats[g]) <= 0
    BY <1>2, <2>1
  <2> QED  BY <1>1, <1>2, <2>1, <2>2 DEF MakingSound, TableSound
<1>6. \A l \in Listers : ListingSound(l)
  BY <1>1, <1>2 DEF ListingSound
<1> QED  BY <1>1, <1>2, <1>3, <1>4, <1>5, <1>6 DEF LobbyInv, GamesInv

LEMMA StepLobbyInv == LobbyInv /\ [GameLobby!Next]_GameLobby!vars => LobbyInv'
<1> SUFFICES ASSUME LobbyInv, [GameLobby!Next]_GameLobby!vars PROVE LobbyInv'
  OBVIOUS
<1>1. ListTypes /\ GamesInv /\ born \in Seq(Games)
  BY DEF LobbyInv, GamesInv, LobbyTypes
<1>2. ASSUME NEW g \in Games, GameLobby!Track, UNCHANGED GameLobby!listVars,
             born' = born \/ born' = Append(born, g)
      PROVE  ListTypes' /\ \A l \in Listers : ListingSound(l)'
  <2>1. UNCHANGED <<listing, asked, todo, found, missed>>
    BY <1>2 DEF GameLobby!listVars
  <2>2. \A l \in Listers : ListingSound(l)'
    BY <1>2, <2>1, QuietListing
  <2>3. ListTypes'
    <3>1. steady' \in [Listers -> SUBSET Games] /\ ever' \in [Listers -> SUBSET Games]
      BY <1>1, <1>2, Tracking DEF GameLobby!Track
    <3> QED  BY <1>1, <2>1, <3>1 DEF ListTypes
  <2> QED  BY <2>2, <2>3
<1>3. ASSUME NEW l \in Listers, GameLobby!Track,
             \/ \E s \in Asked : GameLobby!Query(l, s)
             \/ GameLobby!LoadOne(l) \/ GameLobby!LoadFails(l) \/ GameLobby!EndListing(l)
      PROVE  ListTypes' /\ \A k \in Listers : ListingSound(k)'
  <2>1. ListTypes' /\ ListingSound(l)'
    BY <1>3, QueryListing, LoadListing
  <2>2. ASSUME NEW k \in Listers \ {l} PROVE ListingSound(k)'
    <3>1. /\ listing'[k] = listing[k] /\ asked'[k] = asked[k] /\ todo'[k] = todo[k]
          /\ found'[k] = found[k] /\ missed'[k] = missed[k] /\ born' = born
      BY <1>1, <1>3
         DEF ListTypes, GameLobby!Query, GameLobby!LoadOne, GameLobby!LoadFails,
             GameLobby!EndListing, GameLobby!createVars
    <3> QED  BY <1>3, <3>1, QuietListing
  <2> QED  BY <2>1, <2>2
<1>4. CASE GameLobby!Next
  <2>1. GamesInv'
    BY <1>1, <1>4, GamesStep
  <2>2. ListTypes' /\ \A l \in Listers : ListingSound(l)'
    <3>1. ASSUME NEW g \in Games,
                 \/ \E count \in SeatCounts : GameLobby!BeginCreate(g, count) \/ GameLobby!ChangeConfig(g, count)
                 \/ GameLobby!InsertRow(g) \/ GameLobby!SaveState(g)
                 \/ GameLobby!JoinCreator(g) \/ GameLobby!CreateFails(g)
                 \/ GameLobby!CreateReplyLost(g) \/ GameLobby!EndRound(g)
                 \/ GameLobby!PlayAgain(g) \/ GameLobby!Expire(g)
                 \/ \E x \in Players : GameLobby!Join(x, g) \/ GameLobby!JoinInVain(x, g)
          PROVE  UNCHANGED GameLobby!listVars /\ (born' = born \/ born' = Append(born, g))
      BY <3>1
         DEF GameLobby!BeginCreate, GameLobby!InsertRow, GameLobby!SaveState,
             GameLobby!JoinCreator, GameLobby!CreateFails, GameLobby!CreateReplyLost,
             GameLobby!EndRound, GameLobby!ChangeConfig, GameLobby!PlayAgain, GameLobby!Expire, GameLobby!Join, GameLobby!JoinInVain,
             GameLobby!createVars
    <3> QED  BY <1>2, <1>3, <1>4, <3>1 DEF GameLobby!Next
  <2> QED  BY <2>1, <2>2 DEF LobbyInv
<1>5. CASE UNCHANGED GameLobby!vars
  <2>1. UNCHANGED <<born, row, making, reply, status, seats, size, listing, asked, todo,
                    found, missed, steady, ever>>
    BY <1>5 DEF GameLobby!vars, GameLobby!createVars, GameLobby!gameVars,
                GameLobby!listVars, GameLobby!historyVars
  <2>2. GamesInv'
    BY <1>1, <2>1
       DEF GamesInv, LobbyTypes, NoTwice, MakingSound, TableSound, GameLobby!Elements
  <2>3. ASSUME NEW l \in Listers PROVE ListingSound(l)'
    <3>1. NothingLost(l)' = NothingLost(l)
      BY <2>1 DEF NothingLost, Buried, GameLobby!Elements
    <3>2. Matching(l)' = Matching(l)
      BY <2>1 DEF Matching
    <3> QED  BY <2>1, <3>1, <3>2 DEF LobbyInv, ListingSound, NoTwice, GameLobby!Elements
  <2> QED  BY <1>1, <2>1, <2>2, <2>3 DEF LobbyInv, ListTypes
<1> QED  BY <1>4, <1>5

----------------------------------------------------------------------------
(* The lobby: what holds *)

\* The history, the rows and the requests are what the listings and the tables need.
LEMMA LobbyInvariance == GameLobby!Spec => []LobbyInv
BY InitLobbyInv, StepLobbyInv, PTL DEF GameLobby!Spec

\* Every game that is newer than a given one comes after it.
LEMMA NewerAreAfter ==
  ASSUME born \in Seq(Games), NoTwice(born), NEW i \in DOMAIN born
  PROVE  GameLobby!Cardinality(GameLobby!Newer(born[i])) = Len(born) - i
<1> DEFINE T == (i + 1) .. Len(born)
           N == GameLobby!Newer(born[i])
           f == [j \in T |-> born[j]]
<1>1. i \in Int /\ 1 <= i /\ i <= Len(born) /\ Len(born) \in Int /\ i + 1 \in Int
  OBVIOUS
<1>2. \A j : j \in T <=> j \in DOMAIN born /\ i < j
  BY <1>1
<1>3. \A j \in DOMAIN born : born[j] \in Games
  OBVIOUS
<1>4. N = {born[j] : j \in T}
  <2>1. ASSUME NEW h \in N PROVE \E j \in T : h = born[j]
    <3>1. PICK k \in DOMAIN born, j \in DOMAIN born : k < j /\ born[k] = born[i] /\ born[j] = h
      BY DEF GameLobby!Newer
    <3>2. k = i
      BY <3>1 DEF NoTwice
    <3> QED  BY <1>2, <3>1, <3>2
  <2>2. ASSUME NEW j \in T PROVE born[j] \in N
    BY <1>2, <1>3 DEF GameLobby!Newer
  <2> QED  BY <2>1, <2>2
<1>5. f \in Bijection(T, N)
  <2> HIDE DEF T, N
  <2>1. f \in [T -> N] /\ \A h \in N : \E j \in T : f[j] = h
    BY <1>4
  <2>2. \A j, k \in T : f[j] = f[k] => j = k
    BY <1>2 DEF NoTwice
  <2> QED  BY <2>1, <2>2 DEF Bijection, Injection, Surjection, IsInjective
<1>6. IsFiniteSet(T) /\ Cardinality(T) = Len(born) - i
  <2>1. /\ IsFiniteSet(T)
        /\ Cardinality(T) = IF i + 1 > Len(born) THEN 0 ELSE Len(born) - (i + 1) + 1
    BY <1>1, FS_Interval
  <2> QED  BY <1>1, <2>1
<1>7. Cardinality(N) = Len(born) - i
  <2> HIDE DEF T, N, f
  <2> QED  BY <1>5, <1>6, FS_Bijection DEF ExistsBijection
<1> QED  BY <1>7 DEF GameLobby!Cardinality, Cardinality

\* Creating, joining, expiring, playing and listing interleave as they like: the
\* state of every game and listing has its type (Lobby).
THEOREM LobbyTypesKept == GameLobby!Spec => []GameLobby!TypeOK
<1>1. LobbyInv => GameLobby!TypeOK
  <2> SUFFICES ASSUME LobbyInv PROVE GameLobby!TypeOK
    OBVIOUS
  <2>1. LobbyTypes /\ ListTypes
    BY DEF LobbyInv, GamesInv
  <2>2. \A A : \A q \in Seq(A) : GameLobby!Elements(q) \subseteq A
    BY DEF GameLobby!Elements
  <2>3. GameLobby!Elements(born) \subseteq Games
    BY <2>1, <2>2 DEF LobbyTypes
  <2>4. \A g \in Games : GameLobby!Elements(seats[g]) \subseteq Players
    BY <2>1, <2>2 DEF LobbyTypes
  <2>5. \A l \in Listers :
          GameLobby!Elements(todo[l]) \cup GameLobby!Elements(found[l]) \subseteq Games
    BY <2>1, <2>2 DEF ListTypes
  <2>6. \A g \in Games : \E count \in SeatCounts \cup {0} : Len(seats[g]) <= count
    BY DEF LobbyInv, GamesInv, TableSound
  <2>7. row \in [Games -> GameLobby!Phases \cup {"none"}]
    BY <2>1 DEF LobbyTypes, GameLobby!Phases
  <2> QED  BY <2>1, <2>3, <2>4, <2>5, <2>6, <2>7
           DEF GameLobby!TypeOK, LobbyTypes, ListTypes
<1> QED  BY LobbyInvariance, <1>1, PTL

\* However the joins of a player and the calls of a creator interleave and fail, and
\* however the number of seats changes between rounds: a game that can be joined has
\* its row, nobody sits twice, a game that waits has a free seat, a round is played
\* only when no seat is free, and a creator who is told "ok" has a seat (CreateGame,
\* JoinGame, ChangeConfig).
THEOREM GamesAreSound == GameLobby!Spec => []GamesSound
<1>1. LobbyInv => GamesSound
  BY DEF LobbyInv, GamesInv, MakingSound, TableSound, NoTwice, GamesSound,
         GameLobby!EveryGameHasRow, GameLobby!SeatsSound, GameLobby!CreatorSeated
<1> QED  BY LobbyInvariance, <1>1, PTL

\* A listing shows nothing twice, only what had the phase while it ran, and all that
\* was waiting all the time and is new enough (ListGamesByStatus).
THEOREM ListingsAreAccurate == GameLobby!Spec => []ListingAccurate
<1>1. LobbyInv => ListingAccurate
  <2> SUFFICES ASSUME LobbyInv, NEW l \in Listers
               PROVE  /\ NoTwice(found[l])
                      /\ GameLobby!Elements(found[l]) \subseteq ever[l]
                      /\ listing[l] = "done" /\ asked[l] = "waiting" =>
                           \A g \in steady[l] :
                             \/ g \in GameLobby!Elements(found[l]) \cup missed[l]
                             \/ GameLobby!Cardinality(GameLobby!Newer(g)) >= ListLimit
    BY DEF ListingAccurate, GameLobby!ListingAccurate, NoTwice
  <2>1. ListingSound(l) /\ born \in Seq(Games) /\ NoTwice(born)
    BY DEF LobbyInv, GamesInv, LobbyTypes
  <2>2. \A g : Buried(g) => GameLobby!Cardinality(GameLobby!Newer(g)) >= ListLimit
    BY <2>1, NewerAreAfter DEF Buried
  <2>3. GameLobby!Elements(<<>>) = {}
    BY DEF GameLobby!Elements
  <2> QED  BY <2>1, <2>2, <2>3 DEF ListingSound, NothingLost
<1> QED  BY LobbyInvariance, <1>1, PTL

----------------------------------------------------------------------------
(* The parts together *)

\* A step of the service is a step of one part, and the others do not move.
LEMMA EachPart ==
  PartsSpec => SocketsSpec /\ Spec /\ GameLobby!Spec /\ SweepSpec
<1>1. PartsInit => SocketsInit /\ Init /\ GameLobby!Init /\ SweepInit
  BY DEF PartsInit
<1>2. [PartsNext]_<<part, socketVars, vars, lobbyVars, sweepVars>> =>
        /\ [SocketsNext]_socketVars /\ [Next]_vars
        /\ [GameLobby!Next]_GameLobby!vars /\ [Capture]_<<contractVars, p>>
  BY DEF PartsNext, lobbyVars, sweepVars, GameLobby!vars, GameLobby!createVars,
         GameLobby!gameVars, GameLobby!listVars, GameLobby!historyVars,
         GameLobby!boundVars
<1> QED  BY <1>1, <1>2, PTL DEF PartsSpec, SocketsSpec, Spec, GameLobby!Spec, SweepSpec

\* The types of all parts are kept together.
THEOREM ServiceTypes == PartsSpec => []TypesKept
BY EachPart, SocketsTypes, TypeCorrect, LobbyTypesKept, PTL DEF TypesKept

\* Whatever the parts do at the same time, each keeps what it promises: a slot is held
\* exactly by the sockets that are served, a refusal tells when to come back, games and
\* listings are sound, and every round is scored as it should be.
THEOREM ServiceIsSound ==
  PartsSpec => /\ []SlotsMatchSockets /\ []RetryIsHonest
               /\ []GamesSound /\ []ListingAccurate
               /\ []ZeroSum /\ []OutcomeDecidesSign /\ []DeclarerAtStake
BY EachPart, SlotsAreSound, RefusalsAreHonest, GamesAreSound, ListingsAreAccurate,
   SweepIsZeroSum, OutcomeDecides, DeclarerRisksMost, PTL

\* Every step of the service is one that the abstract registry of connections and the
\* abstract bucket allow (connRegistry, RedisStore.Allow).
THEOREM ServiceImplements == PartsSpec => KeepsLimit /\ KeepsBucket
BY EachPart, SocketsKeepLimit, LimiterKeepsBucket, PTL

=============================================================================
