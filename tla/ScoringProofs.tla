--------------------------- MODULE ScoringProofs ---------------------------
(***************************************************************************)
(* CalculateFinalScore sums to zero at a full table: for every number of   *)
(* scoring cards and every bid scale, contract, friend and setting.  At any *)
(* table its results are whole numbers.                                    *)
(***************************************************************************)
EXTENDS Scoring, FiniteSetTheorems, TLAPS

Full(k) == 0..(k - 1)

\* The stake is a whole number.
LEMMA StakeType ==
  ASSUME NEW k \in {4, 5}, NEW b \in Int, NEW nt \in BOOLEAN, NEW al \in BOOLEAN,
         NEW q \in Int
  PROVE  Stake(k, b, nt, al, q) \in Int
<1>1. Target(b) \in Int /\ MinBid(k) \in Int
  BY PointsAssumption DEF Target, MinBid
<1> DEFINE base == IF q >= Target(b) THEN 2 * (b - MinBid(k)) + (q - Target(b))
                                     ELSE Target(b) - q
<1>3. base \in Int
  BY <1>1
<1>4. \A x, y \in Int : x * y \in Int
  OBVIOUS
<1> DEFINE d1 == Double(q = TotalPoints)
           d2 == Double(TotalPoints - q >= (TotalPoints \div 2) + 1)
           d3 == Double(nt)
           d4 == Double(al)
<1>5. d1 \in Int /\ d2 \in Int /\ d3 \in Int /\ d4 \in Int
  BY DEF Double
<1>6. Stake(k, b, nt, al, q) = base * d1 * d2 * d3 * d4
  BY DEF Stake
<1> HIDE DEF base, d1, d2, d3, d4
<1>7. base * d1 \in Int
  BY <1>3, <1>4, <1>5
<1>8. base * d1 * d2 \in Int
  BY <1>4, <1>5, <1>7
<1>9. base * d1 * d2 * d3 \in Int
  BY <1>4, <1>5, <1>8
<1> QED  BY <1>4, <1>5, <1>6, <1>9

\* A caller alone has a table of opponents but herself, a pair two fewer.
LEMMA Opponents ==
  ASSUME NEW k \in {4, 5}, NEW d \in Full(k), NEW f \in NoSeat..(k - 1)
  PROVE  Cardinality(Full(k) \ Team(d, f)) =
           IF f \in {NoSeat, d} THEN k - 1 ELSE k - 2
<1>1. IsFiniteSet(Full(k)) /\ Cardinality(Full(k)) = k
  BY FS_Interval DEF Full
<1>2. IsFiniteSet(Full(k) \ {d}) /\ Cardinality(Full(k) \ {d}) = k - 1
  BY <1>1, FS_RemoveElement
<1>3. CASE f \in {NoSeat, d}
  <2>1. Full(k) \ Team(d, f) = Full(k) \ {d}
    BY <1>3 DEF Team
  <2> QED  BY <1>2, <1>3, <2>1
<1>4. CASE f \notin {NoSeat, d}
  <2>1. f \in Full(k) \ {d}
    BY <1>4 DEF Full, NoSeat
  <2>2. Full(k) \ Team(d, f) = (Full(k) \ {d}) \ {f}
    BY <1>4 DEF Team
  <2>3. Cardinality((Full(k) \ {d}) \ {f}) = k - 1 - 1
    BY <1>2, <2>1, FS_RemoveElement
  <2> QED  BY <1>4, <2>2, <2>3
<1> QED  BY <1>3, <1>4

\* What the declarer receives is what the others pay.
LEMMA StandardSum ==
  ASSUME NEW k \in {4, 5}, NEW d \in Full(k), NEW f \in NoSeat..(k - 1), NEW s \in Int,
         NEW pay, pay = [seat \in Seats |->
                           IF seat \notin Full(k) THEN 0
                           ELSE StandardPay(seat, d, f, Cardinality(Full(k) \ Team(d, f)), s)]
  PROVE  ScoreSum(pay) = 0
<1> DEFINE o == Cardinality(Full(k) \ Team(d, f))
<1>1. o = IF f \in {NoSeat, d} THEN k - 1 ELSE k - 2
  BY Opponents
<1>2. \A seat \in Seats :
        pay[seat] = IF seat \notin Full(k) THEN 0
                    ELSE IF seat = d THEN o * s - (IF f \notin {NoSeat, d} THEN s ELSE 0)
                    ELSE IF seat = f THEN s ELSE -s
  BY DEF StandardPay
<1> HIDE DEF o
<1>3. CASE k = 4
  BY <1>1, <1>2, <1>3 DEF Full, Seats, NoSeat, ScoreSum
<1>4. CASE k = 5
  BY <1>1, <1>2, <1>4 DEF Full, Seats, NoSeat, ScoreSum
<1> QED  BY <1>3, <1>4

\* The two special splits hand out what declarer and partner pay.
LEMMA SpecialSum ==
  ASSUME NEW d \in Full(4), NEW f \in Full(4), f # d, NEW s \in Int,
         NEW dist \in FailDists,
         NEW pay, pay = [seat \in Seats |->
                           IF seat \notin Full(4) THEN 0 ELSE SpecialPay(seat, d, f, dist, s)]
  PROVE  ScoreSum(pay) = 0
<1> DEFINE gain == IF dist = "declarer_alone" THEN s ELSE (3 * s + 1) \div 2
           share == IF dist = "declarer_alone" THEN 0 ELSE s
<1>1. gain \in Int /\ share \in Int
  OBVIOUS
<1>2. \A seat \in Seats :
        pay[seat] = IF seat \notin Full(4) THEN 0
                    ELSE IF seat = d THEN -(2 * gain - share)
                    ELSE IF seat = f THEN -share ELSE gain
  BY DEF SpecialPay
<1> HIDE DEF gain, share
<1> QED  BY <1>1, <1>2 DEF Full, Seats, ScoreSum

\* CalculateFinalScore: at a full table no points are made or lost.
THEOREM RoundIsZeroSum ==
  ASSUME NEW k \in {4, 5}, NEW dist \in FailDists, NEW d \in Full(k),
         NEW f \in NoSeat..(k - 1), NEW b \in Int, NEW nt \in BOOLEAN, NEW al \in BOOLEAN,
         NEW captured \in [Seats -> Int]
  PROVE  ScoreSum(RoundScores(k, dist, Full(k), d, f, b, nt, al, captured)) = 0
<1> DEFINE won(seat) == IF seat \in Full(k) THEN captured[seat] ELSE 0
           q == IF f \in {NoSeat, d} THEN won(d) ELSE won(d) + won(f)
           s == Stake(k, b, nt, al, q)
           made == q >= Target(b)
           special == ~made /\ f \notin {NoSeat, d} /\ k = 4 /\ dist # "equal_split"
           opponents == Cardinality(Full(k) \ Team(d, f))
           result == RoundScores(k, dist, Full(k), d, f, b, nt, al, captured)
<1>1. q \in Int
  BY DEF Full, Seats, NoSeat
<1>2. s \in Int
  <2> HIDE DEF q
  <2> QED  BY <1>1, StakeType
<1>3. result = [seat \in Seats |->
                  IF seat \notin Full(k) THEN 0
                  ELSE IF special THEN SpecialPay(seat, d, f, dist, s)
                  ELSE StandardPay(seat, d, f, opponents, IF made THEN s ELSE -s)]
  BY DEF RoundScores
<1> HIDE DEF q, s, made, opponents, result
<1>4. CASE special
  <2>1. f \in Full(4) /\ f # d /\ k = 4
    BY <1>4 DEF Full, NoSeat
  <2>2. result = [seat \in Seats |->
                    IF seat \notin Full(4) THEN 0 ELSE SpecialPay(seat, d, f, dist, s)]
    BY <1>3, <1>4, <2>1
  <2> QED  BY <1>2, <2>1, <2>2, SpecialSum DEF result
<1>5. CASE ~special
  <2> DEFINE t == IF made THEN s ELSE -s
  <2>1. t \in Int
    BY <1>2 DEF made
  <2>2. result = [seat \in Seats |->
                    IF seat \notin Full(k) THEN 0
                    ELSE StandardPay(seat, d, f, opponents, t)]
    BY <1>3, <1>5
  <2> HIDE DEF t
  <2> QED  BY <2>1, <2>2, StandardSum DEF result, opponents
<1> QED  BY <1>4, <1>5

\* Whoever sits at the table, a score is a whole number.
LEMMA RoundScoresType ==
  ASSUME NEW k \in {4, 5}, NEW dist \in FailDists, NEW table \in SUBSET Seats,
         NEW d, NEW f, NEW b \in Int, NEW nt \in BOOLEAN, NEW al \in BOOLEAN,
         NEW captured \in [Seats -> Int]
  PROVE  RoundScores(k, dist, table, d, f, b, nt, al, captured) \in [Seats -> Int]
<1> DEFINE won(seat) == IF seat \in table THEN captured[seat] ELSE 0
           q == IF f \in {NoSeat, d} THEN won(d) ELSE won(d) + won(f)
           s == Stake(k, b, nt, al, q)
           made == q >= Target(b)
           special == ~made /\ f \notin {NoSeat, d} /\ k = 4 /\ dist # "equal_split"
           opponents == Cardinality(table \ Team(d, f))
           result == RoundScores(k, dist, table, d, f, b, nt, al, captured)
<1>1. q \in Int
  <2>1. won(d) \in Int /\ won(f) \in Int
    OBVIOUS
  <2> QED  BY <2>1
<1>2. s \in Int
  <2> HIDE DEF q
  <2> QED  BY <1>1, StakeType
<1>3. opponents \in Int
  <2>1. IsFiniteSet(Seats)
    <3>1. 0 \in Int /\ 4 \in Int
      OBVIOUS
    <3>2. IsFiniteSet(0..4)
      BY ONLY <3>1, FS_Interval
    <3> QED  BY <3>2 DEF Seats
  <2>2. IsFiniteSet(table)
    BY <2>1, FS_Subset
  <2>3. IsFiniteSet(table \ Team(d, f))
    BY <2>2, FS_Difference
  <2> QED  BY <2>3, FS_CardinalityType
<1>4. result = [seat \in Seats |->
                  IF seat \notin table THEN 0
                  ELSE IF special THEN SpecialPay(seat, d, f, dist, s)
                  ELSE StandardPay(seat, d, f, opponents, IF made THEN s ELSE -s)]
  BY DEF RoundScores
<1> HIDE DEF q, s, opponents, result, made
<1>5. \A x, y \in Int : x * y \in Int
  OBVIOUS
<1>6. \A seat : SpecialPay(seat, d, f, dist, s) \in Int
  BY <1>2 DEF SpecialPay
<1>7. \A seat : \A t \in Int : StandardPay(seat, d, f, opponents, t) \in Int
  <2> TAKE seat
  <2> TAKE t \in Int
  <2>1. opponents * t \in Int
    BY <1>3, <1>5
  <2> HIDE DEF opponents
  <2> QED  BY <2>1 DEF StandardPay
<1>8. (IF made THEN s ELSE -s) \in Int
  BY <1>2
<1> QED  BY <1>4, <1>6, <1>7, <1>8 DEF result

=============================================================================
