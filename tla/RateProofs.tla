----------------------------- MODULE RateProofs -----------------------------
(***************************************************************************)
(* Proofs about TokenBucket and RateLimiter, for every rule, margin, skew  *)
(* and number of requests: the bucket in memory keeps its rate, the one in *)
(* Redis implements it but for calls that come too late, and keeps the     *)
(* rate between them.                                                      *)
(***************************************************************************)
EXTENDS RateLimiter, TLAPS

\* A full bucket holds at least a token.
LEMMA FullCreditType ==
  /\ FullCredit \in Nat /\ Period \in Nat /\ Period > 0 /\ Period <= FullCredit
  /\ Bucket!FullCredit = FullCredit
<1>1. \A c \in Nat \ {0}, p \in Nat \ {0} : c * p \in Nat /\ p <= c * p
  <2> TAKE c \in Nat \ {0}, p \in Nat \ {0}
  <2>1. c = (c - 1) + 1 /\ c - 1 \in Nat OBVIOUS
  <2>2. ((c - 1) + 1) * p = (c - 1) * p + p BY <2>1
  <2>3. (c - 1) * p \in Nat BY <2>1
  <2> QED BY <2>1, <2>2, <2>3
<1> QED BY <1>1, RuleAssumption DEF FullCredit, Bucket!FullCredit

\* What is left of the budget since each token: the credit now, and the tokens
\* since then, are covered by a full bucket and the bucket's time since then.
Budget ==
  \A i \in 1 .. Len(grants) :
    (Len(grants) - i + 1) * Period + credit <= FullCredit + (ts - grants[i])

BucketInv == /\ credit \in 0 .. FullCredit /\ ts \in Nat /\ grants \in Seq(Nat)
             /\ Budget
             /\ RateHolds

\* The bucket's invariant holds of a bucket that was not used yet.
LEMMA InitBucketInv == Bucket!Init => BucketInv
<1> SUFFICES ASSUME Bucket!Init PROVE BucketInv
  OBVIOUS
<1>1. credit = FullCredit /\ ts = 0 /\ grants = <<>>
  BY FullCreditType DEF Bucket!Init
<1>2. credit \in 0 .. FullCredit /\ ts \in Nat /\ grants \in Seq(Nat)
  BY <1>1, FullCreditType
<1>3. Budget /\ RateHolds
  BY <1>1 DEF Budget, RateHolds, Bucket!RateHolds
<1> QED BY <1>2, <1>3 DEF BucketInv

\* A call refills at most the time that the bucket's own time moves on.
LEMMA RefillIsTime ==
  ASSUME BucketInv, NEW now \in Nat
  PROVE  /\ Bucket!Refilled(now) \in 0 .. FullCredit
         /\ Bucket!Later(now) \in Nat /\ ts <= Bucket!Later(now)
         /\ Bucket!Refilled(now) <= credit + (Bucket!Later(now) - ts)
BY FullCreditType
   DEF BucketInv, Bucket!Refilled, Bucket!AtMostFull, Bucket!Later

\* The arithmetic of one call: R is the refilled credit, K what was spent since
\* the bucket's time was g, and k a token.
LEMMA Spend ==
  ASSUME NEW F \in Nat, NEW t \in Nat, NEW t2 \in Nat, NEW c \in Nat, NEW R \in 0 .. F,
         NEW K \in Int, NEW g \in Nat, NEW k \in Nat,
         K + c <= F + (t - g), R <= c + (t2 - t)
  PROVE  K + R <= F + (t2 - g) /\ (K + k) + (R - k) <= F + (t2 - g)
OBVIOUS

\* Every call keeps the bucket's invariant.
LEMMA AllowBucketInv ==
  ASSUME BucketInv, NEW now \in Nat, Bucket!Allow(now)
  PROVE  BucketInv'
<1> DEFINE n == Len(grants)
           R == Bucket!Refilled(now)
<1>0. /\ credit \in Nat /\ ts \in Nat /\ grants \in Seq(Nat) /\ n \in Nat
      /\ FullCredit \in Nat /\ Period \in Nat
      /\ \A i \in 1 .. n : grants[i] \in Nat
  BY FullCreditType DEF BucketInv
<1>1. /\ R \in 0 .. FullCredit /\ ts' \in Nat /\ ts <= ts' /\ R <= credit + (ts' - ts)
  BY RefillIsTime DEF Bucket!Allow
<1>2. CASE R < Period
  <2>1. credit' = R /\ grants' = grants BY <1>2 DEF Bucket!Allow
  <2>2. Budget'
    <3> SUFFICES ASSUME NEW i \in 1 .. n
                 PROVE  (n - i + 1) * Period + R <= FullCredit + (ts' - grants[i])
      BY <2>1, FullCreditType DEF Budget, FullCredit
    <3> DEFINE K == (n - i + 1) * Period
               g == grants[i]
    <3>1. K + credit <= FullCredit + (ts - g)
      BY DEF BucketInv, Budget
    <3>2. K \in Int /\ g \in Nat BY <1>0
    <3> HIDE DEF R, n, K, g
    <3>3. K + R <= FullCredit + (ts' - g) BY <1>0, <1>1, <3>1, <3>2, Spend
    <3> QED BY <3>3 DEF K, g
  <2>3. RateHolds'
    BY <2>1 DEF BucketInv, RateHolds, Bucket!RateHolds, Bucket!FullCredit
  <2> QED BY <1>0, <1>1, <2>1, <2>2, <2>3 DEF BucketInv, FullCredit
<1>3. CASE ~(R < Period)
  <2>1. credit' = R - Period /\ grants' = Append(grants, ts')
    BY <1>3 DEF Bucket!Allow
  <2>2. /\ grants' \in Seq(Nat) /\ Len(grants') = n + 1
        /\ \A i \in 1 .. n : grants'[i] = grants[i]
        /\ grants'[n + 1] = ts'
    BY <1>0, <1>1, <2>1
  <2>3. credit' \in 0 .. FullCredit
    <3> HIDE DEF R
    <3> QED BY <1>0, <1>1, <1>3, <2>1
  <2>4. ASSUME NEW i \in 1 .. n + 1
        PROVE  (n + 1 - i + 1) * Period + credit' <= FullCredit + (ts' - grants'[i])
    <3>1. CASE i \in 1 .. n
      <4> DEFINE K == (n - i + 1) * Period
                 L == (n + 1 - i + 1) * Period
                 g == grants[i]
      <4>1. K + credit <= FullCredit + (ts - g)
        BY <3>1 DEF BucketInv, Budget
      <4>2. K \in Int /\ L = K + Period
        <5> HIDE DEF n
        <5> QED BY <1>0, <3>1
      <4>3. grants'[i] = g /\ g \in Nat BY <1>0, <2>2, <3>1
      <4> HIDE DEF R, n, K, L, g
      <4>4. L + credit' <= FullCredit + (ts' - g)
        <5>1. (K + Period) + (R - Period) <= FullCredit + (ts' - g)
          BY <1>0, <1>1, <4>1, <4>2, <4>3, Spend
        <5> QED BY <5>1, <2>1, <4>2
      <4> QED BY <4>3, <4>4 DEF L
    <3>2. CASE i = n + 1
      <4> DEFINE L == (n + 1 - i + 1) * Period
      <4>1. L = Period /\ grants'[i] = ts'
        BY <1>0, <2>2, <3>2
      <4> HIDE DEF R, n, L
      <4>2. L + credit' <= FullCredit + (ts' - ts')
        <5>1. Period + (R - Period) <= FullCredit + (ts' - ts')
          <6> SUFFICES ASSUME NEW a \in Nat, NEW b \in 0 .. FullCredit, NEW t \in Nat
                       PROVE  a + (b - a) <= FullCredit + (t - t)
            BY <1>0, <1>1
          <6> QED BY <1>0
        <5> QED BY <5>1, <2>1, <4>1
      <4> QED BY <4>1, <4>2 DEF L
    <3> QED BY <1>0, <3>1, <3>2
  <2>5. Budget'
    BY <2>2, <2>4 DEF Budget, FullCredit
  <2>6. RateHolds'
    <3> SUFFICES ASSUME NEW i \in 1 .. n + 1, NEW j \in i .. n + 1
                 PROVE  (j - i + 1) * Period <= FullCredit + (grants'[j] - grants'[i])
      BY <2>2, FullCreditType DEF RateHolds, Bucket!RateHolds, Bucket!FullCredit, FullCredit
    <3>1. CASE j = n + 1
      <4> DEFINE L == (n + 1 - i + 1) * Period
                 g == grants'[i]
      <4>1. L + credit' <= FullCredit + (ts' - g) BY <2>4
      <4>2. L \in Int /\ g \in Nat
        <5>1. g \in Nat BY <2>2
        <5>2. L \in Int
          <6> HIDE DEF n
          <6> QED BY <1>0
        <5> QED BY <5>1, <5>2
      <4>3. grants'[j] = ts' /\ (j - i + 1) * Period = L BY <2>2, <3>1
      <4> HIDE DEF n, L, g
      <4>4. L <= FullCredit + (ts' - g)
        <5>1. credit' \in Nat BY <1>0, <2>3
        <5>2. \A a \in Int, b \in Nat, t \in Nat, d \in Nat :
                a + b <= FullCredit + (t - d) => a <= FullCredit + (t - d)
          BY <1>0
        <5> QED BY <1>0, <1>1, <4>1, <4>2, <5>1, <5>2
      <4> QED BY <4>3, <4>4 DEF g
    <3>2. CASE j \in i .. n
      <4>1. i \in 1 .. n /\ j \in 1 .. n BY <1>0, <3>2
      <4>2. (j - i + 1) * Period <= FullCredit + (grants[j] - grants[i])
        <5>1. i \in DOMAIN grants /\ j \in i .. Len(grants)
          BY <1>0, <4>1, <3>2
        <5>2. \A k \in DOMAIN grants : \A l \in k .. Len(grants) :
                (l - k + 1) * Period <= FullCredit + (grants[l] - grants[k])
          BY FullCreditType DEF BucketInv, RateHolds, Bucket!RateHolds
        <5> QED BY <5>1, <5>2
      <4>3. grants'[i] = grants[i] /\ grants'[j] = grants[j] BY <2>2, <4>1
      <4> QED BY <4>2, <4>3
    <3> QED BY <1>0, <3>1, <3>2
  <2> QED BY <1>1, <2>2, <2>3, <2>5, <2>6 DEF BucketInv, FullCredit
<1> QED BY <1>2, <1>3

\* Theorem: the bucket in memory keeps its rate, whatever the order in which
\* readings of the clock arrive.
THEOREM BucketKeepsRate == Bucket!Spec => []RateHolds
<1>1. BucketInv /\ [Bucket!Next]_(Bucket!bucketVars) => BucketInv'
  <2> SUFFICES ASSUME BucketInv, [Bucket!Next]_(Bucket!bucketVars) PROVE BucketInv'
    OBVIOUS
  <2>1. ASSUME NEW now \in 0 .. (MaxTime + MaxSkew), Bucket!Allow(now) PROVE BucketInv'
    BY <2>1, ClocksAssumption, AllowBucketInv
  <2>2. ASSUME UNCHANGED Bucket!bucketVars PROVE BucketInv'
    BY <2>2 DEF Bucket!bucketVars, BucketInv, Budget, FullCredit, RateHolds,
                Bucket!RateHolds, Bucket!FullCredit
  <2> QED BY <2>1, <2>2 DEF Bucket!Next
<1>2. BucketInv => RateHolds BY DEF BucketInv
<1> QED BY <1>1, <1>2, InitBucketInv, PTL DEF Bucket!Spec

----------------------------------------------------------------------------
(* The limiter *)

\* Which stamps there are, and how old the bucket can be: its time is not further
\* ahead than a clock can be of the last call, which is a time to live before the
\* expiry.
ClockInv ==
  /\ \A r \in Reqs : /\ sentAt[r] <= time
                     /\ sentAt[r] <= stamp[r] /\ stamp[r] <= sentAt[r] + MaxSkew
  /\ \/ expires = 0 /\ credit = FullCredit /\ ts = 0 /\ grants = <<>>
     \/ /\ 0 < expires /\ expires <= time + TimeToLive
        /\ ts + TimeToLive <= expires + MaxSkew

IInv == TypeOK /\ ClockInv

\* The parameters are natural numbers.
LEMMA ParametersType ==
  /\ FullCredit \in Nat /\ Period \in Nat /\ Period > 0 /\ Period <= FullCredit
  /\ MaxSkew \in Nat /\ MaxTime \in Nat /\ MaxFaults \in Nat /\ Margin \in Nat
  /\ Second \in Nat \ {0}
  /\ TimeToLive = FullCredit + Margin /\ TimeToLive \in Nat
BY FullCreditType, ClocksAssumption DEF TimeToLive

\* Whole seconds, rounded up, are not less than what they round.
LEMMA RetryAfterCovers ==
  ASSUME NEW ms \in Nat
  PROVE  RetryAfter(ms) \in Nat /\ RetryAfter(ms) >= ms /\ RetryAfter(ms) >= 1
<1> DEFINE a == ms + Second - 1
           q == a \div Second
<1>1. Second \in Nat \ {0} BY ParametersType
<1>2. CASE ms < 1 BY <1>1, <1>2 DEF RetryAfter
<1>3. CASE ~(ms < 1)
  <2>1. a \in Nat /\ a >= Second BY <1>1, <1>3
  <2>2. q \in Nat /\ Second * q <= a /\ a < Second * q + Second
    <3> SUFFICES ASSUME NEW x \in Nat, NEW s \in Nat \ {0}
                 PROVE  /\ x \div s \in Nat
                        /\ s * (x \div s) <= x /\ x < s * (x \div s) + s
      BY <1>1, <2>1
    <3>1. x % s \in 0 .. s - 1 /\ x = s * (x \div s) + (x % s)
      OBVIOUS
    <3>2. x \div s \in Nat OBVIOUS
    <3> QED BY <3>1, <3>2
  <2>3. RetryAfter(ms) = Second * q BY <1>3 DEF RetryAfter
  <2>4. Second * q \in Nat BY <1>1, <2>2
  <2> DEFINE p == Second * q
  <2>5. p \in Nat /\ p <= a /\ a < p + Second BY <2>2, <2>4
  <2>6. p > ms - 1
    <3> HIDE DEF p, q
    <3> QED BY <1>1, <2>5
  <2> HIDE DEF p
  <2>7. p >= ms /\ p >= 1 BY <1>3, <2>5, <2>6
  <2> QED BY <2>3, <2>4, <2>7 DEF p
<1> QED BY <1>2, <1>3

\* A call does to the bucket in Redis what it does to the bucket in memory, whether
\* or not the key has expired, unless it comes too late; and in any case it leaves
\* a bucket of the same kind.
LEMMA ScriptIsAllow ==
  ASSUME IInv, NEW r \in Reqs
  PROVE  /\ stamp[r] \in 0 .. (MaxTime + MaxSkew)
         /\ ~Late(r) => /\ Refilled(stamp[r]) = Bucket!Refilled(stamp[r])
                        /\ NewTs(stamp[r]) = Bucket!Later(stamp[r])
         /\ Refilled(stamp[r]) \in 0 .. FullCredit
         /\ NewTs(stamp[r]) \in Nat /\ stamp[r] <= NewTs(stamp[r])
         /\ NewTs(stamp[r]) <= time + MaxSkew
         /\ Missing => /\ Enough(stamp[r]) /\ Refilled(stamp[r]) = FullCredit
                       /\ NewTs(stamp[r]) = stamp[r]
<1> DEFINE now == stamp[r]
<1>1. /\ time \in Nat /\ time <= MaxTime /\ credit \in 0 .. FullCredit /\ ts \in Nat
      /\ expires \in Nat /\ now \in Nat /\ sentAt[r] \in Nat
      /\ sentAt[r] <= now /\ now <= sentAt[r] + MaxSkew /\ sentAt[r] <= time
  BY ParametersType DEF IInv, TypeOK, ClockInv
<1>2. now \in 0 .. (MaxTime + MaxSkew) /\ now <= time + MaxSkew
  <2> HIDE DEF now
  <2> QED BY <1>1, ParametersType
<1>3. CASE ~Missing
  <2>1. /\ Refilled(now) = Bucket!Refilled(now) /\ NewTs(now) = Bucket!Later(now)
    BY <1>3, FullCreditType
       DEF Refilled, Bucket!Refilled, AtMostFull, Bucket!AtMostFull, NewTs, Bucket!Later
  <2>2. Refilled(now) \in 0 .. FullCredit
    <3> HIDE DEF now
    <3> QED BY <1>1, <1>3, ParametersType DEF Refilled, AtMostFull
  <2>3. ts <= time + MaxSkew
    <3>1. expires # 0 /\ expires > time BY <1>1, <1>3 DEF Missing
    <3>2. ts + TimeToLive <= expires + MaxSkew /\ expires <= time + TimeToLive
      BY <3>1 DEF IInv, ClockInv
    <3> HIDE DEF now
    <3> QED BY <1>1, <3>2, ParametersType
  <2>4. NewTs(now) \in Nat /\ now <= NewTs(now) /\ NewTs(now) <= time + MaxSkew
    <3> HIDE DEF now
    <3> QED BY <1>1, <1>2, <1>3, <2>3, ParametersType DEF NewTs
  <2> QED BY <1>2, <1>3, <2>1, <2>2, <2>4
<1>4. CASE Missing
  <2>1. Refilled(now) = FullCredit /\ NewTs(now) = now BY <1>4 DEF Refilled, NewTs
  <2>2. /\ Enough(now) /\ FullCredit \in 0 .. FullCredit
        /\ now \in Nat /\ now <= now
    <3> HIDE DEF now
    <3> QED BY <1>1, <2>1, ParametersType DEF Enough
  <2>3. ASSUME ~Late(r)
        PROVE  Bucket!Refilled(now) = FullCredit /\ Bucket!Later(now) = now
    <3>1. CASE expires = 0 /\ credit = FullCredit /\ ts = 0
      <4> HIDE DEF now
      <4> QED BY <1>1, <3>1, FullCreditType
              DEF Bucket!Refilled, Bucket!AtMostFull, Bucket!Later
    <3>2. CASE 0 < expires /\ ts + TimeToLive <= expires + MaxSkew
      <4>1. time >= expires /\ time + MaxSkew <= sentAt[r] + Margin
        BY <1>1, <1>4, <2>3, <3>2, ParametersType DEF Missing, Late
      <4>2. now >= ts + FullCredit /\ now > ts
        <5> HIDE DEF now
        <5> QED BY <1>1, <3>2, <4>1, ParametersType
      <4>3. credit + (now - ts) >= FullCredit
        <5> HIDE DEF now
        <5> QED BY <1>1, <4>2, ParametersType
      <4> HIDE DEF now
      <4> QED BY <1>1, <4>2, <4>3, FullCreditType
              DEF Bucket!Refilled, Bucket!AtMostFull, Bucket!Later
    <3> QED BY <3>1, <3>2 DEF IInv, ClockInv
  <2> QED BY <1>2, <2>1, <2>2, <2>3
<1> QED BY <1>3, <1>4

\* The script is a call of the bucket in memory, or one that comes too late and
\* starts a new bucket.
LEMMA ScriptRefines ==
  ASSUME IInv, NEW r \in Reqs, pc[r] # "idle", Script(r)
  PROVE  Bucket!Next \/ RunsLate(r)
<1>1. CASE ~Late(r)
  <2>1. Bucket!Allow(stamp[r])
    BY <1>1, ScriptIsAllow, ParametersType DEF Script, Enough, Bucket!Allow
  <2> QED BY <2>1, ScriptIsAllow DEF Bucket!Next
<1>2. CASE Late(r)
  <2>1. Enough(stamp[r]) /\ Refilled(stamp[r]) = FullCredit /\ NewTs(stamp[r]) = stamp[r]
    BY <1>2, ScriptIsAllow DEF Late
  <2>2. /\ credit' = FullCredit - Period /\ ts' = stamp[r]
        /\ grants' = Append(<<>>, stamp[r])
    BY <1>2, <2>1 DEF Script
  <2> QED BY <1>2, <2>2 DEF RunsLate
<1> QED BY <1>1, <1>2

\* A new bucket that has given one token keeps the bucket's invariant.
LEMMA LateBucketInv ==
  ASSUME IInv, NEW r \in Reqs, RunsLate(r)
  PROVE  BucketInv'
<1>1. /\ credit' = FullCredit - Period /\ ts' \in Nat /\ grants' = <<ts'>>
  BY ScriptIsAllow, ParametersType DEF RunsLate, IInv, TypeOK
<1>2. /\ credit' \in 0 .. FullCredit /\ grants' \in Seq(Nat) /\ Len(grants') = 1
      /\ DOMAIN grants' = 1 .. 1 /\ grants'[1] = ts'
      /\ Period \in Nat /\ FullCredit \in Nat /\ Period <= FullCredit
  BY <1>1, ParametersType
<1>3. (1 - 1 + 1) * Period = Period
  BY <1>2
<1>4. /\ Period + credit' <= FullCredit + (ts' - ts')
      /\ Period <= FullCredit + (ts' - ts')
  <2>1. \A F \in Nat, k \in Nat, t \in Nat :
          k <= F => k + (F - k) <= F + (t - t) /\ k <= F + (t - t)
    OBVIOUS
  <2> QED BY <1>1, <1>2, <2>1
<1>5. Budget'
  <2> SUFFICES ASSUME NEW i \in 1 .. 1
               PROVE  (1 - i + 1) * Period + credit' <= FullCredit + (ts' - grants'[i])
    BY <1>2 DEF Budget, FullCredit
  <2>1. (1 - i + 1) * Period = Period /\ grants'[i] = ts'
    <3>1. i = 1 OBVIOUS
    <3> QED BY <1>2, <1>3, <3>1
  <2>2. Period + credit' <= FullCredit + (ts' - ts')
    BY <1>4
  <2> QED BY <2>1, <2>2
<1>6. RateHolds'
  <2> SUFFICES ASSUME NEW i \in 1 .. 1, NEW j \in i .. 1
               PROVE  (j - i + 1) * Period <= FullCredit + (grants'[j] - grants'[i])
    BY <1>2, FullCreditType DEF RateHolds, Bucket!RateHolds, Bucket!FullCredit, FullCredit
  <2>1. (j - i + 1) * Period = Period /\ grants'[i] = ts' /\ grants'[j] = ts'
    <3>1. i = 1 /\ j = 1 OBVIOUS
    <3> QED BY <1>2, <1>3, <3>1
  <2>2. Period <= FullCredit + (ts' - ts')
    BY <1>4
  <2> QED BY <2>1, <2>2
<1> QED BY <1>1, <1>2, <1>5, <1>6 DEF BucketInv, FullCredit

\* Nothing was sent and nothing is stored at first.
LEMMA InitIInv == Init => IInv
BY ParametersType DEF Init, IInv, TypeOK, ClockInv

\* What a call leaves of the invariant's part about the bucket.
LEMMA ScriptIInv ==
  ASSUME IInv, NEW r \in Reqs, Script(r)
  PROVE  /\ credit' \in 0 .. FullCredit /\ ts' \in Nat /\ expires' \in Nat
         /\ grants' \in Seq(Nat) /\ given' \in Nat
         /\ 0 < expires' /\ expires' <= time + TimeToLive
         /\ ts' + TimeToLive <= expires' + MaxSkew
<1>1. /\ Refilled(stamp[r]) \in 0 .. FullCredit
      /\ ts' \in Nat /\ ts' <= time + MaxSkew
  BY ScriptIsAllow DEF Script
<1>2. /\ time \in Nat /\ expires' = time + TimeToLive /\ grants \in Seq(Nat)
      /\ given' \in Nat
  BY DEF Script, IInv, TypeOK
<1>3. credit' \in 0 .. FullCredit BY <1>1, ParametersType DEF Script, Enough
<1>4. grants' \in Seq(Nat)
  <2>1. <<>> \in Seq(Nat) OBVIOUS
  <2>2. (IF Late(r) THEN <<>> ELSE grants) \in Seq(Nat) BY <1>2, <2>1
  <2> QED BY <1>1, <1>2, <2>2 DEF Script
<1>5. /\ ts' + TimeToLive <= expires' + MaxSkew /\ expires' <= time + TimeToLive
      /\ expires' \in Nat /\ 0 < expires'
  <2>1. \A a, b, c, d \in Nat : a <= b + c => a + d <= (b + d) + c
    OBVIOUS
  <2>2. /\ MaxSkew \in Nat /\ TimeToLive \in Nat /\ ts' \in Nat /\ time \in Nat
        /\ ts' <= time + MaxSkew /\ expires' = time + TimeToLive
    BY <1>1, <1>2, ParametersType
  <2>3. ts' + TimeToLive <= (time + TimeToLive) + MaxSkew BY <2>1, <2>2
  <2>4. expires' \in Nat /\ expires' <= time + TimeToLive /\ 0 < expires'
    BY <2>2, ParametersType
  <2> QED BY <2>2, <2>3, <2>4
<1> QED BY <1>1, <1>2, <1>3, <1>4, <1>5

\* Every step keeps the types, the stamps and the bucket's age.
LEMMA StepIInv == IInv /\ [Next]_vars => IInv'
<1> SUFFICES ASSUME IInv, [Next]_vars PROVE IInv'
  OBVIOUS
<1>0. FullCredit' = FullCredit /\ TimeToLive' = TimeToLive
  BY DEF FullCredit, TimeToLive
<1> USE ParametersType, <1>0
<1>1. CASE Tick
  BY <1>1 DEF Tick, IInv, TypeOK, ClockInv
<1>2. ASSUME NEW r \in Reqs, NEW s \in Servers, Send(r, s) PROVE IInv'
  <2>1. Skew[s] \in 0 .. MaxSkew BY ClocksAssumption
  <2>2. time \in Nat /\ time + Skew[s] \in Nat
        /\ time <= time + Skew[s] /\ time + Skew[s] <= time + MaxSkew
    BY <2>1 DEF IInv, TypeOK
  <2>3. TypeOK' BY <1>2, <2>2 DEF Send, IInv, TypeOK
  <2>4. ClockInv'
    BY <1>2, <2>2 DEF Send, IInv, TypeOK, ClockInv
  <2> QED BY <2>3, <2>4 DEF IInv
<1>3. ASSUME NEW r \in Reqs, Granted(r) PROVE IInv'
  <2>1. Script(r) BY <1>3 DEF Granted
  <2>2. TypeOK'
    BY <1>3, <2>1, ScriptIInv DEF Granted, IInv, TypeOK
  <2>3. ClockInv'
    BY <1>3, <2>1, ScriptIInv DEF Granted, IInv, ClockInv
  <2> QED BY <2>2, <2>3 DEF IInv
<1>4. ASSUME NEW r \in Reqs, Denied(r) PROVE IInv'
  <2>1. Script(r) BY <1>4 DEF Denied
  <2>2. time + RetryAfter(Period - Refilled(stamp[r])) \in Nat
    <3>1. Refilled(stamp[r]) \in 0 .. FullCredit BY <2>1, ScriptIsAllow
    <3>2. Period - Refilled(stamp[r]) \in Nat BY <1>4, <3>1 DEF Denied, Enough
    <3>3. RetryAfter(Period - Refilled(stamp[r])) \in Nat BY <3>2, RetryAfterCovers
    <3> QED BY <3>3 DEF IInv, TypeOK
  <2>3. given \in Nat BY DEF IInv, TypeOK
  <2>4. TypeOK'
    BY <1>4, <2>1, <2>2, <2>3, ScriptIInv DEF Denied, IInv, TypeOK
  <2>5. ClockInv'
    BY <1>4, <2>1, ScriptIInv DEF Denied, IInv, ClockInv
  <2> QED BY <2>4, <2>5 DEF IInv
<1>5. ASSUME NEW r \in Reqs, RunsUnseen(r) PROVE IInv'
  <2>1. Script(r) BY <1>5 DEF RunsUnseen
  <2>2. TypeOK'
    <3>1. faults' \in 0 .. MaxFaults BY <1>5 DEF RunsUnseen, IInv, TypeOK
    <3> QED BY <1>5, <2>1, <3>1, ScriptIInv DEF RunsUnseen, IInv, TypeOK
  <2>3. ClockInv'
    BY <1>5, <2>1, ScriptIInv DEF RunsUnseen, IInv, ClockInv
  <2> QED BY <2>2, <2>3 DEF IInv
<1>6. ASSUME NEW r \in Reqs, FailOpen(r) PROVE IInv'
  BY <1>6 DEF FailOpen, IInv, TypeOK, ClockInv
<1>7. CASE UNCHANGED vars
  BY <1>7 DEF vars, IInv, TypeOK, ClockInv
<1> QED BY <1>1, <1>2, <1>3, <1>4, <1>5, <1>6, <1>7 DEF Next, Handle, Finished

\* Theorem: the types of the limiter; the bucket never holds more than it can.
THEOREM TypeCorrect == Spec => []TypeOK
<1>1. IInv => TypeOK BY DEF IInv
<1> QED BY <1>1, InitIInv, StepIInv, PTL DEF Spec

\* Theorem: the bucket that Redis may forget implements the one in memory, whatever
\* the margin, the skew and the time that calls take; the only other steps are those
\* of calls that find the key gone after more than the margin.
THEOREM LimiterKeepsBucket == Spec => KeepsBucket
<1>1. Init => Bucket!Init BY FullCreditType DEF Init, Bucket!Init
<1>2. IInv /\ [Next]_vars =>
        [Bucket!Next \/ \E r \in Reqs : RunsLate(r)]_<<credit, ts, grants>>
  <2> SUFFICES ASSUME IInv, [Next]_vars
               PROVE  \/ Bucket!Next \/ \E r \in Reqs : RunsLate(r)
                      \/ UNCHANGED <<credit, ts, grants>>
    OBVIOUS
  <2>1. ASSUME NEW r \in Reqs, Granted(r) \/ Denied(r) \/ RunsUnseen(r)
        PROVE  Bucket!Next \/ RunsLate(r)
    BY <2>1, ScriptRefines DEF Granted, Denied, RunsUnseen
  <2>2. ASSUME NEW r \in Reqs, FailOpen(r) PROVE UNCHANGED <<credit, ts, grants>>
    BY <2>2 DEF FailOpen
  <2>3. ASSUME NEW r \in Reqs, NEW s \in Servers, Send(r, s)
        PROVE  UNCHANGED <<credit, ts, grants>>
    BY <2>3 DEF Send
  <2>4. CASE Tick \/ UNCHANGED vars
    BY <2>4 DEF Tick, vars
  <2> QED BY <2>1, <2>2, <2>3, <2>4 DEF Next, Handle, Finished
<1> QED BY <1>1, <1>2, InitIInv, StepIInv, PTL DEF Spec, KeepsBucket

\* Theorem: hence the limiter keeps its rate across expiries, overtaking calls and
\* calls that run twice or unseen, over any stretch without a late call.
THEOREM LimiterKeepsRate == Spec => []RateHolds
<1>1. Bucket!Init => BucketInv BY InitBucketInv
<1>2. IInv /\ BucketInv
        /\ [Bucket!Next \/ \E r \in Reqs : RunsLate(r)]_<<credit, ts, grants>>
      => BucketInv'
  <2> SUFFICES ASSUME IInv, BucketInv,
                      [Bucket!Next \/ \E r \in Reqs : RunsLate(r)]_<<credit, ts, grants>>
               PROVE  BucketInv'
    OBVIOUS
  <2>1. ASSUME NEW now \in 0 .. (MaxTime + MaxSkew), Bucket!Allow(now) PROVE BucketInv'
    BY <2>1, ClocksAssumption, AllowBucketInv
  <2>2. ASSUME NEW r \in Reqs, RunsLate(r) PROVE BucketInv'
    BY <2>2, LateBucketInv
  <2>3. ASSUME UNCHANGED <<credit, ts, grants>> PROVE BucketInv'
    BY <2>3 DEF BucketInv, Budget, FullCredit, RateHolds,
                Bucket!RateHolds, Bucket!FullCredit
  <2> QED BY <2>1, <2>2, <2>3 DEF Bucket!Next
<1>3. BucketInv => RateHolds BY DEF BucketInv
<1> QED BY <1>1, <1>2, <1>3, InitIInv, StepIInv, LimiterKeepsBucket, PTL
       DEF Spec, KeepsBucket

----------------------------------------------------------------------------
(* The promise of a refusal *)

\* A client that was refused will find a token at the time it was told and by any
\* server's clock, as long as nobody takes one: the key is still there, and what
\* is missing is refilled by then.
PromiseInv ==
  \A q \in Reqs : pc[q] = "denied" =>
    /\ seen[q] <= given
    /\ seen[q] = given =>
         /\ expires # 0 /\ ts <= time + MaxSkew
         /\ credit + (retryAt[q] + MaxSkew - ts) >= Period

\* The inductive invariant: besides, no refusal has broken the promise so far.
RetryInv == IInv /\ PromiseInv /\ RetryIsHonest

\* A call that finds too little leaves every promise standing, and arrives
\* before any of them is due.
LEMMA RefusalKeepsPromises ==
  ASSUME RetryInv, NEW r \in Reqs, ~Enough(stamp[r]),
         Script(r), NEW q \in Reqs, pc[q] = "denied", seen[q] = given
  PROVE  /\ sentAt[r] < retryAt[q] + MaxSkew
         /\ expires' # 0 /\ ts' <= time + MaxSkew
         /\ credit' + (retryAt[q] + MaxSkew - ts') >= Period
<1> DEFINE now == stamp[r]
<1>1. /\ time \in Nat /\ credit \in 0 .. FullCredit /\ ts \in Nat
      /\ now \in Nat /\ sentAt[r] \in Nat /\ retryAt[q] \in Nat /\ MaxSkew \in Nat
      /\ sentAt[r] <= now /\ now <= time + MaxSkew
  <2>1. /\ sentAt[r] \in Nat /\ stamp[r] \in Nat /\ sentAt[r] <= stamp[r]
        /\ stamp[r] <= sentAt[r] + MaxSkew /\ sentAt[r] <= time
    BY DEF RetryInv, IInv, TypeOK, ClockInv
  <2> QED BY <2>1, ParametersType DEF RetryInv, IInv, TypeOK, ClockInv
<1>2. ~Missing BY ScriptIsAllow DEF RetryInv
<1>3. /\ expires # 0 /\ ts <= time + MaxSkew
      /\ credit + (retryAt[q] + MaxSkew - ts) >= Period
  BY DEF RetryInv, PromiseInv
<1>4. Refilled(now) < Period
  <2>1. Refilled(now) \in 0 .. FullCredit BY ScriptIsAllow DEF RetryInv
  <2> QED BY <2>1, ParametersType DEF Enough
<1>5. ~(AtMostFull(credit + (now - ts)) = FullCredit /\ now > ts)
  BY <1>2, <1>4, ParametersType DEF Refilled
<1>6. /\ Refilled(now) = credit + (NewTs(now) - ts)
      /\ NewTs(now) = IF now > ts THEN now ELSE ts
  <2> HIDE DEF now
  <2> QED BY <1>1, <1>2, <1>5, ParametersType DEF Refilled, NewTs, AtMostFull
<1>7. credit' = Refilled(now) /\ ts' = NewTs(now) /\ expires' = time + TimeToLive
  BY DEF Script
<1>8. sentAt[r] < retryAt[q] + MaxSkew
  <2> HIDE DEF now
  <2> QED BY <1>1, <1>3, <1>4, <1>6, ParametersType
<1>9. ts' <= time + MaxSkew /\ credit' + (retryAt[q] + MaxSkew - ts') >= Period
  <2> HIDE DEF now
  <2> QED BY <1>1, <1>3, <1>6, <1>7, ParametersType
<1>10. expires' # 0 BY <1>1, <1>7, ParametersType
<1> QED BY <1>8, <1>9, <1>10

\* Every step keeps the promises.
LEMMA StepRetryInv == RetryInv /\ [Next]_vars => RetryInv'
<1> SUFFICES ASSUME RetryInv, [Next]_vars PROVE RetryInv'
  OBVIOUS
<1>1. IInv' BY StepIInv DEF RetryInv
<1>2. /\ time \in Nat /\ given \in Nat
      /\ seen \in [Reqs -> Nat] /\ retryAt \in [Reqs -> Nat]
      /\ sentAt \in [Reqs -> Nat]
      /\ pc \in [Reqs -> {"idle", "sent", "granted", "denied", "let_through"}]
      /\ \A r \in Reqs : sentAt[r] <= time
  BY DEF RetryInv, IInv, TypeOK, ClockInv
<1>3. ASSUME NEW r \in Reqs, Script(r), Enough(stamp[r])
      PROVE  \A q \in Reqs : pc[q] = "denied" => seen[q] < given'
  <2>1. given' = given + 1 BY <1>3 DEF Script
  <2> QED BY <1>2, <2>1 DEF RetryInv, PromiseInv
<1>4. ASSUME NEW r \in Reqs, Granted(r) PROVE RetryInv'
  <2>1. Script(r) /\ Enough(stamp[r]) BY <1>4 DEF Granted
  <2>2. \A q \in Reqs : pc'[q] = "denied" <=> pc[q] = "denied"
    BY <1>2, <1>4 DEF Granted
  <2>3. UNCHANGED <<seen, retryAt, sentAt>> BY <1>4 DEF Granted
  <2>4. PromiseInv'
    <3>1. \A q \in Reqs : pc'[q] = "denied" => seen'[q] < given' /\ seen'[q] \in Nat
      BY <1>2, <1>3, <2>1, <2>2, <2>3
    <3>2. given' \in Nat BY <1>1 DEF IInv, TypeOK
    <3> QED BY <3>1, <3>2 DEF PromiseInv
  <2>5. RetryIsHonest' BY <2>2, <2>3 DEF RetryInv, RetryIsHonest
  <2> QED BY <1>1, <2>4, <2>5 DEF RetryInv
<1>5. ASSUME NEW r \in Reqs, Denied(r) PROVE RetryInv'
  <2>1. Script(r) /\ ~Enough(stamp[r]) BY <1>5 DEF Denied
  <2>2. /\ \A q \in Reqs : pc'[q] = "denied" <=> (pc[q] = "denied" \/ q = r)
        /\ pc[r] # "denied"
    BY <1>2, <1>5 DEF Denied
  <2>3. /\ \A q \in Reqs : q # r => seen'[q] = seen[q] /\ retryAt'[q] = retryAt[q]
        /\ seen'[r] = given /\ given' = given
        /\ retryAt'[r] = time + RetryAfter(Period - Refilled(stamp[r]))
        /\ UNCHANGED <<sentAt, time>>
    BY <1>2, <1>5, <2>1 DEF Denied, Script
  <2>4. /\ Period - Refilled(stamp[r]) \in Nat /\ credit' = Refilled(stamp[r])
        /\ Refilled(stamp[r]) \in Nat
    <3>1. Refilled(stamp[r]) \in 0 .. FullCredit
      BY <2>1, ScriptIsAllow DEF RetryInv
    <3> QED BY <2>1, <3>1, ParametersType DEF Enough, Script
  <2>5. retryAt'[r] > time /\ retryAt'[r] >= time + (Period - credit')
    <3> DEFINE ms == Period - Refilled(stamp[r])
    <3>1. RetryAfter(ms) \in Nat /\ RetryAfter(ms) >= ms /\ RetryAfter(ms) >= 1
      BY <2>4, RetryAfterCovers
    <3> QED BY <1>2, <2>3, <2>4, <3>1
  <2>6. expires' # 0 /\ ts' <= time + MaxSkew /\ ts' \in Nat
    <3>1. NewTs(stamp[r]) \in Nat /\ NewTs(stamp[r]) <= time + MaxSkew
      BY <2>1, ScriptIsAllow DEF RetryInv
    <3> QED BY <1>2, <2>1, <3>1, ParametersType DEF Script
  <2>7. PromiseInv'
    <3> SUFFICES ASSUME NEW q \in Reqs, pc'[q] = "denied"
                 PROVE  /\ seen'[q] <= given'
                        /\ seen'[q] = given' =>
                             /\ expires' # 0 /\ ts' <= time' + MaxSkew
                             /\ credit' + (retryAt'[q] + MaxSkew - ts') >= Period
      BY DEF PromiseInv
    <3>1. CASE q = r
      <4>1. retryAt'[r] \in Nat /\ MaxSkew \in Nat /\ credit' \in Nat /\ Period \in Nat
        BY <1>1, <2>4, ParametersType DEF IInv, TypeOK
      <4>2. credit' + (retryAt'[r] + MaxSkew - ts') >= Period
        <5>1. time \in Nat BY <1>2
        <5> QED BY <5>1, <2>5, <2>6, <4>1
      <4> QED BY <1>2, <2>3, <2>6, <3>1, <4>2
    <3>2. CASE q # r
      <4>1. pc[q] = "denied" /\ seen'[q] = seen[q] /\ retryAt'[q] = retryAt[q]
        BY <2>2, <2>3, <3>2
      <4>2. seen[q] <= given BY <4>1 DEF RetryInv, PromiseInv
      <4>3. seen[q] = given => credit' + (retryAt[q] + MaxSkew - ts') >= Period
        BY <2>1, <4>1, RefusalKeepsPromises
      <4> QED BY <2>3, <2>6, <4>1, <4>2, <4>3
    <3> QED BY <3>1, <3>2
  <2>8. RetryIsHonest'
    <3> SUFFICES ASSUME NEW q \in Reqs, NEW p \in Reqs,
                        pc'[q] = "denied", pc'[p] = "denied",
                        sentAt[p] >= retryAt'[q] + MaxSkew
                 PROVE  seen'[p] # seen'[q]
      BY <2>3 DEF RetryIsHonest
    <3>1. CASE q = r
      <4>1. /\ time \in Nat /\ sentAt[p] <= time /\ sentAt[p] \in Nat
            /\ retryAt'[r] \in Nat /\ MaxSkew \in Nat
        BY <1>1, <1>2, ParametersType DEF IInv, TypeOK
      <4>2. sentAt[p] < retryAt'[r] + MaxSkew BY <2>5, <4>1
      <4> QED BY <3>1, <4>1, <4>2
    <3>2. CASE q # r /\ p = r
      <4>1. pc[q] = "denied" /\ seen'[q] = seen[q] /\ retryAt'[q] = retryAt[q]
        BY <2>2, <2>3, <3>2
      <4>2. seen[q] # given
        <5>1. seen[q] = given => sentAt[r] < retryAt[q] + MaxSkew
          BY <2>1, <4>1, RefusalKeepsPromises
        <5>2. sentAt[r] >= retryAt[q] + MaxSkew BY <3>2, <4>1
        <5>3. /\ sentAt[r] \in Nat /\ retryAt[q] \in Nat /\ MaxSkew \in Nat
          BY <1>2, ParametersType
        <5> QED BY <5>1, <5>2, <5>3
      <4> QED BY <2>3, <3>2, <4>1, <4>2
    <3>3. CASE q # r /\ p # r
      BY <2>2, <2>3, <3>3 DEF RetryInv, RetryIsHonest
    <3> QED BY <3>1, <3>2, <3>3
  <2> QED BY <1>1, <2>7, <2>8 DEF RetryInv
<1>6. ASSUME NEW r \in Reqs, RunsUnseen(r) PROVE RetryInv'
  <2>1. Script(r) BY <1>6 DEF RunsUnseen
  <2>2. UNCHANGED <<pc, seen, retryAt, sentAt, time>> BY <1>6 DEF RunsUnseen
  <2>3. PromiseInv'
    <3>1. CASE Enough(stamp[r])
      <4>1. \A q \in Reqs : pc'[q] = "denied" => seen'[q] < given' /\ seen'[q] \in Nat
        BY <1>2, <1>3, <2>1, <2>2, <3>1
      <4>2. given' \in Nat BY <1>1 DEF IInv, TypeOK
      <4> QED BY <4>1, <4>2 DEF PromiseInv
    <3>2. CASE ~Enough(stamp[r])
      <4>1. given' = given BY <2>1, <3>2 DEF Script
      <4> SUFFICES ASSUME NEW q \in Reqs, pc[q] = "denied"
                   PROVE  /\ seen[q] <= given
                          /\ seen[q] = given =>
                               /\ expires' # 0 /\ ts' <= time + MaxSkew
                               /\ credit' + (retryAt[q] + MaxSkew - ts') >= Period
        BY <2>2, <4>1 DEF PromiseInv
      <4> QED BY <2>1, <3>2, RefusalKeepsPromises DEF RetryInv, PromiseInv
    <3> QED BY <3>1, <3>2
  <2>4. RetryIsHonest' BY <2>2 DEF RetryInv, RetryIsHonest
  <2> QED BY <1>1, <2>3, <2>4 DEF RetryInv
<1>7. ASSUME NEW r \in Reqs, FailOpen(r) PROVE RetryInv'
  <2>1. /\ UNCHANGED <<time, credit, ts, expires, sentAt, retryAt, seen, given>>
        /\ \A q \in Reqs : pc'[q] = "denied" <=> pc[q] = "denied"
    BY <1>2, <1>7 DEF FailOpen
  <2>2. PromiseInv' /\ RetryIsHonest'
    BY <2>1 DEF RetryInv, PromiseInv, RetryIsHonest
  <2> QED BY <1>1, <2>2 DEF RetryInv
<1>8. ASSUME NEW r \in Reqs, NEW s \in Servers, Send(r, s) PROVE RetryInv'
  <2>1. /\ UNCHANGED <<time, credit, ts, expires, retryAt, seen, given>>
        /\ \A q \in Reqs : pc'[q] = "denied" <=> pc[q] = "denied"
        /\ \A q \in Reqs : pc[q] = "denied" => sentAt'[q] = sentAt[q]
    BY <1>2, <1>8 DEF Send
  <2>2. PromiseInv' /\ RetryIsHonest'
    BY <2>1 DEF RetryInv, PromiseInv, RetryIsHonest
  <2> QED BY <1>1, <2>2 DEF RetryInv
<1>9. CASE Tick
  <2>1. /\ UNCHANGED <<pc, credit, ts, expires, sentAt, retryAt, seen, given>>
        /\ time' = time + 1
    BY <1>9 DEF Tick
  <2>2. ts \in Nat BY DEF RetryInv, IInv, TypeOK
  <2>3. PromiseInv'
    <3>1. MaxSkew \in Nat BY ParametersType
    <3>2. ts <= time + MaxSkew => ts <= time' + MaxSkew BY <1>2, <2>1, <2>2, <3>1
    <3> QED BY <2>1, <3>2 DEF RetryInv, PromiseInv
  <2>4. RetryIsHonest' BY <2>1 DEF RetryInv, RetryIsHonest
  <2> QED BY <1>1, <2>3, <2>4 DEF RetryInv
<1>10. CASE UNCHANGED vars
  BY <1>1, <1>10 DEF vars, RetryInv, PromiseInv, RetryIsHonest
<1> QED BY <1>4, <1>5, <1>6, <1>7, <1>8, <1>9, <1>10 DEF Next, Handle, Finished

\* Theorem: the promise of a refusal is kept: a client that comes back when it
\* was told to, by the clock that is furthest behind, finds a token, if nobody
\* else took it.
THEOREM RefusalsAreHonest == Spec => []RetryIsHonest
<1>1. Init => RetryInv
  <2>1. Init => PromiseInv /\ RetryIsHonest
    BY DEF Init, PromiseInv, RetryIsHonest
  <2> QED BY <2>1, InitIInv DEF RetryInv
<1>2. RetryInv /\ [Next]_vars => RetryInv'
  BY StepRetryInv
<1>3. RetryInv => RetryIsHonest BY DEF RetryInv
<1> QED BY <1>1, <1>2, <1>3, PTL DEF Spec

=============================================================================
