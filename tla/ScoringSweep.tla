--------------------------- MODULE ScoringSweep ---------------------------
(***************************************************************************)
(* CalculateFinalScore over everything it can be asked: both table sizes,  *)
(* every contract, friend and setting, as the callers' side captures one   *)
(* scoring card after the other.                                           *)
(***************************************************************************)
EXTENDS Scoring

VARIABLES
  n, failDist, friend, bid, noTrump, alone,    \* the contract; seat 0 declares
  p                                            \* scoring cards of the callers

contractVars == <<n, failDist, friend, bid, noTrump, alone>>

SweepInit ==
  /\ n \in {4, 5} /\ failDist \in FailDists
  /\ friend \in NoSeat..(n - 1)
  /\ bid \in MinBid(n)..MaxBid
  /\ noTrump \in BOOLEAN
  /\ alone \in BOOLEAN /\ (alone => friend = NoSeat)
  /\ p = 0

Capture == p < TotalPoints /\ p' = p + 1 /\ UNCHANGED contractVars

SweepSpec == SweepInit /\ [][Capture]_<<contractVars, p>>

----------------------------------------------------------------------------

Table == 0..(n - 1)

Callers == Team(0, friend)

\* The callers' cards lie with the declarer, the rest with an opponent.
Captured ==
  LET opponent == CHOOSE s \in Table : s \notin Callers
  IN  [s \in Seats |-> IF s = 0 THEN p ELSE IF s = opponent THEN TotalPoints - p ELSE 0]

Result == RoundScores(n, failDist, Table, 0, friend, bid, noTrump, alone, Captured)

\* The scores of a round sum to zero (the comment on CalculateFinalScore).
ZeroSum == ScoreSum(Result) = 0

\* A lost contract costs the declarer and pays every opponent, and a partner
\* never gains by it; a made one is the other way round.
OutcomeDecidesSign ==
  LET made == p >= Target(bid)
      good(x) == IF made THEN x >= 0 ELSE x <= 0
  IN  /\ \A s \in Callers \ {NoSeat} : good(Result[s])
      /\ \A s \in Table \ Callers : good(-Result[s])
      /\ ~made => Result[0] < 0

\* Nobody has more at stake than the declarer.
DeclarerAtStake ==
  LET abs(x) == IF x < 0 THEN -x ELSE x
  IN  \A s \in Table : abs(Result[s]) <= abs(Result[0])

\* One more scoring card never costs the callers, whatever doubling (run, back
\* run) it brings or takes away.
CapturingNeverCosts ==
  [][\A s \in Callers \ {NoSeat} : Result'[s] >= Result[s]]_<<contractVars, p>>

=============================================================================
