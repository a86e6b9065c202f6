---------------------------- MODULE TokenBucket ----------------------------
(***************************************************************************)
(* A token bucket in memory (ratelimit.Bucket).  Credit is counted in the  *)
(* time that refills it: a token is worth Period milliseconds, a full      *)
(* bucket Capacity * Period.  Callers read the clock before they call, so  *)
(* the readings may arrive in any order.                                   *)
(*                                                                         *)
(* A bucket starts full and stays full until somebody asks, so it does not *)
(* matter when it starts: here at time 0.                                  *)
(***************************************************************************)
EXTENDS Integers, Sequences

CONSTANTS Capacity,   \* tokens
          Period,     \* milliseconds that refill a token
          Times       \* readings of the clock: natural numbers

VARIABLES credit, last,
          grants      \* the bucket's time at each token given (history)

bucketVars == <<credit, last, grants>>

FullCredit == Capacity * Period

Init == credit = FullCredit /\ last = 0 /\ grants = <<>>

AtMostFull(c) == IF c < FullCredit THEN c ELSE FullCredit

Refilled(now) == IF now > last THEN AtMostFull(credit + (now - last)) ELSE credit

Later(now) == IF now > last THEN now ELSE last

Allow(now) ==
  /\ last' = Later(now)
  /\ IF Refilled(now) < Period
       THEN credit' = Refilled(now) /\ UNCHANGED grants
       ELSE /\ credit' = Refilled(now) - Period
            /\ grants' = Append(grants, last')

Next == \E now \in Times : Allow(now)

Spec == Init /\ [][Next]_bucketVars

----------------------------------------------------------------------------
(* Properties *)

\* Types; never more credit than a full bucket has.
TypeOK == /\ credit \in 0 .. FullCredit /\ last \in Nat
          /\ grants \in Seq(Nat)

\* Between any two tokens given out, and with them, no more were given than a
\* full bucket holds and the time in between refills: no moment is credited
\* twice, in whatever order the readings arrive.
RateHolds ==
  \A i \in DOMAIN grants : \A j \in i .. Len(grants) :
    (j - i + 1) * Period <= FullCredit + (grants[j] - grants[i])

\* Asking costs nothing: when a period has passed since the last token, a call
\* is given one, however often it was refused in between.
AskingIsFree ==
  [][grants # <<>> /\ last' >= grants[Len(grants)] + Period
       => grants' # grants]_bucketVars

=============================================================================
