---------------------------- MODULE RateLimiter ----------------------------
(***************************************************************************)
(* The limiter of one user's action: a token bucket kept in Redis, shared  *)
(* by several servers.  A server stamps a request with its own clock, then *)
(* calls a script; the call takes as long as it takes, the client library  *)
(* sends it again when its reply is lost, and a request whose call fails   *)
(* is let through, although the script may still run.  The key expires, by *)
(* Redis's clock, a margin after the bucket would be full again.           *)
(*                                                                         *)
(* Credit is counted in time, as in TokenBucket; exact numbers stand for   *)
(* the script's doubles.                                                   *)
(***************************************************************************)
EXTENDS Integers, Sequences

CONSTANTS
  Reqs, Servers,
  Skew,               \* Skew[s]: how far server s's clock is ahead of Redis's
  MaxSkew,
  Capacity, Period,   \* the rule, as in TokenBucket
  Margin,             \* what is added to the time to live
  Second,             \* the unit of the Retry-After header
  MaxTime,            \* bound on the clock
  MaxFaults           \* bound: calls that run unseen and calls that fail

ASSUME RuleAssumption == Capacity \in Nat \ {0} /\ Period \in Nat \ {0}

ASSUME ClocksAssumption ==
  /\ MaxSkew \in Nat /\ Skew \in [Servers -> 0 .. MaxSkew]
  /\ MaxTime \in Nat /\ MaxFaults \in Nat
  /\ Margin \in Nat /\ Second \in Nat \ {0}

VARIABLES
  time,              \* Redis's clock
  credit, ts,        \* the hash at the key, even once it is expired
  expires,           \* when the key expires; 0 if it was never written
  pc, sentAt, stamp, \* the requests; when, and with what stamp, each was sent
  retryAt, seen,     \* for a refusal: when its client comes back, and how
                     \* many tokens had been given out
  given,             \* how many tokens were given out (history)
  grants,            \* the bucket's time at each token given, since a late run
                     \* found the key gone (history)
  faults

vars == <<time, credit, ts, expires, pc, sentAt, stamp, retryAt, seen, given,
          grants, faults>>

FullCredit == Capacity * Period

Init ==
  /\ time = 0
  /\ credit = FullCredit /\ ts = 0 /\ expires = 0
  /\ pc = [r \in Reqs |-> "idle"]
  /\ sentAt = [r \in Reqs |-> 0] /\ stamp = [r \in Reqs |-> 0]
  /\ retryAt = [r \in Reqs |-> 0] /\ seen = [r \in Reqs |-> 0]
  /\ given = 0 /\ grants = <<>> /\ faults = 0

Tick == /\ time < MaxTime /\ time' = time + 1
        /\ UNCHANGED <<credit, ts, expires, pc, sentAt, stamp, retryAt, seen,
                       given, grants, faults>>

Send(r, s) ==
  /\ pc[r] = "idle"
  /\ pc' = [pc EXCEPT ![r] = "sent"]
  /\ sentAt' = [sentAt EXCEPT ![r] = time]
  /\ stamp' = [stamp EXCEPT ![r] = time + Skew[s]]
  /\ UNCHANGED <<time, credit, ts, expires, retryAt, seen, given, grants, faults>>

----------------------------------------------------------------------------
(* The script *)

Missing == time >= expires

AtMostFull(c) == IF c < FullCredit THEN c ELSE FullCredit

\* What the bucket holds when a call stamped now has refilled it.
Refilled(now) ==
  IF Missing THEN FullCredit
  ELSE IF now > ts THEN AtMostFull(credit + (now - ts)) ELSE credit

NewTs(now) == IF Missing \/ now > ts THEN now ELSE ts

Enough(now) == Refilled(now) >= Period

\* Mutant: the key expires when the bucket would be full, without a margin.
TimeToLive_NoMargin == FullCredit

TimeToLive == FullCredit + Margin

\* The call took longer than the margin allows beside the clocks' difference, and
\* finds the key gone: the new bucket gets a stamp that may be as old as the one
\* that was forgotten.
Late(r) == 0 < expires /\ Missing /\ time + MaxSkew > sentAt[r] + Margin

Script(r) ==
  /\ credit' = IF Enough(stamp[r]) THEN Refilled(stamp[r]) - Period
                                   ELSE Refilled(stamp[r])
  /\ ts' = NewTs(stamp[r])
  /\ given' = IF Enough(stamp[r]) THEN given + 1 ELSE given
  /\ grants' = IF Enough(stamp[r])
                 THEN Append(IF Late(r) THEN <<>> ELSE grants, NewTs(stamp[r]))
                 ELSE grants
  /\ expires' = time + TimeToLive

----------------------------------------------------------------------------
(* Allow and the middleware *)

Granted(r) ==
  /\ pc[r] = "sent" /\ Enough(stamp[r])
  /\ Script(r)
  /\ pc' = [pc EXCEPT ![r] = "granted"]
  /\ UNCHANGED <<time, sentAt, stamp, retryAt, seen, faults>>

\* Mutant: whole seconds, rounded down.
RetryAfter_Down(ms) == Second * (ms \div Second)

\* The header's value: whole seconds, rounded up, and at least one.
RetryAfter(ms) ==
  IF ms < 1 THEN Second ELSE Second * ((ms + Second - 1) \div Second)

Denied(r) ==
  /\ pc[r] = "sent" /\ ~Enough(stamp[r])
  /\ Script(r)
  /\ pc' = [pc EXCEPT ![r] = "denied"]
  /\ retryAt' = [retryAt EXCEPT ![r] = time + RetryAfter(Period - Refilled(stamp[r]))]
  /\ seen' = [seen EXCEPT ![r] = given]
  /\ UNCHANGED <<time, sentAt, stamp, faults>>

\* A copy of the call runs and nobody gets its reply: the reply is lost and the
\* library sends the call again, or the copy arrives after the request was
\* answered or let through.
RunsUnseen(r) ==
  /\ pc[r] # "idle" /\ faults < MaxFaults
  /\ Script(r)
  /\ faults' = faults + 1
  /\ UNCHANGED <<time, pc, sentAt, stamp, retryAt, seen>>

\* The call fails: the request is let through.
FailOpen(r) ==
  /\ pc[r] = "sent" /\ faults < MaxFaults
  /\ faults' = faults + 1
  /\ pc' = [pc EXCEPT ![r] = "let_through"]
  /\ UNCHANGED <<time, credit, ts, expires, sentAt, stamp, retryAt, seen, given, grants>>

Handle(r) == Granted(r) \/ Denied(r) \/ RunsUnseen(r) \/ FailOpen(r)

\* Everything has been answered, or the clock has reached its bound.
Finished == /\ \A r \in Reqs : pc[r] \notin {"idle", "sent"} /\ time = MaxTime
            /\ UNCHANGED vars

Next == \/ Tick \/ Finished
        \/ \E r \in Reqs : Handle(r) \/ \E s \in Servers : Send(r, s)

Spec == Init /\ [][Next]_vars

----------------------------------------------------------------------------
(* Properties *)

TypeOK ==
  /\ time \in 0 .. MaxTime
  /\ credit \in 0 .. FullCredit /\ ts \in Nat /\ expires \in Nat
  /\ pc \in [Reqs -> {"idle", "sent", "granted", "denied", "let_through"}]
  /\ sentAt \in [Reqs -> Nat] /\ stamp \in [Reqs -> Nat]
  /\ retryAt \in [Reqs -> Nat] /\ seen \in [Reqs -> Nat]
  /\ given \in Nat /\ grants \in Seq(Nat) /\ faults \in 0 .. MaxFaults

Bucket == INSTANCE TokenBucket WITH last <- ts, Times <- 0 .. (MaxTime + MaxSkew)

\* A call that comes too late starts a new bucket, full but for the token it takes.
RunsLate(r) ==
  /\ pc[r] # "idle" /\ Late(r)
  /\ credit' = FullCredit - Period /\ ts' = stamp[r] /\ grants' = <<ts'>>

\* The bucket that Redis forgets behaves as one that is never forgotten, whatever
\* calls overtake each other, run twice or run for requests that were let through:
\* when the key is gone it would have been full.  The one exception is a call that
\* finds the key gone after it was under way for longer than the margin.
KeepsBucket ==
  Bucket!Init /\ [][Bucket!Next \/ \E r \in Reqs : RunsLate(r)]_<<credit, ts, grants>>

\* Hence the rate holds, over any stretch of the bucket's time in which no such
\* late call ran.
RateHolds == Bucket!RateHolds

\* A client that comes back when it was told to (later by what the servers'
\* clocks differ) is not refused again, unless somebody took a token in between.
RetryIsHonest ==
  \A q, r \in Reqs :
    /\ pc[q] = "denied" /\ pc[r] = "denied"
    /\ sentAt[r] >= retryAt[q] + MaxSkew
    => seen[r] # seen[q]

=============================================================================
