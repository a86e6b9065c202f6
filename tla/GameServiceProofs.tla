------------------------- MODULE GameServiceProofs -------------------------
(***************************************************************************)
(* Theorems about GameService, for any number of requests, retries, faults *)
(* and lapses.  IInv is the inductive invariant: types, which commands of  *)
(* a request may still take effect, what that says of the copy the request *)
(* works with, and NoLostUpdate itself.                                    *)
(***************************************************************************)
EXTENDS GameService, TLAPS

\* A request that still tries for the lock has an attempt left.
AttemptsInv ==
  \A r \in Requests : pc[r] \in {"idle", "lock"} => attempts[r] <= MaxRetries

\* Creating has program counters of its own, and one request creates the game.
KindsInv ==
  /\ \A r \in Requests : IF r \in Creates THEN pc[r] \in {"idle", "insert", "new", "done"}
                                          ELSE pc[r] \notin {"insert", "new"}
  /\ \A q, r \in Creates : pc[q] # "idle" /\ pc[r] # "idle" => q = r

\* Where a request can be that has sent command k.
Sent(k) ==
  CASE k = "insert"  -> {"done"}
    [] k = "new"     -> {"new", "done"}
    [] k = "lock"    -> {"lock", "load", "save", "ledger", "publish", "release", "done"}
    [] k = "save"    -> {"save", "ledger", "publish", "release", "done"}
    [] k = "ledger"  -> {"release", "done"}
    [] k = "publish" -> {"publish", "release", "done"}
    [] k = "release" -> {"release", "done"}

\* What is on its way was sent.
StraysInv ==
  \A k \in Commands, r \in Requests : <<k, r>> \in strays =>
    pc[r] \in Sent(k) /\ (k \in {"insert", "new"} <=> r \in Creates)

\* A request that has yet to load the game, or creates it.
Unloaded == {"idle", "insert", "new", "lock", "load"}

Late == {"ledger", "publish"}

Settled == {"release", "done"}

\* A request has a result from the moment it is settled.
OutcomeInv ==
  \A r \in Requests : IF pc[r] \in Settled THEN outcome[r] # "none" ELSE outcome[r] = "none"

\* Until the creator sends the new game there is none, and nothing is saved.
CreateInv ==
  (\A r \in Creates : pc[r] \in {"idle", "insert"}) => game = NoGame /\ committed = <<>>

\* The new game, whenever it arrives, is the first of this history.
NewFirst ==
  \A r \in Requests : Pending("new", r) /\ game = NoGame => committed = <<>>

\* The copy a request is about to save is of a version that existed, and if no
\* save came in between it has exactly the effects committed so far.
LoadedInv ==
  \A r \in Requests : Pending("save", r) =>
    /\ loaded[r].version \in 1..(Len(committed) + 1)
    /\ loaded[r].version = Len(committed) + 1 => loaded[r].ops = committed

\* A row or an event may still be added of what was saved and is not recorded.
Unwritten(r) == Pending("ledger", r) \/ Pending("publish", r)

\* A request past its save is in the history, at the version it loaded.
SavedInv ==
  \A r \in Requests : Unwritten(r) =>
    /\ loaded[r].version \in DOMAIN committed
    /\ committed[loaded[r].version] = r

\* The requests that have taken effect.
Taken == {committed[i] : i \in DOMAIN committed}

\* A request is in the history at most once: it is not before it has loaded the
\* game, and once it is, its copy is out of date.
OnceInv ==
  /\ SavedOnce
  /\ \A r \in Requests :
       /\ pc[r] \in Unloaded => r \notin Taken
       /\ Pending("save", r) /\ r \in Taken => loaded[r].version <= Len(committed)

IInv ==
  TypeOK /\ AttemptsInv /\ KindsInv /\ StraysInv /\ OutcomeInv /\ CreateInv /\ NewFirst
    /\ NoLostUpdate /\ LoadedInv /\ SavedInv /\ VersionsAgree /\ OnceInv

----------------------------------------------------------------------------

\* A sequence stays one when an element is appended.
LEMMA AppendType ==
  ASSUME NEW S, NEW s \in Seq(S), NEW e \in S PROVE Append(s, e) \in Seq(S)
  OBVIOUS

\* What a request makes of a game is a game; what it records is a ledger row.
LEMMA AfterType == ASSUME NEW r \in Requests, NEW g \in Game PROVE After(r, g) \in Game
  BY RequestsAssumption DEF After, Game, Requests

\* The row or event of a request has the type of one.
LEMMA EntryType ==
  ASSUME TypeOK, NEW r \in Requests PROVE Entry(r) \in [req : Requests, version : Nat]
<1>1. loaded[r] \in Game
  BY DEF TypeOK
<1>2. loaded[r].version + 1 \in Nat
  BY <1>1 DEF Game
<1> QED  BY <1>2 DEF Entry

\* What a request leaves on its way is the command it waited for.
LEMMA LeftFacts ==
  ASSUME TypeOK, NEW r \in Requests
  PROVE  /\ Left(r) \subseteq Commands \X Requests
         /\ \A k, q : <<k, q>> \in Left(r)
              <=> <<k, q>> \in strays \/ (q = r /\ k = pc[r] /\ k \in Commands)
  BY DEF Left, TypeOK

\* The type invariant is kept by every step, with the help of AttemptsInv.
LEMMA TypeStep ==
  ASSUME TypeOK, AttemptsInv, [Next]_vars
  PROVE  TypeOK'
<1> USE RequestsAssumption, BoundsAssumption DEF TypeOK, PCs, Outcomes, Refusals,
        vars, redisVars, postgresVars, localVars, faultVars
<1>1. ASSUME NEW r \in Requests, BeginCreate(r) \/ Begin(r) \/ Serve(r) \/ Disturb(r)
      PROVE  TypeOK'
  <2>1. CASE BeginCreate(r)
    BY <2>1 DEF BeginCreate, Goto
  <2>2. CASE Begin(r)
    BY <2>2 DEF Begin, Goto
  <2>3. CASE InsertGame(r)
    BY <2>3 DEF InsertGame, Goto
  <2>4. CASE SaveNew(r)
    BY <2>4 DEF SaveNew, Goto, Result, StoreNew, CasMatches, NewGame, Game
  <2>5. CASE TryLock(r)
    BY <2>5 DEF TryLock, Goto
  <2>6. CASE LockHeld(r)
    <3>1. attempts[r] \in Nat /\ attempts[r] <= MaxRetries
      BY <2>6 DEF LockHeld, AttemptsInv
    <3>2. attempts' \in [Requests -> 0..(MaxRetries + 1)]
      BY <2>6, <3>1 DEF LockHeld
    <3>3. pc' \in [Requests -> PCs] /\ outcome' \in [Requests -> Outcomes]
      BY <2>6 DEF LockHeld, Goto, Result
    <3> QED  BY <2>6, <3>2, <3>3 DEF LockHeld
  <2>7. CASE Load(r)
    <3>1. UNCHANGED <<redisVars, postgresVars, attempts, clientVersion, committed, faultVars>>
      BY <2>7 DEF Load
    <3>2. CASE game = NoGame
      BY <2>7, <3>1, <3>2 DEF Load, Goto, Result
    <3>3. ASSUME game # NoGame, NEW v \in Verdicts(r, game),
                 loaded' = [loaded EXCEPT ![r] = game],
                 IF v = "save" THEN Goto(r, "save") /\ UNCHANGED outcome
                               ELSE Goto(r, "release") /\ Result(r, v)
          PROVE  TypeOK'
      <4>1. v \in Outcomes \cup {"save"}
        BY <3>3 DEF Verdicts
      <4>2. pc' \in [Requests -> PCs] /\ outcome' \in [Requests -> Outcomes]
        BY <3>3, <4>1 DEF Goto, Result
      <4>3. game \in Game /\ loaded' \in [Requests -> Game]
        BY <3>3
      <4> QED  BY <3>1, <4>2, <4>3
    <3> QED  BY <2>7, <3>2, <3>3 DEF Load
  <2>8. CASE Save(r)
    <3>1. game' \in Game /\ committed' \in Seq(Requests)
      BY <2>8, AfterType DEF Save, Commit
    <3>2. pc' \in [Requests -> PCs] /\ outcome' \in [Requests -> Outcomes]
      BY <2>8 DEF Save, Goto, Result
    <3> QED  BY <2>8, <3>1, <3>2 DEF Save
  <2>9. CASE SaveConflict(r)
    BY <2>9 DEF SaveConflict, Goto, Result
  <2>10. CASE SaveMove(r)
    <3>1. ledger' \in Seq([req : Requests, version : Nat])
      BY <2>10, EntryType DEF SaveMove
    <3>2. pc' \in [Requests -> PCs]
      BY <2>10 DEF SaveMove, Goto
    <3> QED  BY <2>10, <3>1, <3>2 DEF SaveMove
  <2>11. CASE PublishEvent(r)
    <3>1. events' \in Seq([req : Requests, version : Nat])
      BY <2>11, EntryType DEF PublishEvent
    <3>2. pc' \in [Requests -> PCs] /\ outcome' \in [Requests -> Outcomes]
      BY <2>11 DEF PublishEvent, Goto, Result
    <3> QED  BY <2>11, <3>1, <3>2 DEF PublishEvent
  <2>12. CASE ReleaseLock(r)
    BY <2>12 DEF ReleaseLock, Goto, Released
  <2>13. CASE CallFails(r)
    <3>1. pc' \in [Requests -> PCs] /\ outcome' \in [Requests -> Outcomes]
      BY <2>13 DEF CallFails, Unwind, Goto, Result
    <3>2. strays' \subseteq Commands \X Requests
      BY <2>13, LeftFacts DEF CallFails
    <3> QED  BY <2>13, <3>1, <3>2 DEF CallFails, Fault
  <2>14. CASE Resend(r)
    <3>1. strays' \subseteq Commands \X Requests
      BY <2>14, LeftFacts DEF Resend
    <3> QED  BY <2>14, <3>1 DEF Resend, Fault
  <2>15. CASE Crash(r)
    <3>1. pc' \in [Requests -> PCs] /\ outcome' \in [Requests -> Outcomes]
      BY <2>15 DEF Crash, Goto, Result
    <3>2. strays' \subseteq Commands \X Requests
      BY <2>15, LeftFacts DEF Crash
    <3> QED  BY <2>15, <3>1, <3>2 DEF Crash, Fault
  <2>16. ASSUME NEW k \in Commands, Arrive(k, r) PROVE TypeOK'
    <3>1. \/ UNCHANGED <<game, committed>>
          \/ StoreNew /\ UNCHANGED committed
          \/ Commit(r)
      BY <2>16 DEF Arrive
    <3>2. game' \in Game \cup {NoGame} /\ committed' \in Seq(Requests)
      <4>1. NewGame \in Game /\ After(r, loaded[r]) \in Game
        BY AfterType DEF NewGame, Game
      <4>2. Append(committed, r) \in Seq(Requests)
        BY AppendType
      <4> QED  BY <3>1, <4>1, <4>2 DEF StoreNew, Commit
    <3>3. lock' \in Requests \cup {Free} /\ row' \in BOOLEAN
      BY <2>16 DEF Arrive, Released
    <3>4. /\ ledger' = ledger \/ ledger' = Append(ledger, Entry(r))
          /\ events' = events \/ events' = Append(events, Entry(r))
      BY <2>16 DEF Arrive
    <3>5. /\ ledger' \in Seq([req : Requests, version : Nat])
          /\ events' \in Seq([req : Requests, version : Nat])
      <4>1. /\ Append(ledger, Entry(r)) \in Seq([req : Requests, version : Nat])
            /\ Append(events, Entry(r)) \in Seq([req : Requests, version : Nat])
        BY EntryType, AppendType
      <4> QED  BY <3>4, <4>1
    <3>6. /\ UNCHANGED <<pc, loaded, attempts, clientVersion, outcome, faults, lapses, gameLapses>>
          /\ strays' \subseteq Commands \X Requests
      BY <2>16 DEF Arrive
    <3> QED  BY <3>2, <3>3, <3>5, <3>6
  <2> QED
    BY <1>1, <2>1, <2>2, <2>3, <2>4, <2>5, <2>6, <2>7, <2>8, <2>9, <2>10, <2>11, <2>12, <2>13, <2>14, <2>15, <2>16
       DEF Serve, Disturb
<1>2. CASE LockLapses
  BY <1>2 DEF LockLapses
<1>3. CASE GameLapses
  BY <1>3 DEF GameLapses
<1>4. CASE UNCHANGED vars
  BY <1>4
<1> QED  BY <1>1, <1>2, <1>3, <1>4 DEF Next, AllDone

\* No step leaves a waiting request without an attempt.
LEMMA AttemptsStep ==
  ASSUME TypeOK, AttemptsInv, [Next]_vars
  PROVE  AttemptsInv'
<1> USE DEF TypeOK, AttemptsInv, Goto, PCs, vars, redisVars, postgresVars, localVars, faultVars
<1>1. ASSUME NEW r \in Requests, BeginCreate(r) \/ Begin(r) \/ Serve(r) \/ Disturb(r)
      PROVE  AttemptsInv'
  <2>1. CASE BeginCreate(r)
    BY <2>1 DEF BeginCreate
  <2>2. CASE Begin(r)
    BY <2>2 DEF Begin
  <2>3. CASE InsertGame(r)
    BY <2>3 DEF InsertGame
  <2>4. CASE SaveNew(r)
    BY <2>4 DEF SaveNew
  <2>5. CASE TryLock(r)
    BY <2>5 DEF TryLock
  <2>6. CASE LockHeld(r)
    <3>1. attempts[r] \in Nat /\ attempts[r] <= MaxRetries
      BY <2>6 DEF LockHeld
    <3> QED  BY <2>6, <3>1, BoundsAssumption DEF LockHeld, Exhausted
  <2>7. CASE Load(r)
    BY <2>7 DEF Load
  <2>8. CASE Save(r)
    BY <2>8 DEF Save
  <2>9. CASE SaveConflict(r)
    BY <2>9 DEF SaveConflict
  <2>10. CASE SaveMove(r)
    BY <2>10 DEF SaveMove
  <2>11. CASE PublishEvent(r)
    BY <2>11 DEF PublishEvent
  <2>12. CASE ReleaseLock(r)
    BY <2>12 DEF ReleaseLock
  <2>13. CASE CallFails(r)
    BY <2>13 DEF CallFails, Unwind
  <2>14. CASE Resend(r)
    BY <2>14 DEF Resend
  <2>15. CASE Crash(r)
    BY <2>15 DEF Crash
  <2>16. ASSUME NEW k \in Commands, Arrive(k, r) PROVE AttemptsInv'
    BY <2>16 DEF Arrive
  <2> QED
    BY <1>1, <2>1, <2>2, <2>3, <2>4, <2>5, <2>6, <2>7, <2>8, <2>9, <2>10, <2>11, <2>12, <2>13, <2>14, <2>15, <2>16
       DEF Serve, Disturb
<1>2. CASE LockLapses
  BY <1>2 DEF LockLapses
<1>3. CASE GameLapses
  BY <1>3 DEF GameLapses
<1>4. CASE UNCHANGED vars
  BY <1>4
<1> QED  BY <1>1, <1>2, <1>3, <1>4 DEF Next, AllDone

\* No step takes a request to a program counter of the other kind.
LEMMA KindsStep ==
  ASSUME TypeOK, KindsInv, [Next]_vars
  PROVE  KindsInv'
<1> USE DEF TypeOK, KindsInv, Goto, Requests, vars, redisVars, postgresVars, localVars, faultVars
<1>1. ASSUME NEW r \in Requests, BeginCreate(r) \/ Begin(r) \/ Serve(r) \/ Disturb(r)
      PROVE  KindsInv'
  <2>1. CASE BeginCreate(r)
    BY <2>1 DEF BeginCreate
  <2>2. CASE Begin(r)
    BY <2>2 DEF Begin
  <2>3. CASE InsertGame(r)
    BY <2>3 DEF InsertGame
  <2>4. CASE SaveNew(r)
    BY <2>4 DEF SaveNew
  <2>5. CASE TryLock(r)
    BY <2>5 DEF TryLock
  <2>6. CASE LockHeld(r)
    BY <2>6 DEF LockHeld
  <2>7. CASE Load(r)
    BY <2>7 DEF Load
  <2>8. CASE Save(r)
    BY <2>8 DEF Save
  <2>9. CASE SaveConflict(r)
    BY <2>9 DEF SaveConflict
  <2>10. CASE SaveMove(r)
    BY <2>10 DEF SaveMove
  <2>11. CASE PublishEvent(r)
    BY <2>11 DEF PublishEvent
  <2>12. CASE ReleaseLock(r)
    BY <2>12 DEF ReleaseLock
  <2>13. CASE CallFails(r)
    BY <2>13 DEF CallFails, Unwind
  <2>14. CASE Resend(r)
    BY <2>14 DEF Resend
  <2>15. CASE Crash(r)
    BY <2>15 DEF Crash
  <2>16. ASSUME NEW k \in Commands, Arrive(k, r) PROVE KindsInv'
    BY <2>16 DEF Arrive
  <2> QED
    BY <1>1, <2>1, <2>2, <2>3, <2>4, <2>5, <2>6, <2>7, <2>8, <2>9, <2>10, <2>11, <2>12, <2>13, <2>14, <2>15, <2>16
       DEF Serve, Disturb
<1>2. CASE LockLapses
  BY <1>2 DEF LockLapses
<1>3. CASE GameLapses
  BY <1>3 DEF GameLapses
<1>4. CASE UNCHANGED vars
  BY <1>4
<1> QED  BY <1>1, <1>2, <1>3, <1>4 DEF Next, AllDone

\* Nothing is on its way from a request at x that could not be from one at y.
Forward(x, y) == \A k \in Commands : x \in Sent(k) => y \in Sent(k)

\* Where requests can go.
LEMMA ForwardFacts ==
  /\ \A y \in PCs : Forward("idle", y)
  /\ Forward("insert", "new") /\ Forward("new", "done") /\ Forward("lock", "load")
  /\ Forward("lock", "done") /\ Forward("load", "save") /\ Forward("load", "release")
  /\ Forward("save", "ledger") /\ Forward("save", "release") /\ Forward("ledger", "publish")
  /\ Forward("publish", "release") /\ Forward("release", "done")
  BY DEF Forward, Sent, Commands, PCs

\* A request may move on while what it sent is on its way.
LEMMA StraysKept ==
  ASSUME TypeOK, StraysInv, NEW r \in Requests, NEW y, Goto(r, y), Forward(pc[r], y),
         strays' = strays
  PROVE  StraysInv'
  BY DEF TypeOK, StraysInv, Goto, Forward

\* What is on its way was sent by a request that went no way back.
LEMMA StraysStep ==
  ASSUME TypeOK, KindsInv, StraysInv, [Next]_vars
  PROVE  StraysInv'
<1> USE DEF vars, redisVars, postgresVars, localVars, faultVars
<1>1. ASSUME NEW r \in Requests, BeginCreate(r) \/ Begin(r) \/ Serve(r) \/ Disturb(r)
      PROVE  StraysInv'
  <2>1. CASE BeginCreate(r)
    <3>1. pc[r] = "idle" /\ "insert" \in PCs
      BY <2>1 DEF BeginCreate, PCs
    <3> QED  BY <2>1, <3>1, StraysKept, ForwardFacts DEF BeginCreate
  <2>2. CASE Begin(r)
    <3>1. pc[r] = "idle" /\ "lock" \in PCs
      BY <2>2 DEF Begin, PCs
    <3> QED  BY <2>2, <3>1, StraysKept, ForwardFacts DEF Begin
  <2>3. CASE InsertGame(r)
    BY <2>3, StraysKept, ForwardFacts DEF InsertGame
  <2>4. CASE SaveNew(r)
    BY <2>4, StraysKept, ForwardFacts DEF SaveNew
  <2>5. CASE TryLock(r)
    BY <2>5, StraysKept, ForwardFacts DEF TryLock
  <2>6. CASE LockHeld(r)
    <3>1. pc' = pc => StraysInv'
      BY <2>6 DEF LockHeld, StraysInv
    <3> QED  BY <2>6, <3>1, StraysKept, ForwardFacts DEF LockHeld
  <2>7. CASE Load(r)
    <3>1. Goto(r, "save") \/ Goto(r, "release")
      BY <2>7 DEF Load
    <3> QED  BY <2>7, <3>1, StraysKept, ForwardFacts DEF Load
  <2>8. CASE Save(r)
    <3>1. Goto(r, "ledger") \/ Goto(r, "release")
      BY <2>8 DEF Save
    <3> QED  BY <2>8, <3>1, StraysKept, ForwardFacts DEF Save
  <2>9. CASE SaveConflict(r)
    BY <2>9, StraysKept, ForwardFacts DEF SaveConflict
  <2>10. CASE SaveMove(r)
    BY <2>10, StraysKept, ForwardFacts DEF SaveMove
  <2>11. CASE PublishEvent(r)
    BY <2>11, StraysKept, ForwardFacts DEF PublishEvent
  <2>12. CASE ReleaseLock(r)
    BY <2>12, StraysKept, ForwardFacts DEF ReleaseLock
  <2>13. CASE CallFails(r)
    <3>1. \A q \in Requests : q # r => pc'[q] = pc[q]
      BY <2>13 DEF TypeOK, Goto, CallFails, Unwind
    <3>2. \A k \in Commands : pc[r] \in Sent(k) \/ k = pc[r]
                            => pc'[r] \in Sent(k) /\ (k \in {"insert", "new"} => k # pc[r] \/ r \in Creates)
      BY <2>13 DEF TypeOK, KindsInv, Goto, Commands, Sent, PCs, CallFails, Unwind
    <3>3. \A k \in Commands : k = pc[r] /\ r \in Creates => k \in {"insert", "new"}
      BY DEF KindsInv, Commands
    <3>4. strays' = Left(r)
      BY <2>13 DEF CallFails
    <3> QED  BY <3>1, <3>2, <3>3, <3>4, LeftFacts DEF StraysInv
  <2>14. CASE Resend(r)
    <3>1. \A q \in Requests : q # r => pc'[q] = pc[q]
      BY <2>14 DEF TypeOK, Goto, Resend
    <3>2. \A k \in Commands : pc[r] \in Sent(k) \/ k = pc[r]
                            => pc'[r] \in Sent(k) /\ (k \in {"insert", "new"} => k # pc[r] \/ r \in Creates)
      BY <2>14 DEF TypeOK, KindsInv, Goto, Commands, Sent, PCs, Resend
    <3>3. \A k \in Commands : k = pc[r] /\ r \in Creates => k \in {"insert", "new"}
      BY DEF KindsInv, Commands
    <3>4. strays' = Left(r)
      BY <2>14 DEF Resend
    <3> QED  BY <3>1, <3>2, <3>3, <3>4, LeftFacts DEF StraysInv
  <2>15. CASE Crash(r)
    <3>1. \A q \in Requests : q # r => pc'[q] = pc[q]
      BY <2>15 DEF TypeOK, Goto, Crash
    <3>2. \A k \in Commands : pc[r] \in Sent(k) \/ k = pc[r]
                            => pc'[r] \in Sent(k) /\ (k \in {"insert", "new"} => k # pc[r] \/ r \in Creates)
      BY <2>15 DEF TypeOK, KindsInv, Goto, Commands, Sent, PCs, Crash
    <3>3. \A k \in Commands : k = pc[r] /\ r \in Creates => k \in {"insert", "new"}
      BY DEF KindsInv, Commands
    <3>4. strays' = Left(r)
      BY <2>15 DEF Crash
    <3> QED  BY <3>1, <3>2, <3>3, <3>4, LeftFacts DEF StraysInv
  <2>16. ASSUME NEW k \in Commands, Arrive(k, r) PROVE StraysInv'
    BY <2>16 DEF Arrive, StraysInv
  <2> QED
    BY <1>1, <2>1, <2>2, <2>3, <2>4, <2>5, <2>6, <2>7, <2>8, <2>9, <2>10, <2>11, <2>12, <2>13, <2>14, <2>15, <2>16
       DEF Serve, Disturb
<1>2. CASE LockLapses
  BY <1>2 DEF LockLapses, StraysInv
<1>3. CASE GameLapses
  BY <1>3 DEF GameLapses, StraysInv
<1>4. CASE UNCHANGED vars
  BY <1>4 DEF StraysInv
<1> QED  BY <1>1, <1>2, <1>3, <1>4 DEF Next, AllDone

\* A request has its result when it is settled, and not before.
LEMMA OutcomeStep ==
  ASSUME TypeOK, OutcomeInv, [Next]_vars
  PROVE  OutcomeInv'
<1> USE DEF TypeOK, OutcomeInv, Settled, Goto, Result, PCs, vars, redisVars, postgresVars, localVars, faultVars
<1>1. ASSUME NEW r \in Requests, BeginCreate(r) \/ Begin(r) \/ Serve(r) \/ Disturb(r)
      PROVE  OutcomeInv'
  <2>1. CASE BeginCreate(r)
    BY <2>1 DEF BeginCreate
  <2>2. CASE Begin(r)
    BY <2>2 DEF Begin
  <2>3. CASE InsertGame(r)
    BY <2>3 DEF InsertGame
  <2>4. CASE SaveNew(r)
    BY <2>4 DEF SaveNew
  <2>5. CASE TryLock(r)
    BY <2>5 DEF TryLock
  <2>6. CASE LockHeld(r)
    BY <2>6 DEF LockHeld
  <2>7. CASE Load(r)
    BY <2>7 DEF Load, Verdicts
  <2>8. CASE Save(r)
    BY <2>8 DEF Save
  <2>9. CASE SaveConflict(r)
    BY <2>9 DEF SaveConflict
  <2>10. CASE SaveMove(r)
    BY <2>10 DEF SaveMove
  <2>11. CASE PublishEvent(r)
    BY <2>11 DEF PublishEvent
  <2>12. CASE ReleaseLock(r)
    BY <2>12 DEF ReleaseLock
  <2>13. CASE CallFails(r)
    BY <2>13 DEF CallFails, Unwind
  <2>14. CASE Resend(r)
    BY <2>14 DEF Resend
  <2>15. CASE Crash(r)
    BY <2>15 DEF Crash
  <2>16. ASSUME NEW k \in Commands, Arrive(k, r) PROVE OutcomeInv'
    BY <2>16 DEF Arrive
  <2> QED
    BY <1>1, <2>1, <2>2, <2>3, <2>4, <2>5, <2>6, <2>7, <2>8, <2>9, <2>10, <2>11, <2>12, <2>13, <2>14, <2>15, <2>16
       DEF Serve, Disturb
<1>2. CASE LockLapses
  BY <1>2 DEF LockLapses
<1>3. CASE GameLapses
  BY <1>3 DEF GameLapses
<1>4. CASE UNCHANGED vars
  BY <1>4
<1> QED  BY <1>1, <1>2, <1>3, <1>4 DEF Next, AllDone

\* What a step can do to the stored game and the history: nothing, lose the
\* game, save on behalf of a request, or store the new game.
StoreStep ==
  \/ UNCHANGED <<game, committed>>
  \/ game' = NoGame /\ UNCHANGED committed /\ \A r \in Requests : ~Pending("new", r)'
  \/ \E r \in Requests : Pending("save", r) /\ Commit(r)
  \/ \E r \in Requests : Pending("new", r) /\ StoreNew /\ UNCHANGED committed

\* What a step can do to the copy a request works with: it is loaded on the way
\* to a save, kept from the save on, and the request's own save comes next.
CopyStep ==
  \A q \in Requests :
    /\ Pending("save", q)' =>
         \/ Pending("save", q) /\ loaded'[q] = loaded[q]
         \/ /\ pc[q] = "load" /\ game # NoGame /\ loaded'[q] = game
            /\ UNCHANGED <<game, committed>>
    /\ Unwritten(q)' =>
         loaded'[q] = loaded[q] /\ (Unwritten(q) \/ (pc[q] = "save" /\ Commit(q)))

\* What a step can do to the ledger and the events: the command of a request
\* past its save adds its entry.
LogStep ==
  /\ \/ UNCHANGED ledger
     \/ \E q \in Requests : Pending("ledger", q) /\ ledger' = Append(ledger, Entry(q))
  /\ \/ UNCHANGED events
     \/ \E q \in Requests : Pending("publish", q) /\ events' = Append(events, Entry(q))

\* Requests only go forward.
ForwardStep ==
  \A q \in Requests :
    /\ pc'[q] \in Unloaded => pc[q] \in Unloaded
    /\ pc'[q] \in {"idle", "insert"} => pc[q] \in {"idle", "insert"}
    /\ Pending("new", q)' => Pending("new", q) \/ pc[q] = "insert"

\* Every step treats the stored game so.
LEMMA StoreSteps ==
  ASSUME TypeOK, KindsInv, StraysInv, [Next]_vars
  PROVE  StoreStep
<1> USE DEF TypeOK, Goto, StoreStep, Pending, Commands, vars, redisVars, postgresVars, localVars, faultVars
<1>1. ASSUME NEW r \in Requests, BeginCreate(r) \/ Begin(r) \/ Serve(r) \/ Disturb(r)
      PROVE  StoreStep
  <2>1. CASE BeginCreate(r)
    BY <2>1 DEF BeginCreate
  <2>2. CASE Begin(r)
    BY <2>2 DEF Begin
  <2>3. CASE InsertGame(r)
    BY <2>3 DEF InsertGame
  <2>4. CASE SaveNew(r)
    BY <2>4 DEF SaveNew
  <2>5. CASE TryLock(r)
    BY <2>5 DEF TryLock
  <2>6. CASE LockHeld(r)
    BY <2>6 DEF LockHeld
  <2>7. CASE Load(r)
    BY <2>7 DEF Load
  <2>8. CASE Save(r)
    BY <2>8 DEF Save
  <2>9. CASE SaveConflict(r)
    BY <2>9 DEF SaveConflict
  <2>10. CASE SaveMove(r)
    BY <2>10 DEF SaveMove
  <2>11. CASE PublishEvent(r)
    BY <2>11 DEF PublishEvent
  <2>12. CASE ReleaseLock(r)
    BY <2>12 DEF ReleaseLock
  <2>13. CASE CallFails(r)
    BY <2>13 DEF CallFails
  <2>14. CASE Resend(r)
    BY <2>14 DEF Resend
  <2>15. CASE Crash(r)
    BY <2>15 DEF Crash
  <2>16. ASSUME NEW k \in Commands, Arrive(k, r) PROVE StoreStep
    BY <2>16 DEF Arrive
  <2> QED
    BY <1>1, <2>1, <2>2, <2>3, <2>4, <2>5, <2>6, <2>7, <2>8, <2>9, <2>10, <2>11, <2>12, <2>13, <2>14, <2>15, <2>16
       DEF Serve, Disturb
<1>2. CASE LockLapses
  BY <1>2 DEF LockLapses
<1>3. CASE GameLapses
  BY <1>3 DEF GameLapses, KindsInv, StraysInv
<1>4. CASE UNCHANGED vars
  BY <1>4
<1> QED  BY <1>1, <1>2, <1>3, <1>4 DEF Next, AllDone

\* A command that is left on its way was pending before.
LEMMA NothingNew ==
  ASSUME TypeOK, NEW r \in Requests, strays' = Left(r), UNCHANGED <<loaded, committed>>,
         \A q \in Requests, k \in {"save", "ledger", "publish"} : pc'[q] = k => pc[q] = k
  PROVE  CopyStep
<1>1. \A q \in Requests, k \in {"save", "ledger", "publish"} : Pending(k, q)' => Pending(k, q)
  BY LeftFacts DEF Pending
<1> QED  BY <1>1 DEF CopyStep, Unwritten

\* Every step treats the copies so.
LEMMA CopySteps ==
  ASSUME TypeOK, KindsInv, StraysInv, [Next]_vars
  PROVE  CopyStep
<1> USE DEF TypeOK, Goto, CopyStep, Pending, Unwritten, StraysInv, Sent, Commands, PCs, vars, redisVars, postgresVars, localVars, faultVars
<1>1. ASSUME NEW r \in Requests, BeginCreate(r) \/ Begin(r) \/ Serve(r) \/ Disturb(r)
      PROVE  CopyStep
  <2>1. CASE BeginCreate(r)
    BY <2>1 DEF BeginCreate
  <2>2. CASE Begin(r)
    BY <2>2 DEF Begin
  <2>3. CASE InsertGame(r)
    BY <2>3 DEF InsertGame
  <2>4. CASE SaveNew(r)
    BY <2>4 DEF SaveNew
  <2>5. CASE TryLock(r)
    BY <2>5 DEF TryLock
  <2>6. CASE LockHeld(r)
    BY <2>6 DEF LockHeld
  <2>7. CASE Load(r)
    <3>1. /\ pc[r] = "load" /\ UNCHANGED <<strays, game, committed>>
          /\ \A q \in Requests \ {r} : pc'[q] = pc[q] /\ loaded'[q] = loaded[q]
      BY <2>7 DEF Load
    <3>2. CASE game = NoGame
      <4>1. pc'[r] = "release" /\ loaded'[r] = loaded[r]
        BY <2>7, <3>2 DEF Load
      <4> QED  BY <3>1, <4>1
    <3>3. CASE game # NoGame
      <4>1. pc'[r] \in {"save", "release"} /\ loaded'[r] = game
        BY <2>7, <3>3 DEF Load
      <4> QED  BY <3>1, <3>3, <4>1
    <3> QED  BY <3>2, <3>3
  <2>8. CASE Save(r)
    BY <2>8 DEF Save
  <2>9. CASE SaveConflict(r)
    BY <2>9 DEF SaveConflict
  <2>10. CASE SaveMove(r)
    BY <2>10 DEF SaveMove
  <2>11. CASE PublishEvent(r)
    BY <2>11 DEF PublishEvent
  <2>12. CASE ReleaseLock(r)
    BY <2>12 DEF ReleaseLock
  <2>13. CASE CallFails(r)
    <3>1. strays' = Left(r) /\ UNCHANGED <<loaded, committed>>
      BY <2>13 DEF CallFails
    <3>2. \A q \in Requests, k \in {"save", "ledger", "publish"} : pc'[q] = k => pc[q] = k
      BY <2>13 DEF CallFails, Unwind
    <3> QED  BY <3>1, <3>2, NothingNew
  <2>14. CASE Resend(r)
    <3>1. strays' = Left(r) /\ UNCHANGED <<loaded, committed>>
      BY <2>14 DEF Resend
    <3>2. \A q \in Requests, k \in {"save", "ledger", "publish"} : pc'[q] = k => pc[q] = k
      BY <2>14 DEF Resend
    <3> QED  BY <3>1, <3>2, NothingNew
  <2>15. CASE Crash(r)
    <3>1. strays' = Left(r) /\ UNCHANGED <<loaded, committed>>
      BY <2>15 DEF Crash
    <3>2. \A q \in Requests, k \in {"save", "ledger", "publish"} : pc'[q] = k => pc[q] = k
      BY <2>15 DEF Crash
    <3> QED  BY <3>1, <3>2, NothingNew
  <2>16. ASSUME NEW k \in Commands, Arrive(k, r) PROVE CopyStep
    BY <2>16 DEF Arrive
  <2> QED
    BY <1>1, <2>1, <2>2, <2>3, <2>4, <2>5, <2>6, <2>7, <2>8, <2>9, <2>10, <2>11, <2>12, <2>13, <2>14, <2>15, <2>16
       DEF Serve, Disturb
<1>2. CASE LockLapses
  BY <1>2 DEF LockLapses
<1>3. CASE GameLapses
  BY <1>3 DEF GameLapses
<1>4. CASE UNCHANGED vars
  BY <1>4
<1> QED  BY <1>1, <1>2, <1>3, <1>4 DEF Next, AllDone

\* Every step treats the logs so.
LEMMA LogSteps ==
  ASSUME TypeOK, KindsInv, StraysInv, [Next]_vars
  PROVE  LogStep
<1> USE DEF TypeOK, LogStep, Pending, vars, redisVars, postgresVars, localVars, faultVars
<1>1. ASSUME NEW r \in Requests, BeginCreate(r) \/ Begin(r) \/ Serve(r) \/ Disturb(r)
      PROVE  LogStep
  <2>1. CASE BeginCreate(r)
    BY <2>1 DEF BeginCreate
  <2>2. CASE Begin(r)
    BY <2>2 DEF Begin
  <2>3. CASE InsertGame(r)
    BY <2>3 DEF InsertGame
  <2>4. CASE SaveNew(r)
    BY <2>4 DEF SaveNew
  <2>5. CASE TryLock(r)
    BY <2>5 DEF TryLock
  <2>6. CASE LockHeld(r)
    BY <2>6 DEF LockHeld
  <2>7. CASE Load(r)
    BY <2>7 DEF Load
  <2>8. CASE Save(r)
    BY <2>8 DEF Save
  <2>9. CASE SaveConflict(r)
    BY <2>9 DEF SaveConflict
  <2>10. CASE SaveMove(r)
    BY <2>10 DEF SaveMove
  <2>11. CASE PublishEvent(r)
    BY <2>11 DEF PublishEvent
  <2>12. CASE ReleaseLock(r)
    BY <2>12 DEF ReleaseLock
  <2>13. CASE CallFails(r)
    BY <2>13 DEF CallFails
  <2>14. CASE Resend(r)
    BY <2>14 DEF Resend
  <2>15. CASE Crash(r)
    BY <2>15 DEF Crash
  <2>16. ASSUME NEW k \in Commands, Arrive(k, r) PROVE LogStep
    BY <2>16 DEF Arrive
  <2> QED
    BY <1>1, <2>1, <2>2, <2>3, <2>4, <2>5, <2>6, <2>7, <2>8, <2>9, <2>10, <2>11, <2>12, <2>13, <2>14, <2>15, <2>16
       DEF Serve, Disturb
<1>2. CASE LockLapses
  BY <1>2 DEF LockLapses
<1>3. CASE GameLapses
  BY <1>3 DEF GameLapses
<1>4. CASE UNCHANGED vars
  BY <1>4
<1> QED  BY <1>1, <1>2, <1>3, <1>4 DEF Next, AllDone

\* Every step takes the requests forward.
LEMMA ForwardSteps ==
  ASSUME TypeOK, KindsInv, StraysInv, [Next]_vars
  PROVE  ForwardStep
<1> USE DEF TypeOK, Goto, ForwardStep, Unloaded, Pending, Commands, PCs, vars, redisVars, postgresVars, localVars, faultVars
<1>1. ASSUME NEW r \in Requests, BeginCreate(r) \/ Begin(r) \/ Serve(r) \/ Disturb(r)
      PROVE  ForwardStep
  <2>1. CASE BeginCreate(r)
    BY <2>1 DEF BeginCreate
  <2>2. CASE Begin(r)
    BY <2>2 DEF Begin
  <2>3. CASE InsertGame(r)
    BY <2>3 DEF InsertGame
  <2>4. CASE SaveNew(r)
    BY <2>4 DEF SaveNew
  <2>5. CASE TryLock(r)
    BY <2>5 DEF TryLock
  <2>6. CASE LockHeld(r)
    BY <2>6 DEF LockHeld
  <2>7. CASE Load(r)
    BY <2>7 DEF Load
  <2>8. CASE Save(r)
    BY <2>8 DEF Save
  <2>9. CASE SaveConflict(r)
    BY <2>9 DEF SaveConflict
  <2>10. CASE SaveMove(r)
    BY <2>10 DEF SaveMove
  <2>11. CASE PublishEvent(r)
    BY <2>11 DEF PublishEvent
  <2>12. CASE ReleaseLock(r)
    BY <2>12 DEF ReleaseLock
  <2>13. CASE CallFails(r)
    BY <2>13, LeftFacts DEF CallFails, Unwind
  <2>14. CASE Resend(r)
    BY <2>14, LeftFacts DEF Resend
  <2>15. CASE Crash(r)
    BY <2>15, LeftFacts DEF Crash
  <2>16. ASSUME NEW k \in Commands, Arrive(k, r) PROVE ForwardStep
    BY <2>16 DEF Arrive
  <2> QED
    BY <1>1, <2>1, <2>2, <2>3, <2>4, <2>5, <2>6, <2>7, <2>8, <2>9, <2>10, <2>11, <2>12, <2>13, <2>14, <2>15, <2>16
       DEF Serve, Disturb
<1>2. CASE LockLapses
  BY <1>2 DEF LockLapses
<1>3. CASE GameLapses
  BY <1>3 DEF GameLapses
<1>4. CASE UNCHANGED vars
  BY <1>4
<1> QED  BY <1>1, <1>2, <1>3, <1>4 DEF Next, AllDone

\* No release that is given or arrives takes away the lock of another.
OwnRelease == \A r \in Requests : Releases(r) /\ lock # r => lock' = lock

\* Every step releases so.
LEMMA OwnReleases ==
  ASSUME TypeOK, KindsInv, StraysInv, [Next]_vars
  PROVE  OwnRelease
<1> USE DEF TypeOK, Goto, OwnRelease, Releases, StraysInv, Sent, Commands, vars, redisVars, postgresVars, localVars, faultVars
<1>1. ASSUME NEW r \in Requests, BeginCreate(r) \/ Begin(r) \/ Serve(r) \/ Disturb(r)
      PROVE  OwnRelease
  <2>1. CASE BeginCreate(r)
    BY <2>1 DEF BeginCreate
  <2>2. CASE Begin(r)
    BY <2>2 DEF Begin
  <2>3. CASE InsertGame(r)
    BY <2>3 DEF InsertGame
  <2>4. CASE SaveNew(r)
    BY <2>4 DEF SaveNew
  <2>5. CASE TryLock(r)
    BY <2>5 DEF TryLock
  <2>6. CASE LockHeld(r)
    BY <2>6 DEF LockHeld
  <2>7. CASE Load(r)
    BY <2>7 DEF Load
  <2>8. CASE Save(r)
    BY <2>8 DEF Save
  <2>9. CASE SaveConflict(r)
    BY <2>9 DEF SaveConflict
  <2>10. CASE SaveMove(r)
    BY <2>10 DEF SaveMove
  <2>11. CASE PublishEvent(r)
    BY <2>11 DEF PublishEvent
  <2>12. CASE ReleaseLock(r)
    BY <2>12 DEF ReleaseLock, Released
  <2>13. CASE CallFails(r)
    BY <2>13, LeftFacts DEF CallFails, Unwind
  <2>14. CASE Resend(r)
    BY <2>14, LeftFacts DEF Resend
  <2>15. CASE Crash(r)
    BY <2>15, LeftFacts DEF Crash
  <2>16. ASSUME NEW k \in Commands, Arrive(k, r) PROVE OwnRelease
    BY <2>16 DEF Arrive, Released
  <2> QED
    BY <1>1, <2>1, <2>2, <2>3, <2>4, <2>5, <2>6, <2>7, <2>8, <2>9, <2>10, <2>11, <2>12, <2>13, <2>14, <2>15, <2>16
       DEF Serve, Disturb
<1>2. CASE LockLapses
  BY <1>2 DEF LockLapses
<1>3. CASE GameLapses
  BY <1>3 DEF GameLapses
<1>4. CASE UNCHANGED vars
  BY <1>4
<1> QED  BY <1>1, <1>2, <1>3, <1>4 DEF Next, AllDone

----------------------------------------------------------------------------

\* A save that succeeds found the version it had loaded, and no save is missing
\* from its copy; its request is not in the history yet.
LEMMA CommitFacts ==
  ASSUME TypeOK, NoLostUpdate, LoadedInv, NEW r \in Requests, Pending("save", r), Commit(r)
  PROVE  /\ game # NoGame
         /\ loaded[r].version = Len(committed) + 1
         /\ loaded[r].ops = committed
         /\ game' = After(r, loaded[r])
         /\ committed' = Append(committed, r)
<1>1. loaded[r].version >= 1
  BY DEF LoadedInv, TypeOK
<1>2. game # NoGame /\ game.version = loaded[r].version
  BY <1>1 DEF Commit, CasMatches
<1> QED  BY <1>2 DEF Commit, NoLostUpdate, LoadedInv

\* Only a creator's request is pending to store the new game.
LEMMA NewIsCreate ==
  ASSUME KindsInv, StraysInv, NEW r \in Requests, Pending("new", r)
  PROVE  r \in Creates
  BY DEF Pending, KindsInv, StraysInv, Commands

\* The history only grows.
LEMMA HistoryGrows ==
  ASSUME TypeOK, StoreStep
  PROVE  /\ committed' \in Seq(Requests)
         /\ Len(committed') \in {Len(committed), Len(committed) + 1}
         /\ \A i \in DOMAIN committed : i \in DOMAIN committed' /\ committed'[i] = committed[i]
<1>1. committed \in Seq(Requests)
  BY DEF TypeOK
<1>2. CASE committed' = committed
  BY <1>1, <1>2
<1>3. ASSUME NEW r \in Requests, committed' = Append(committed, r)
      PROVE  /\ committed' \in Seq(Requests)
             /\ Len(committed') = Len(committed) + 1
             /\ \A i \in DOMAIN committed : i \in DOMAIN committed' /\ committed'[i] = committed[i]
  BY <1>1, <1>3
<1> QED  BY <1>1, <1>2, <1>3 DEF StoreStep, Commit

\* A commit adds one request to those that have taken effect.
LEMMA TakenGrows ==
  ASSUME TypeOK, NEW r \in Requests, committed' = Append(committed, r)
  PROVE  Taken' = Taken \cup {r}
<1>1. committed \in Seq(Requests)
  BY DEF TypeOK
<1>2. DOMAIN committed = 1..Len(committed) /\ DOMAIN committed' = 1..(Len(committed) + 1)
  BY <1>1
<1>3. \A i \in DOMAIN committed' : committed'[i] = IF i \in DOMAIN committed THEN committed[i] ELSE r
  BY <1>1
<1> QED  BY <1>1, <1>2, <1>3 DEF Taken

\* Nothing is stored or committed until the creation is sent to the store.
LEMMA CreateStep ==
  ASSUME IInv, StoreStep, ForwardStep
  PROVE  CreateInv'
<1> SUFFICES ASSUME \A r \in Creates : pc'[r] \in {"idle", "insert"}
             PROVE  game' = NoGame /\ committed' = <<>>
  BY DEF CreateInv
<1>1. \A r \in Creates : pc[r] \in {"idle", "insert"}
  BY DEF ForwardStep, Requests
<1>2. game = NoGame /\ committed = <<>>
  BY <1>1 DEF IInv, CreateInv
<1>3. ~\E r \in Requests : Pending("save", r) /\ Commit(r)
  BY <1>2, CommitFacts DEF IInv
<1>4. ~\E r \in Requests : Pending("new", r)
  <2> SUFFICES ASSUME NEW r \in Requests, Pending("new", r) PROVE FALSE
    OBVIOUS
  <2>1. r \in Creates
    BY NewIsCreate DEF IInv
  <2> QED  BY <1>1, <2>1 DEF IInv, Pending, StraysInv, Commands, Sent
<1> QED  BY <1>2, <1>3, <1>4 DEF StoreStep

\* The new game stays the first: the game does not run out while it is on its way.
LEMMA NewFirstStep ==
  ASSUME IInv, StoreStep, ForwardStep
  PROVE  NewFirst'
<1> SUFFICES ASSUME NEW r \in Requests, Pending("new", r)', game' = NoGame
             PROVE  committed' = <<>>
  BY DEF NewFirst
<1>1. \A q \in Requests : Pending("save", q) /\ Commit(q) => game' # NoGame
  <2>1. \A q \in Requests : After(q, loaded[q]) \in Game
    BY AfterType DEF IInv, TypeOK
  <2>2. \A q \in Requests : Commit(q) => game' = After(q, loaded[q])
    BY DEF Commit
  <2> QED  BY <2>1, <2>2, NoGameAssumption
<1>2. UNCHANGED <<game, committed>> \/ (StoreNew /\ UNCHANGED committed)
  BY <1>1 DEF StoreStep, Pending
<1>3. committed' = committed /\ game = NoGame
  <2>1. NewGame \in Game
    BY DEF NewGame, Game
  <2> QED  BY <1>2, <2>1, NoGameAssumption DEF StoreNew
<1>4. CASE Pending("new", r)
  BY <1>2, <1>3, <1>4 DEF IInv, NewFirst
<1>5. CASE pc[r] = "insert"
  <2>1. \A q \in Creates : pc[q] \in {"idle", "insert"}
    BY <1>5 DEF IInv, KindsInv, Requests
  <2> QED  BY <1>2, <2>1 DEF IInv, CreateInv
<1> QED  BY <1>4, <1>5 DEF ForwardStep

\* A save keeps the stored game and the history in agreement.
LEMMA NoLostUpdateStep ==
  ASSUME IInv, StoreStep
  PROVE  NoLostUpdate'
<1>1. CASE UNCHANGED <<game, committed>>
  BY <1>1 DEF IInv, NoLostUpdate
<1>2. CASE game' = NoGame
  BY <1>2 DEF NoLostUpdate
<1>3. ASSUME NEW r \in Requests, Pending("save", r), Commit(r)
      PROVE  NoLostUpdate'
  <2>1. /\ game'.ops = Append(loaded[r].ops, r)
        /\ game'.version = loaded[r].version + 1
    BY <1>3, CommitFacts DEF IInv, After
  <2>2. /\ game'.ops = Append(committed, r) /\ committed' = Append(committed, r)
        /\ game'.version = Len(committed) + 2
    <3>1. TypeOK /\ NoLostUpdate /\ LoadedInv
      BY DEF IInv
    <3>2. /\ loaded[r].version = Len(committed) + 1 /\ loaded[r].ops = committed
          /\ committed' = Append(committed, r)
      BY <1>3, <3>1, CommitFacts
    <3>3. Len(committed) \in Nat
      BY <3>1 DEF TypeOK
    <3> QED  BY <2>1, <3>2, <3>3
  <2>3. Len(Append(committed, r)) = Len(committed) + 1
    BY DEF IInv, TypeOK
  <2> QED  BY <2>2, <2>3 DEF NoLostUpdate
<1>4. ASSUME NEW r \in Requests, Pending("new", r), StoreNew, UNCHANGED committed
      PROVE  NoLostUpdate'
  BY <1>4 DEF IInv, NewFirst, StoreNew, CasMatches, NewGame, NoLostUpdate
<1> QED  BY <1>1, <1>2, <1>3, <1>4 DEF StoreStep

\* A loaded copy stays one that was current when it was loaded, or is out of date.
LEMMA LoadedStep ==
  ASSUME IInv, StoreStep, CopyStep
  PROVE  LoadedInv'
<1> SUFFICES ASSUME NEW q \in Requests, Pending("save", q)'
             PROVE  /\ loaded'[q].version \in 1..(Len(committed') + 1)
                    /\ loaded'[q].version = Len(committed') + 1
                         => loaded'[q].ops = committed'
  BY DEF LoadedInv
<1>1. committed \in Seq(Requests) /\ committed' \in Seq(Requests)
  BY HistoryGrows DEF IInv, TypeOK
<1>2. CASE Pending("save", q) /\ loaded'[q] = loaded[q]
  <2>1. /\ loaded[q].version \in 1..(Len(committed) + 1)
        /\ loaded[q].version = Len(committed) + 1 => loaded[q].ops = committed
    BY <1>2 DEF IInv, LoadedInv
  <2>2. committed' = committed \/ Len(committed') = Len(committed) + 1
    BY <1>1 DEF StoreStep, Commit
  <2> QED  BY <1>1, <1>2, <2>1, <2>2
<1>3. CASE game # NoGame /\ loaded'[q] = game /\ UNCHANGED <<game, committed>>
  BY <1>1, <1>3 DEF IInv, NoLostUpdate
<1> QED  BY <1>2, <1>3 DEF CopyStep

\* Once saved, a request keeps its place in the history.
LEMMA SavedStep ==
  ASSUME IInv, StoreStep, CopyStep
  PROVE  SavedInv'
<1> SUFFICES ASSUME NEW q \in Requests, Unwritten(q)'
             PROVE  /\ loaded'[q].version \in DOMAIN committed'
                    /\ committed'[loaded'[q].version] = q
  BY DEF SavedInv
<1>1. CASE Unwritten(q)
  <2>1. loaded[q].version \in DOMAIN committed /\ committed[loaded[q].version] = q
    BY <1>1 DEF IInv, SavedInv
  <2> QED  BY <2>1, HistoryGrows DEF IInv, CopyStep
<1>2. CASE pc[q] = "save" /\ Commit(q)
  <2>1. loaded[q].version = Len(committed) + 1 /\ committed' = Append(committed, q)
    BY <1>2, CommitFacts DEF IInv, Pending
  <2>2. committed \in Seq(Requests)
    BY DEF IInv, TypeOK
  <2> QED  BY <2>1, <2>2 DEF CopyStep
<1> QED  BY <1>1, <1>2 DEF CopyStep

\* An entry of the ledger or of the events names the request that made its
\* version of the history h.
Honest(e, h) == e.version - 1 \in DOMAIN h /\ h[e.version - 1] = e.req

\* What was honest stays so, and what is added late or in time is honest.
LEMMA HonestGrows ==
  ASSUME IInv, StoreStep, NEW log \in Seq([req : Requests, version : Nat]),
         NEW newLog, \A i \in DOMAIN log : Honest(log[i], committed),
         \/ newLog = log
         \/ \E q \in Requests : Unwritten(q) /\ newLog = Append(log, Entry(q))
  PROVE  \A i \in DOMAIN newLog : Honest(newLog[i], committed')
<1>1. ASSUME NEW e, Honest(e, committed) PROVE Honest(e, committed')
  BY <1>1, HistoryGrows DEF IInv, Honest
<1>2. CASE newLog = log
  BY <1>1, <1>2
<1>3. ASSUME NEW q \in Requests, Unwritten(q), newLog = Append(log, Entry(q))
      PROVE  \A i \in DOMAIN newLog : Honest(newLog[i], committed')
  <2>1. loaded[q].version \in Nat
    BY DEF IInv, TypeOK, Game
  <2>2. Honest(Entry(q), committed)
    BY <1>3, <2>1 DEF IInv, SavedInv, Honest, Entry
  <2>3. DOMAIN newLog = 1..(Len(log) + 1) /\ DOMAIN log = 1..Len(log)
    BY <1>3
  <2>4. \A i \in DOMAIN newLog : newLog[i] = IF i \in DOMAIN log THEN log[i] ELSE Entry(q)
    BY <1>3
  <2> QED  BY <1>1, <2>2, <2>4
<1> QED  BY <1>2, <1>3

\* What is written to the ledger and published names the right version.
LEMMA VersionsAgreeStep ==
  ASSUME IInv, StoreStep, LogStep
  PROVE  VersionsAgree'
<1>1. ledger \in Seq([req : Requests, version : Nat]) /\ events \in Seq([req : Requests, version : Nat])
  BY DEF IInv, TypeOK
<1>2. /\ \A i \in DOMAIN ledger : Honest(ledger[i], committed)
      /\ \A i \in DOMAIN events : Honest(events[i], committed)
  BY DEF IInv, VersionsAgree, Honest
<1>3. \A i \in DOMAIN ledger' : Honest(ledger'[i], committed')
  BY <1>1, <1>2, HonestGrows DEF LogStep, Unwritten
<1>4. \A i \in DOMAIN events' : Honest(events'[i], committed')
  BY <1>1, <1>2, HonestGrows DEF LogStep, Unwritten
<1> QED  BY <1>3, <1>4 DEF VersionsAgree, Honest

\* A commit is the first of its request.
LEMMA CommitIsFirst ==
  ASSUME IInv, NEW r \in Requests, Pending("save", r), Commit(r)
  PROVE  r \notin Taken
<1>1. loaded[r].version = Len(committed) + 1 /\ Len(committed) \in Nat
  BY CommitFacts DEF IInv, TypeOK
<1> QED  BY <1>1 DEF IInv, OnceInv

\* A request that is in the history already saves no more.
LEMMA OnceStep ==
  ASSUME IInv, StoreStep, CopyStep, ForwardStep
  PROVE  OnceInv'
<1>1. committed \in Seq(Requests) /\ Len(committed) \in Nat /\ OnceInv
  BY DEF IInv, TypeOK
<1>2. CASE committed' = committed
  <2>1. \A q \in Requests : pc[q] = "load" => q \notin Taken
    BY <1>1 DEF OnceInv, Unloaded
  <2> QED  BY <1>1, <1>2, <2>1 DEF OnceInv, SavedOnce, Taken, ForwardStep, CopyStep
<1>3. ASSUME NEW r \in Requests, Pending("save", r), Commit(r)
      PROVE  OnceInv'
  <2>1. loaded[r].version = Len(committed) + 1 /\ committed' = Append(committed, r)
    BY <1>3, CommitFacts DEF IInv
  <2>2. r \notin Taken
    BY <1>3, CommitIsFirst
  <2>3. Taken' = Taken \cup {r}
    BY <2>1, TakenGrows DEF IInv
  <2>4. SavedOnce'
    <3>1. /\ DOMAIN committed' = 1..(Len(committed) + 1)
          /\ DOMAIN committed = 1..Len(committed)
          /\ committed'[Len(committed) + 1] = r
          /\ \A i \in DOMAIN committed : committed'[i] = committed[i] /\ committed'[i] # r
      BY <1>1, <2>1, <2>2 DEF Taken
    <3>2. \A i \in DOMAIN committed' : i \in DOMAIN committed \/ i = Len(committed) + 1
      BY <1>1, <3>1
    <3>3. \A i, j \in DOMAIN committed : committed[i] = committed[j] => i = j
      BY <1>1 DEF OnceInv, SavedOnce
    <3> QED  BY <3>1, <3>2, <3>3 DEF SavedOnce
  <2>5. pc[r] \notin Unloaded
    BY <1>3 DEF IInv, Pending, StraysInv, Commands, Sent, Unloaded
  <2>6. ASSUME NEW q \in Requests, pc'[q] \in Unloaded PROVE q \notin Taken'
    BY <1>1, <2>3, <2>5, <2>6 DEF OnceInv, ForwardStep
  <2>7. ASSUME NEW q \in Requests, Pending("save", q)', q \in Taken'
        PROVE  loaded'[q].version <= Len(committed')
    <3>1. Len(committed') = Len(committed) + 1
      BY <1>1, <2>1
    <3>2. loaded[q].version \in Nat
      BY DEF IInv, TypeOK, Game
    <3>3. Pending("save", q) /\ loaded'[q] = loaded[q]
      <4>1. committed' # committed
        BY <1>1, <3>1
      <4> QED  BY <2>7, <4>1 DEF CopyStep
    <3>4. CASE q = r
      BY <2>1, <3>1, <3>3, <3>4
    <3>5. CASE q # r
      <4>1. loaded[q].version <= Len(committed)
        BY <1>1, <2>3, <2>7, <3>3, <3>5 DEF OnceInv
      <4> QED  BY <1>1, <3>1, <3>2, <3>3, <4>1
    <3> QED  BY <3>4, <3>5
  <2> QED  BY <2>4, <2>6, <2>7 DEF OnceInv
<1> QED  BY <1>2, <1>3 DEF StoreStep

----------------------------------------------------------------------------

\* The invariant holds to begin with.
LEMMA InitInv == Init => IInv
<1> SUFFICES ASSUME Init PROVE IInv
  OBVIOUS
<1> USE RequestsAssumption, BoundsAssumption DEF Init
<1>1. TypeOK
  <2>1. NewGame \in Game
    BY DEF NewGame, Game
  <2>2. /\ pc \in [Requests -> PCs] /\ outcome \in [Requests -> Outcomes]
        /\ attempts \in [Requests -> 0..(MaxRetries + 1)]
        /\ clientVersion \in [Requests -> Nat] /\ loaded \in [Requests -> Game]
    BY <2>1 DEF PCs, Outcomes
  <2>3. /\ game \in Game \cup {NoGame} /\ lock \in Requests \cup {Free} /\ row \in BOOLEAN
        /\ strays \subseteq Commands \X Requests
        /\ faults \in Nat /\ lapses \in Nat /\ gameLapses \in Nat
    OBVIOUS
  <2>4. events = <<>> /\ ledger = <<>> /\ committed = <<>>
    OBVIOUS
  <2>5. \A S : <<>> \in Seq(S)
    OBVIOUS
  <2> QED  BY <2>2, <2>3, <2>4, <2>5 DEF TypeOK
<1>2. AttemptsInv /\ KindsInv /\ CreateInv /\ OutcomeInv
  BY DEF AttemptsInv, KindsInv, CreateInv, OutcomeInv, Settled, Requests
<1>3. StraysInv /\ NewFirst
  BY DEF StraysInv, NewFirst
<1>4. \A k \in Commands, r \in Requests : ~Pending(k, r)
  BY DEF Pending, Commands
<1>5. LoadedInv /\ SavedInv
  BY <1>4 DEF LoadedInv, SavedInv, Unwritten, Commands
<1>6. NoLostUpdate /\ VersionsAgree
  BY DEF NoLostUpdate, VersionsAgree
<1>7. OnceInv
  <2>1. committed = <<>>
    OBVIOUS
  <2> QED  BY <2>1 DEF OnceInv, SavedOnce, Taken
<1> QED  BY <1>1, <1>2, <1>3, <1>5, <1>6, <1>7 DEF IInv

\* Every step keeps the invariant.
LEMMA NextInv == IInv /\ [Next]_vars => IInv'
<1> SUFFICES ASSUME IInv, [Next]_vars PROVE IInv'
  OBVIOUS
<1>1. StoreStep /\ CopyStep /\ LogStep /\ ForwardStep
  BY StoreSteps, CopySteps, LogSteps, ForwardSteps DEF IInv
<1>2. TypeOK' /\ AttemptsInv' /\ KindsInv' /\ StraysInv' /\ OutcomeInv'
  BY TypeStep, AttemptsStep, KindsStep, StraysStep, OutcomeStep DEF IInv
<1>3. CreateInv' /\ NewFirst' /\ NoLostUpdate' /\ LoadedInv'
  BY <1>1, CreateStep, NewFirstStep, NoLostUpdateStep, LoadedStep
<1>4. SavedInv' /\ VersionsAgree' /\ OnceInv'
  BY <1>1, SavedStep, VersionsAgreeStep, OnceStep
<1> QED  BY <1>2, <1>3, <1>4 DEF IInv

\* The inductive invariant holds of every state the service can reach.
THEOREM Invariance == Spec => []IInv
<1>1. Init => IInv
  BY InitInv
<1>2. IInv /\ [Next]_vars => IInv'
  BY NextInv
<1> QED  BY <1>1, <1>2, PTL DEF Spec

\* Every variable of the service keeps its type, whatever fails when.
THEOREM TypeCorrect == Spec => []TypeOK
<1>1. IInv => TypeOK
  BY DEF IInv
<1> QED  BY <1>1, Invariance, PTL

\* The compare-and-swap of saveScript loses no update, however often the lock
\* runs out, whatever calls fail and whichever commands are sent again or come
\* late: the stored game has the effect of every save that succeeded, in order,
\* and its version counts them.
THEOREM NoUpdateIsLost == Spec => []NoLostUpdate
<1>1. IInv => NoLostUpdate
  BY DEF IInv
<1> QED  BY <1>1, Invariance, PTL

\* Every row that SaveMove writes and every event that is published, in time or
\* late, carries the version its own request made.
THEOREM LogsAreHonest == Spec => []VersionsAgree
<1>1. IInv => VersionsAgree
  BY DEF IInv
<1> QED  BY <1>1, Invariance, PTL

\* Redis may be told twice to save: the second run of a save finds the version
\* that the first one wrote, or no game at all, so every request is committed at
\* most once.
THEOREM SavesTakeEffectOnce == Spec => []SavedOnce
<1>1. IInv => SavedOnce
  BY DEF IInv, OnceInv
<1> QED  BY <1>1, Invariance, PTL

\* A release leaves the lock of a successor alone, however late it comes.
THEOREM ReleaseIsOwn == Spec => ReleasesItsOwn
<1>1. IInv /\ [Next]_vars => [OwnRelease]_vars
  BY OwnReleases DEF IInv
<1> QED  BY <1>1, Invariance, PTL DEF Spec, ReleasesItsOwn, OwnRelease


----------------------------------------------------------------------------
(* The service implements GameLog. *)

Clients == Joins \cup Moves

\* The answers that say for sure that nothing was saved and nothing will be.
Denials == Refusals \ {"conflict"}

\* Where a request is tells whether it has taken effect, and so does what it
\* has been told; whoever was refused has sent no save.
EffectInv ==
  \A r \in Clients :
    /\ pc[r] \in Late => r \in Taken
    /\ pc[r] \in Settled =>
         /\ outcome[r] = "ok" => r \in Taken
         /\ outcome[r] \in Denials => r \notin Taken /\ <<"save", r>> \notin strays

\* What a step can do to the result of a request that does not create the game:
\* none is recorded or published that was not saved, "ok" comes after the save,
\* a refusal before it, and a result stays, unless the server dies.
ResultStep ==
  \A q \in Requests \ Creates :
    /\ pc'[q] \in Late => pc[q] \in Late \/ (pc[q] = "save" /\ committed' = Append(committed, q))
    /\ pc[q] \in Settled => pc'[q] \in Settled /\ outcome'[q] \in {outcome[q], "crashed"}
    /\ pc[q] = "done" => pc'[q] = "done" /\ outcome'[q] = outcome[q]
    /\ pc'[q] \in Settled /\ pc[q] \notin Settled =>
         /\ outcome'[q] = "ok" => pc[q] \in Late \/ committed' = Append(committed, q)
         /\ outcome'[q] \in Denials => pc[q] \in {"lock", "load"} /\ UNCHANGED <<committed, strays>>
    /\ <<"save", q>> \in strays' => Pending("save", q)

\* A step moves at most one request on, and a save ends none.
OneStep ==
  /\ \/ UNCHANGED <<pc, outcome>>
     \/ \E r \in Requests :
          \A q \in Requests \ {r} : pc'[q] = pc[q] /\ outcome'[q] = outcome[q]
  /\ committed' # committed => \A q \in Requests : pc'[q] = "done" <=> pc[q] = "done"

\* Every step treats the results so.
LEMMA ResultSteps ==
  ASSUME TypeOK, KindsInv, StraysInv, [Next]_vars
  PROVE  ResultStep
<1> USE DEF TypeOK, KindsInv, Goto, Result, ResultStep, Late, Settled, Denials, Refusals, Pending, Commands, PCs,
        vars, redisVars, postgresVars, localVars, faultVars
<1>1. ASSUME NEW r \in Requests, BeginCreate(r) \/ Begin(r) \/ Serve(r) \/ Disturb(r)
      PROVE  ResultStep
  <2>1. CASE BeginCreate(r)
    BY <2>1 DEF BeginCreate
  <2>2. CASE Begin(r)
    BY <2>2 DEF Begin
  <2>3. CASE InsertGame(r)
    BY <2>3 DEF InsertGame
  <2>4. CASE SaveNew(r)
    BY <2>4 DEF SaveNew
  <2>5. CASE TryLock(r)
    BY <2>5 DEF TryLock
  <2>6. CASE LockHeld(r)
    BY <2>6 DEF LockHeld
  <2>7. CASE Load(r)
    BY <2>7 DEF Load, Verdicts
  <2>8. CASE Save(r)
    <3>1. /\ pc[r] = "save" /\ committed' = Append(committed, r) /\ UNCHANGED strays
          /\ \/ pc' = [pc EXCEPT ![r] = "release"] /\ outcome' = [outcome EXCEPT ![r] = "ok"]
             \/ pc' = [pc EXCEPT ![r] = "ledger"] /\ UNCHANGED outcome
      BY <2>8 DEF Save, Commit
    <3> QED  BY <3>1
  <2>9. CASE SaveConflict(r)
    BY <2>9 DEF SaveConflict
  <2>10. CASE SaveMove(r)
    BY <2>10 DEF SaveMove
  <2>11. CASE PublishEvent(r)
    BY <2>11 DEF PublishEvent
  <2>12. CASE ReleaseLock(r)
    BY <2>12 DEF ReleaseLock
  <2>13. CASE CallFails(r)
    BY <2>13, LeftFacts DEF CallFails, Unwind
  <2>14. CASE Resend(r)
    BY <2>14, LeftFacts DEF Resend
  <2>15. CASE Crash(r)
    BY <2>15, LeftFacts DEF Crash
  <2>16. ASSUME NEW k \in Commands, Arrive(k, r) PROVE ResultStep
    BY <2>16 DEF Arrive, Commit
  <2> QED
    BY <1>1, <2>1, <2>2, <2>3, <2>4, <2>5, <2>6, <2>7, <2>8, <2>9, <2>10, <2>11, <2>12, <2>13, <2>14, <2>15, <2>16
       DEF Serve, Disturb
<1>2. CASE LockLapses
  BY <1>2 DEF LockLapses
<1>3. CASE GameLapses
  BY <1>3 DEF GameLapses
<1>4. CASE UNCHANGED vars
  BY <1>4
<1> QED  BY <1>1, <1>2, <1>3, <1>4 DEF Next, AllDone

\* Every step moves so.
LEMMA OneSteps ==
  ASSUME TypeOK, [Next]_vars
  PROVE  OneStep
<1> USE DEF TypeOK, Goto, Result, OneStep, PCs, vars, redisVars, postgresVars, localVars, faultVars
<1>1. ASSUME NEW r \in Requests, BeginCreate(r) \/ Begin(r) \/ Serve(r) \/ Disturb(r)
      PROVE  OneStep
  <2>1. CASE BeginCreate(r)
    BY <2>1 DEF BeginCreate
  <2>2. CASE Begin(r)
    BY <2>2 DEF Begin
  <2>3. CASE InsertGame(r)
    BY <2>3 DEF InsertGame
  <2>4. CASE SaveNew(r)
    BY <2>4 DEF SaveNew
  <2>5. CASE TryLock(r)
    BY <2>5 DEF TryLock
  <2>6. CASE LockHeld(r)
    BY <2>6 DEF LockHeld
  <2>7. CASE Load(r)
    BY <2>7 DEF Load, Verdicts
  <2>8. CASE Save(r)
    BY <2>8 DEF Save
  <2>9. CASE SaveConflict(r)
    BY <2>9 DEF SaveConflict
  <2>10. CASE SaveMove(r)
    BY <2>10 DEF SaveMove
  <2>11. CASE PublishEvent(r)
    BY <2>11 DEF PublishEvent
  <2>12. CASE ReleaseLock(r)
    BY <2>12 DEF ReleaseLock
  <2>13. CASE CallFails(r)
    BY <2>13 DEF CallFails, Unwind
  <2>14. CASE Resend(r)
    BY <2>14 DEF Resend
  <2>15. CASE Crash(r)
    BY <2>15 DEF Crash
  <2>16. ASSUME NEW k \in Commands, Arrive(k, r) PROVE OneStep
    BY <2>16 DEF Arrive
  <2> QED
    BY <1>1, <2>1, <2>2, <2>3, <2>4, <2>5, <2>6, <2>7, <2>8, <2>9, <2>10, <2>11, <2>12, <2>13, <2>14, <2>15, <2>16
       DEF Serve, Disturb
<1>2. CASE LockLapses
  BY <1>2 DEF LockLapses
<1>3. CASE GameLapses
  BY <1>3 DEF GameLapses
<1>4. CASE UNCHANGED vars
  BY <1>4
<1> QED  BY <1>1, <1>2, <1>3, <1>4 DEF Next, AllDone

\* What a save does to the history: it is the request's first.
CommitStep ==
  \/ UNCHANGED committed
  \/ \E r \in Requests \ Creates :
       Pending("save", r) /\ r \notin Taken /\ committed' = Append(committed, r)

LEMMA CommitSteps ==
  ASSUME IInv, StoreStep
  PROVE  CommitStep
<1>1. ASSUME NEW r \in Requests, Pending("save", r), Commit(r)
      PROVE  r \notin Creates /\ r \notin Taken /\ committed' = Append(committed, r)
  <2>1. r \notin Taken
    BY <1>1, CommitIsFirst
  <2>2. r \notin Creates
    BY <1>1 DEF IInv, Pending, KindsInv, StraysInv, Commands
  <2> QED  BY <1>1, <2>1, <2>2 DEF Commit
<1> QED  BY <1>1 DEF StoreStep, CommitStep

\* Every step keeps the account of which requests have taken effect.
LEMMA EffectStep ==
  ASSUME IInv, EffectInv, CommitStep, ResultStep
  PROVE  EffectInv'
<1> SUFFICES ASSUME NEW q \in Clients
             PROVE  /\ pc'[q] \in Late => q \in Taken'
                    /\ pc'[q] \in Settled =>
                         /\ outcome'[q] = "ok" => q \in Taken'
                         /\ outcome'[q] \in Denials => q \notin Taken' /\ <<"save", q>> \notin strays'
  BY DEF EffectInv
<1>1. q \in Requests \ Creates
  BY RequestsAssumption DEF Clients, Requests
<1>2. /\ pc[q] \in Late => q \in Taken
      /\ pc[q] \in Settled =>
           /\ outcome[q] = "ok" => q \in Taken
           /\ outcome[q] \in Denials => q \notin Taken /\ <<"save", q>> \notin strays
  BY DEF EffectInv
<1>3. /\ q \in Taken => q \in Taken'
      /\ q \in Taken' => q \in Taken \/ Pending("save", q)
      /\ committed' = Append(committed, q) => q \in Taken'
  <2>1. \A r \in Requests : committed' = Append(committed, r) => Taken' = Taken \cup {r}
    BY TakenGrows DEF IInv
  <2>2. committed' = committed => Taken' = Taken
    BY DEF Taken
  <2> QED  BY <1>1, <2>1, <2>2 DEF CommitStep
<1>4. pc'[q] \in Late => q \in Taken'
  BY <1>1, <1>2, <1>3 DEF ResultStep
<1>5. ASSUME pc'[q] \in Settled, outcome'[q] = "ok" PROVE q \in Taken'
  <2>1. CASE pc[q] \in Settled
    BY <1>1, <1>2, <1>3, <1>5, <2>1 DEF ResultStep
  <2>2. CASE pc[q] \notin Settled
    BY <1>1, <1>2, <1>3, <1>5, <2>2 DEF ResultStep
  <2> QED  BY <2>1, <2>2
<1>6. ASSUME pc'[q] \in Settled, outcome'[q] \in Denials
      PROVE  q \notin Taken' /\ <<"save", q>> \notin strays'
  <2>1. CASE pc[q] \in Settled
    <3>1. outcome'[q] = outcome[q]
      BY <1>1, <1>6, <2>1 DEF ResultStep, Denials, Refusals
    <3>2. ~Pending("save", q)
      BY <1>2, <1>6, <2>1, <3>1 DEF Pending, Settled
    <3> QED  BY <1>1, <1>2, <1>3, <1>6, <2>1, <3>1, <3>2 DEF ResultStep
  <2>2. CASE pc[q] \notin Settled
    <3>1. pc[q] \in {"lock", "load"} /\ UNCHANGED <<committed, strays>>
      BY <1>1, <1>6, <2>2 DEF ResultStep
    <3>2. q \notin Taken /\ <<"save", q>> \notin strays
      BY <1>1, <3>1 DEF IInv, OnceInv, StraysInv, Commands, Sent, Unloaded
    <3> QED  BY <3>1, <3>2 DEF Taken
  <2> QED  BY <2>1, <2>2
<1> QED  BY <1>4, <1>5, <1>6

\* A step is one of GameLog, or changes nothing GameLog speaks of.
LEMMA PromiseStep ==
  ASSUME IInv, EffectInv, EffectInv', CommitStep, ResultStep, OneStep
  PROVE  [Promise!Next]_<<committed, Answers>>
<1>1. \A q \in Clients : q \in Requests /\ q \notin Creates
  BY RequestsAssumption DEF Clients, Requests
<1>2. \A q \in Clients : Answers[q] = IF pc[q] = "done" THEN Told(outcome[q]) ELSE "none"
  BY DEF Answers, Clients
<1>3. \A q \in Clients : Answers'[q] = IF pc'[q] = "done" THEN Told(outcome'[q]) ELSE "none"
  BY DEF Answers, Clients
<1>4. \A q \in Clients : pc[q] = "done" => Answers'[q] = Answers[q]
  BY <1>1, <1>2, <1>3 DEF ResultStep
<1>5. ASSUME committed' # committed PROVE Promise!Next
  <2>1. PICK r \in Requests \ Creates :
          Pending("save", r) /\ r \notin Taken /\ committed' = Append(committed, r)
    BY <1>5 DEF CommitStep
  <2>2. r \in Clients
    BY <2>1 DEF Clients, Requests
  <2>3. \A q \in Clients : Answers'[q] = Answers[q]
    BY <1>1, <1>2, <1>3, <1>4, <1>5 DEF OneStep
  <2>4. Answers' = Answers
    BY <2>3 DEF Answers, Clients
  <2>5. Answers[r] \in {"none", "failed"}
    <3>1. CASE pc[r] # "done"
      BY <1>2, <2>2, <3>1
    <3>2. CASE pc[r] = "done"
      <4>1. <<"save", r>> \in strays
        BY <2>1, <3>2 DEF Pending
      <4>2. outcome[r] # "ok" /\ outcome[r] \notin Denials
        BY <2>1, <2>2, <3>2, <4>1 DEF EffectInv, Settled
      <4>3. Told(outcome[r]) = "failed"
        BY <4>2 DEF Told, Denials, Refusals
      <4> QED  BY <1>2, <2>2, <3>2, <4>3
    <3> QED  BY <3>1, <3>2
  <2>6. ~Promise!InLog(r)
    BY <2>1 DEF Taken, Promise!InLog
  <2>7. Promise!TakeEffect(r)
    BY <2>1, <2>4, <2>5, <2>6 DEF Promise!TakeEffect
  <2> QED  BY <2>2, <2>7 DEF Promise!Next, Clients
<1>6. ASSUME committed' = committed PROVE Promise!Next \/ UNCHANGED <<committed, Answers>>
  <2>1. CASE \A q \in Clients : Answers'[q] = Answers[q]
    BY <1>6, <2>1 DEF Answers, Clients
  <2>2. ASSUME NEW r \in Clients, Answers'[r] # Answers[r]
        PROVE  Promise!Next
    <3>1. pc[r] # "done" /\ pc'[r] = "done" /\ Answers[r] = "none"
      BY <1>2, <1>3, <1>4, <2>2
    <3>2. \A q \in Clients : q # r => Answers'[q] = Answers[q]
      <4>1. PICK p \in Requests :
              \A q \in Requests \ {p} : pc'[q] = pc[q] /\ outcome'[q] = outcome[q]
        BY <2>2, <3>1 DEF OneStep
      <4>2. p = r
        BY <1>1, <2>2, <3>1, <4>1
      <4> QED  BY <1>1, <1>2, <1>3, <4>1, <4>2
    <3> DEFINE a == Told(outcome'[r])
    <3>3. a \in {"ok", "refused", "failed"}
      BY DEF Told
    <3>4. (a = "ok" => outcome'[r] = "ok") /\ (a = "refused" => outcome'[r] \in Denials)
      BY DEF Told, Denials, Refusals
    <3>5. (a = "ok" => r \in Taken') /\ (a = "refused" => r \notin Taken')
      BY <2>2, <3>1, <3>4 DEF EffectInv, Settled
    <3>6. (a = "ok" => Promise!InLog(r)) /\ (a = "refused" => ~Promise!InLog(r))
      BY <1>6, <3>5 DEF Taken, Promise!InLog
    <3>7. Answers'[r] = a
      BY <1>3, <2>2, <3>1
    <3>8. Answers' = [Answers EXCEPT ![r] = a]
      <4> HIDE DEF a
      <4> QED  BY <2>2, <3>2, <3>7 DEF Answers, Clients
    <3>9. Promise!Answer(r, a)
      BY <1>6, <3>1, <3>6, <3>8 DEF Promise!Answer
    <3> QED  BY <2>2, <3>3, <3>9 DEF Promise!Next, Clients
  <2> QED  BY <2>1, <2>2
<1> QED  BY <1>5, <1>6

\* The service keeps the promise of GameLog for any number of requests, whatever
\* fails, is sent again or comes late: they take effect one after the other,
\* each at most once; who is told "ok" has taken effect, and who is refused has
\* not and never will.
THEOREM ServiceKeepsPromise == Spec => KeepsPromise
<1>1. Init => EffectInv /\ Promise!Init
  BY RequestsAssumption
     DEF Init, EffectInv, Taken, Promise!Init, Answers, Requests, Clients, Late, Settled
<1>2. IInv /\ EffectInv /\ [Next]_vars => EffectInv' /\ [Promise!Next]_<<committed, Answers>>
  <2> SUFFICES ASSUME IInv, EffectInv, [Next]_vars
               PROVE  EffectInv' /\ [Promise!Next]_<<committed, Answers>>
    OBVIOUS
  <2>1. StoreStep /\ ResultStep /\ OneStep
    BY StoreSteps, ResultSteps, OneSteps DEF IInv
  <2>2. CommitStep
    BY <2>1, CommitSteps
  <2> QED  BY <2>1, <2>2, EffectStep, PromiseStep
<1> QED  BY <1>1, <1>2, Invariance, PTL DEF Spec, KeepsPromise, Promise!Spec


----------------------------------------------------------------------------
(* What the lock gives while it lasts, and what the ledger misses. *)

\* Between taking the lock and sending its release.
Inside == {"load", "save", "ledger", "publish"}

\* As long as no lock runs out on a request at work, it excludes all others.
LockInv ==
  lapses = 0 => \A r \in Requests : pc[r] \in Inside => lock = r

\* Since r loaded the game its own save was made, or one that came late.
Overtaken(r) ==
  \E i \in DOMAIN committed :
    i >= loaded[r].version /\ (committed[i] = r \/ Lost(committed[i]))

\* Whoever is about to save has the stored game, as long as nothing runs out
\* and no save came late.
FreshInv ==
  lapses = 0 /\ gameLapses = 0 =>
    \A r \in Requests : pc[r] = "save" =>
      game # NoGame /\ (game.version = loaded[r].version \/ Overtaken(r))

\* What a request that is past its save has yet to write is the newest: of what
\* is written, and of what may still come late.
OrderInv ==
  lapses = 0 =>
    \A r \in Requests : pc[r] \in Late =>
      /\ Newest(Entry(r), ledger) /\ Newest(Entry(r), events)
      /\ \A q \in Requests : Unwritten(q) => loaded[q].version <= loaded[r].version

\* A request is on record, or about to be.
OnRecord(r) == Recorded(r) \/ pc[r] = "ledger"

SeatsOnRecord(g) ==
  \A p \in g.seated : \E r \in Joins : PlayerOf[r] = p /\ OnRecord(r)

\* Every saved move and every seat, in the store or in a request's copy, is on
\* record, as long as nothing fails.
RecordInv ==
  faults = 0 =>
    /\ strays = {}
    /\ \A i \in DOMAIN committed : committed[i] \in Moves => OnRecord(committed[i])
    /\ game # NoGame => SeatsOnRecord(game)
    /\ \A r \in Requests : SeatsOnRecord(loaded[r])

\* How a step treats the counters and the lock.
LockStep ==
  /\ lapses' \in {lapses, lapses + 1} /\ gameLapses' \in {gameLapses, gameLapses + 1}
  /\ faults' = faults + 1 \/ (faults' = faults /\ strays' \subseteq strays)
  /\ \/ lock' = lock \/ lock = Free \/ lapses' = lapses + 1
     \/ lock \in Requests /\ pc'[lock] \notin Inside
  /\ \A q \in Requests : pc'[q] \in Inside /\ pc[q] \notin Inside => lock' = q

\* How a step treats the stored game: a save that is in time goes to the ledger
\* next, unless it changes no seat.
GameStep ==
  \/ UNCHANGED <<game, committed>>
  \/ gameLapses' = gameLapses + 1 /\ game' = NoGame /\ UNCHANGED committed
  \/ \E r \in Requests :
       /\ pc[r] = "save" /\ Commit(r)
       /\ pc'[r] = "ledger" \/ (pc'[r] = "release" /\ IsRefresh(r, loaded[r]))
  \/ \E r \in Requests : <<"save", r>> \in strays /\ Commit(r)
  \/ \E r \in Requests : Pending("new", r) /\ StoreNew /\ UNCHANGED committed

\* How a step comes to report a conflict; failures stay failures.
ConflictStep ==
  \A q \in Requests :
    /\ Lost(q) => Lost(q)'
    /\ outcome'[q] = "conflict" =>
         \/ outcome[q] = "conflict"
         \/ q \in Creates
         \/ /\ pc[q] = "save" /\ ~CasMatches(loaded[q].version)
            /\ UNCHANGED <<loaded, committed>>

\* How a step treats the copies and the ledger: a request adds its entry and
\* moves on.
EntryStep ==
  \A q \in Requests :
    /\ loaded'[q] = loaded[q] \/ (pc[q] = "load" /\ game # NoGame /\ loaded'[q] = game)
    /\ pc'[q] = "save" /\ pc[q] # "save" =>
         pc[q] = "load" /\ game # NoGame /\ loaded'[q] = game /\ UNCHANGED <<game, committed>>
    /\ pc[q] = "ledger" =>
         pc'[q] = "ledger" \/ ledger' = Append(ledger, Entry(q)) \/ faults' = faults + 1
    /\ pc'[q] \in Late => pc[q] \in Late \/ (pc[q] = "save" /\ Commit(q))

\* Every step treats the lock so.
LEMMA LockSteps ==
  ASSUME TypeOK, KindsInv, StraysInv, [Next]_vars
  PROVE  LockStep
<1> USE RequestsAssumption DEF TypeOK, KindsInv, Goto, LockStep, Inside, vars, redisVars, postgresVars, localVars, faultVars
<1>1. ASSUME NEW r \in Requests, BeginCreate(r) \/ Begin(r) \/ Serve(r) \/ Disturb(r)
      PROVE  LockStep
  <2>1. CASE BeginCreate(r)
    BY <2>1 DEF BeginCreate
  <2>2. CASE Begin(r)
    BY <2>2 DEF Begin
  <2>3. CASE InsertGame(r)
    BY <2>3 DEF InsertGame
  <2>4. CASE SaveNew(r)
    BY <2>4 DEF SaveNew
  <2>5. CASE TryLock(r)
    BY <2>5 DEF TryLock
  <2>6. CASE LockHeld(r)
    BY <2>6 DEF LockHeld
  <2>7. CASE Load(r)
    BY <2>7 DEF Load
  <2>8. CASE Save(r)
    BY <2>8 DEF Save
  <2>9. CASE SaveConflict(r)
    BY <2>9 DEF SaveConflict
  <2>10. CASE SaveMove(r)
    BY <2>10 DEF SaveMove
  <2>11. CASE PublishEvent(r)
    BY <2>11 DEF PublishEvent
  <2>12. CASE ReleaseLock(r)
    BY <2>12 DEF ReleaseLock, Released
  <2>13. CASE CallFails(r)
    BY <2>13 DEF CallFails, Unwind, Fault, PCs
  <2>14. CASE Resend(r)
    BY <2>14 DEF Resend, Fault
  <2>15. CASE Crash(r)
    BY <2>15 DEF Crash, Fault, PCs
  <2>16. ASSUME NEW k \in Commands, Arrive(k, r) PROVE LockStep
    BY <2>16 DEF Arrive, Released, StraysInv, Sent, Commands
  <2> QED
    BY <1>1, <2>1, <2>2, <2>3, <2>4, <2>5, <2>6, <2>7, <2>8, <2>9, <2>10, <2>11, <2>12, <2>13, <2>14, <2>15, <2>16
       DEF Serve, Disturb
<1>2. CASE LockLapses
  BY <1>2 DEF LockLapses
<1>3. CASE GameLapses
  BY <1>3 DEF GameLapses
<1>4. CASE UNCHANGED vars
  BY <1>4
<1> QED  BY <1>1, <1>2, <1>3, <1>4 DEF Next, AllDone

\* Every step treats the game so.
LEMMA GameSteps ==
  ASSUME TypeOK, [Next]_vars
  PROVE  GameStep
<1> USE DEF TypeOK, Goto, GameStep, Pending, vars, redisVars, postgresVars, localVars, faultVars
<1>1. ASSUME NEW r \in Requests, BeginCreate(r) \/ Begin(r) \/ Serve(r) \/ Disturb(r)
      PROVE  GameStep
  <2>1. CASE BeginCreate(r)
    BY <2>1 DEF BeginCreate
  <2>2. CASE Begin(r)
    BY <2>2 DEF Begin
  <2>3. CASE InsertGame(r)
    BY <2>3 DEF InsertGame
  <2>4. CASE SaveNew(r)
    BY <2>4 DEF SaveNew
  <2>5. CASE TryLock(r)
    BY <2>5 DEF TryLock
  <2>6. CASE LockHeld(r)
    BY <2>6 DEF LockHeld
  <2>7. CASE Load(r)
    BY <2>7 DEF Load
  <2>8. CASE Save(r)
    BY <2>8 DEF Save
  <2>9. CASE SaveConflict(r)
    BY <2>9 DEF SaveConflict
  <2>10. CASE SaveMove(r)
    BY <2>10 DEF SaveMove
  <2>11. CASE PublishEvent(r)
    BY <2>11 DEF PublishEvent
  <2>12. CASE ReleaseLock(r)
    BY <2>12 DEF ReleaseLock
  <2>13. CASE CallFails(r)
    BY <2>13 DEF CallFails
  <2>14. CASE Resend(r)
    BY <2>14 DEF Resend
  <2>15. CASE Crash(r)
    BY <2>15 DEF Crash
  <2>16. ASSUME NEW k \in Commands, Arrive(k, r) PROVE GameStep
    BY <2>16 DEF Arrive
  <2> QED
    BY <1>1, <2>1, <2>2, <2>3, <2>4, <2>5, <2>6, <2>7, <2>8, <2>9, <2>10, <2>11, <2>12, <2>13, <2>14, <2>15, <2>16
       DEF Serve, Disturb
<1>2. CASE LockLapses
  BY <1>2 DEF LockLapses
<1>3. CASE GameLapses
  BY <1>3 DEF GameLapses
<1>4. CASE UNCHANGED vars
  BY <1>4
<1> QED  BY <1>1, <1>2, <1>3, <1>4 DEF Next, AllDone

\* Every step reports conflicts so.
LEMMA ConflictSteps ==
  ASSUME TypeOK, KindsInv, OutcomeInv, [Next]_vars
  PROVE  ConflictStep
<1> USE DEF TypeOK, KindsInv, OutcomeInv, Settled, Goto, Result, ConflictStep, Lost, PCs, vars, redisVars, postgresVars, localVars, faultVars
<1>1. ASSUME NEW r \in Requests, BeginCreate(r) \/ Begin(r) \/ Serve(r) \/ Disturb(r)
      PROVE  ConflictStep
  <2>1. CASE BeginCreate(r)
    BY <2>1 DEF BeginCreate
  <2>2. CASE Begin(r)
    BY <2>2 DEF Begin
  <2>3. CASE InsertGame(r)
    BY <2>3 DEF InsertGame
  <2>4. CASE SaveNew(r)
    BY <2>4 DEF SaveNew
  <2>5. CASE TryLock(r)
    BY <2>5 DEF TryLock
  <2>6. CASE LockHeld(r)
    BY <2>6 DEF LockHeld
  <2>7. CASE Load(r)
    BY <2>7 DEF Load, Verdicts
  <2>8. CASE Save(r)
    BY <2>8 DEF Save
  <2>9. CASE SaveConflict(r)
    BY <2>9 DEF SaveConflict
  <2>10. CASE SaveMove(r)
    BY <2>10 DEF SaveMove
  <2>11. CASE PublishEvent(r)
    BY <2>11 DEF PublishEvent
  <2>12. CASE ReleaseLock(r)
    BY <2>12 DEF ReleaseLock
  <2>13. CASE CallFails(r)
    BY <2>13 DEF CallFails, Unwind
  <2>14. CASE Resend(r)
    BY <2>14 DEF Resend
  <2>15. CASE Crash(r)
    BY <2>15 DEF Crash
  <2>16. ASSUME NEW k \in Commands, Arrive(k, r) PROVE ConflictStep
    BY <2>16 DEF Arrive
  <2> QED
    BY <1>1, <2>1, <2>2, <2>3, <2>4, <2>5, <2>6, <2>7, <2>8, <2>9, <2>10, <2>11, <2>12, <2>13, <2>14, <2>15, <2>16
       DEF Serve, Disturb
<1>2. CASE LockLapses
  BY <1>2 DEF LockLapses
<1>3. CASE GameLapses
  BY <1>3 DEF GameLapses
<1>4. CASE UNCHANGED vars
  BY <1>4
<1> QED  BY <1>1, <1>2, <1>3, <1>4 DEF Next, AllDone

\* Every step treats the copies and the ledger so.
LEMMA EntrySteps ==
  ASSUME TypeOK, [Next]_vars
  PROVE  EntryStep
<1> USE DEF TypeOK, Goto, EntryStep, Late, vars, redisVars, postgresVars, localVars, faultVars
<1>1. ASSUME NEW r \in Requests, BeginCreate(r) \/ Begin(r) \/ Serve(r) \/ Disturb(r)
      PROVE  EntryStep
  <2>1. CASE BeginCreate(r)
    BY <2>1 DEF BeginCreate
  <2>2. CASE Begin(r)
    BY <2>2 DEF Begin
  <2>3. CASE InsertGame(r)
    BY <2>3 DEF InsertGame
  <2>4. CASE SaveNew(r)
    BY <2>4 DEF SaveNew
  <2>5. CASE TryLock(r)
    BY <2>5 DEF TryLock
  <2>6. CASE LockHeld(r)
    BY <2>6 DEF LockHeld
  <2>7. CASE Load(r)
    BY <2>7 DEF Load
  <2>8. CASE Save(r)
    BY <2>8 DEF Save
  <2>9. CASE SaveConflict(r)
    BY <2>9 DEF SaveConflict
  <2>10. CASE SaveMove(r)
    BY <2>10 DEF SaveMove
  <2>11. CASE PublishEvent(r)
    BY <2>11 DEF PublishEvent
  <2>12. CASE ReleaseLock(r)
    BY <2>12 DEF ReleaseLock
  <2>13. CASE CallFails(r)
    BY <2>13 DEF CallFails, Unwind, Fault
  <2>14. CASE Resend(r)
    BY <2>14 DEF Resend
  <2>15. CASE Crash(r)
    BY <2>15 DEF Crash, Fault
  <2>16. ASSUME NEW k \in Commands, Arrive(k, r) PROVE EntryStep
    BY <2>16 DEF Arrive
  <2> QED
    BY <1>1, <2>1, <2>2, <2>3, <2>4, <2>5, <2>6, <2>7, <2>8, <2>9, <2>10, <2>11, <2>12, <2>13, <2>14, <2>15, <2>16
       DEF Serve, Disturb
<1>2. CASE LockLapses
  BY <1>2 DEF LockLapses
<1>3. CASE GameLapses
  BY <1>3 DEF GameLapses
<1>4. CASE UNCHANGED vars
  BY <1>4
<1> QED  BY <1>1, <1>2, <1>3, <1>4 DEF Next, AllDone

\* The elements of a sequence are in its set.
LEMMA ElementType ==
  ASSUME NEW S, NEW s \in Seq(S), NEW i \in DOMAIN s PROVE s[i] \in S
  OBVIOUS

\* The versions in a log are numbers.
LEMMA LogVersions ==
  ASSUME NEW log \in Seq([req : Requests, version : Nat]), NEW i \in DOMAIN log
  PROVE  log[i].version \in Nat
<1>1. log[i] \in [req : Requests, version : Nat]
  BY ElementType
<1> QED  BY <1>1

\* No step takes the lock from a request inside, unless it runs out.
LEMMA LockInvStep ==
  ASSUME TypeOK, LockInv, LockStep
  PROVE  LockInv'
<1> SUFFICES ASSUME lapses' = 0, NEW q \in Requests, pc'[q] \in Inside
             PROVE  lock' = q
  BY DEF LockInv
<1>1. lapses = 0
  BY DEF LockStep, TypeOK
<1>2. CASE pc[q] \in Inside
  <2>1. lock = q /\ lock # Free
    BY <1>1, <1>2, RequestsAssumption DEF LockInv
  <2> QED  BY <1>1, <2>1 DEF LockStep
<1>3. CASE pc[q] \notin Inside
  BY <1>3 DEF LockStep
<1> QED  BY <1>2, <1>3

\* Two requests inside are one.
LEMMA OneInside ==
  ASSUME LockInv, lapses = 0, NEW q \in Requests, NEW r \in Requests,
         pc[q] \in Inside, pc[r] \in Inside
  PROVE  q = r
  BY DEF LockInv

\* Failures stay failures, and what overtook a request stays in the history.
LEMMA OvertakenStays ==
  ASSUME IInv, StoreStep, ConflictStep, NEW r \in Requests, Overtaken(r),
         loaded'[r] = loaded[r]
  PROVE  Overtaken(r)'
<1>1. PICK i \in DOMAIN committed :
        i >= loaded[r].version /\ (committed[i] = r \/ Lost(committed[i]))
  BY DEF Overtaken
<1>2. i \in DOMAIN committed' /\ committed'[i] = committed[i] /\ committed[i] \in Requests
  BY HistoryGrows, ElementType DEF IInv, TypeOK
<1>3. (committed[i] = r \/ Lost(committed[i]))'
  BY <1>1, <1>2 DEF ConflictStep, Lost
<1> QED  BY <1>1, <1>2, <1>3 DEF Overtaken

\* A save that comes late while nothing runs out belongs to a request that
\* failed: whoever was told "ok" or of a conflict has an old copy.
LEMMA LateSaveIsLost ==
  ASSUME IInv, EffectInv, ConflictHasCause, lapses = 0, gameLapses = 0,
         NEW q \in Requests, <<"save", q>> \in strays, pc[q] \in Settled, Commit(q)
  PROVE  Lost(q)
<1>1. Pending("save", q) /\ q \notin Creates
  BY DEF Pending, IInv, StraysInv, Commands
<1>2. q \in Clients
  BY <1>1 DEF Clients, Requests
<1>3. /\ q \notin Taken
      /\ loaded[q].version = Len(committed) + 1 /\ Len(committed) \in Nat
      /\ committed \in Seq(Requests)
  BY <1>1, CommitIsFirst, CommitFacts DEF IInv, TypeOK
<1>4. outcome[q] # "ok" /\ outcome[q] \notin Denials
  BY <1>2, <1>3 DEF EffectInv
<1>5. outcome[q] # "conflict"
  <2> SUFFICES ASSUME outcome[q] = "conflict" PROVE FALSE
    OBVIOUS
  <2>1. \E i \in DOMAIN committed : i >= loaded[q].version
    BY <1>1 DEF ConflictHasCause
  <2> QED  BY <1>3, <2>1
<1>6. outcome[q] # "none" /\ outcome[q] \in Outcomes
  BY DEF IInv, OutcomeInv, TypeOK
<1> QED  BY <1>4, <1>5, <1>6 DEF Lost, Outcomes, Denials, Refusals

\* While a request is about to save, the stored game stays, or a save overtakes it.
LEMMA FreshStep ==
  ASSUME IInv, EffectInv, ConflictHasCause, LockInv, FreshInv,
         LockStep, GameStep, StoreStep, ConflictStep, EntryStep, CopyStep
  PROVE  FreshInv'
<1> SUFFICES ASSUME lapses' = 0, gameLapses' = 0, NEW r \in Requests, pc'[r] = "save"
             PROVE  game' # NoGame /\ (game'.version = loaded'[r].version \/ Overtaken(r)')
  BY DEF FreshInv
<1>1. lapses = 0 /\ gameLapses = 0 /\ gameLapses' # gameLapses + 1
  BY DEF LockStep, IInv, TypeOK
<1>2. CASE pc[r] = "load" /\ game # NoGame /\ loaded'[r] = game /\ UNCHANGED <<game, committed>>
  BY <1>2
<1>3. CASE pc[r] = "save" /\ loaded'[r] = loaded[r]
  <2>1. game # NoGame /\ (game.version = loaded[r].version \/ Overtaken(r))
    BY <1>1, <1>3 DEF FreshInv
  <2>2. game' # NoGame
    <3>1. NewGame \in Game /\ \A q \in Requests : After(q, loaded[q]) \in Game
      BY AfterType DEF IInv, TypeOK, NewGame, Game
    <3>2. \A q \in Requests : Commit(q) => game' = After(q, loaded[q])
      BY DEF Commit
    <3> QED  BY <1>1, <2>1, <3>1, <3>2, NoGameAssumption DEF GameStep, StoreNew
  <2>3. CASE Overtaken(r)
    BY <1>3, <2>2, <2>3, OvertakenStays
  <2>4. CASE game' = game
    BY <1>3, <2>1, <2>2, <2>4, OvertakenStays
  <2>5. ASSUME game.version = loaded[r].version, NEW q \in Requests, Pending("save", q), Commit(q),
               q = r \/ Lost(q)
        PROVE  Overtaken(r)'
    <3>1. /\ committed' = Append(committed, q) /\ loaded[r].version = Len(committed) + 1
          /\ committed \in Seq(Requests) /\ Len(committed) \in Nat
      BY <2>1, <2>5, CommitFacts DEF IInv, TypeOK, NoLostUpdate
    <3>2. Len(committed) + 1 \in DOMAIN committed' /\ committed'[Len(committed) + 1] = q
      BY <3>1
    <3>3. q = r \/ Lost(q)'
      BY <2>5 DEF ConflictStep
    <3>4. Len(committed) + 1 >= loaded'[r].version
      BY <1>3, <3>1
    <3> QED  BY <3>2, <3>3, <3>4 DEF Overtaken, Lost
  <2>6. ASSUME NEW q \in Requests, pc[q] = "save", pc'[q] \in {"ledger", "release"} PROVE FALSE
    <3>1. q = r
      BY <1>1, <1>3, <2>6, OneInside DEF Inside
    <3> QED  BY <2>6, <3>1
  <2>7. ASSUME NEW q \in Requests, <<"save", q>> \in strays, Commit(q), q # r PROVE Lost(q)
    <3>1. pc[q] \notin Inside
      BY <1>1, <1>3, <2>7, OneInside DEF Inside
    <3>2. pc[q] \in Settled
      BY <2>7, <3>1 DEF IInv, StraysInv, Commands, Sent, Inside, Settled
    <3> QED  BY <1>1, <2>7, <3>2, LateSaveIsLost
  <2>8. ASSUME NEW q \in Requests, <<"save", q>> \in strays, Commit(q)
        PROVE  Overtaken(r)'
    BY <2>1, <2>3, <2>5, <2>7, <2>8, OvertakenStays, <1>3 DEF Pending
  <2>9. CASE StoreNew
    <3>1. game.version >= 1
      BY <2>1 DEF IInv, NoLostUpdate, TypeOK
    <3>2. game' = game
      BY <2>1, <2>9, <3>1 DEF StoreNew, CasMatches
    <3> QED  BY <2>4, <3>2
  <2> QED  BY <1>1, <2>2, <2>4, <2>6, <2>8, <2>9 DEF GameStep
<1>4. \/ pc[r] = "save" /\ loaded'[r] = loaded[r]
      \/ /\ pc[r] = "load" /\ game # NoGame /\ loaded'[r] = game
         /\ UNCHANGED <<game, committed>>
  BY DEF EntryStep
<1> QED  BY <1>2, <1>3, <1>4

\* Whoever reports a conflict has been overtaken.
LEMMA ConflictCauseStep ==
  ASSUME IInv, FreshInv, ConflictHasCause, LockStep, StoreStep, ConflictStep, EntryStep
  PROVE  ConflictHasCause'
<1> SUFFICES ASSUME lapses' = 0, gameLapses' = 0, NEW r \in Requests \ Creates,
                    outcome'[r] = "conflict"
             PROVE  Overtaken(r)'
  BY DEF ConflictHasCause, Overtaken
<1>1. lapses = 0 /\ gameLapses = 0
  BY DEF LockStep, IInv, TypeOK
<1>2. CASE outcome[r] = "conflict"
  <2>1. Overtaken(r)
    BY <1>1, <1>2 DEF ConflictHasCause, Overtaken
  <2>2. loaded'[r] = loaded[r]
    BY <1>2 DEF EntryStep, IInv, OutcomeInv, Settled
  <2> QED  BY <2>1, <2>2, OvertakenStays
<1>3. CASE pc[r] = "save" /\ ~CasMatches(loaded[r].version) /\ UNCHANGED <<loaded, committed>>
  <2>1. Overtaken(r)
    BY <1>1, <1>3 DEF FreshInv, CasMatches
  <2> QED  BY <1>3, <2>1, OvertakenStays
<1> QED  BY <1>2, <1>3 DEF ConflictStep

\* No version that is recorded or published is newer than the stored game's.
LEMMA NoneAhead ==
  ASSUME TypeOK, VersionsAgree
  PROVE  /\ \A i \in DOMAIN ledger : ledger[i].version <= Len(committed) + 1
         /\ \A i \in DOMAIN events : events[i].version <= Len(committed) + 1
<1>1. /\ committed \in Seq(Requests)
      /\ \A i \in DOMAIN ledger : ledger[i].version \in Nat
      /\ \A i \in DOMAIN events : events[i].version \in Nat
  BY LogVersions DEF TypeOK
<1>2. DOMAIN committed = 1..Len(committed) /\ Len(committed) \in Nat
  BY <1>1
<1>3. \A v \in Nat : v - 1 \in 1..Len(committed) => v <= Len(committed) + 1
  BY <1>2
<1> QED  BY <1>1, <1>2, <1>3 DEF VersionsAgree

\* Every step keeps the order: a late row or event is of an old version, and
\* nobody else is inside.
LEMMA OrderStep ==
  ASSUME IInv, LockInv, OrderInv, LockStep, CopyStep, LogStep, EntryStep
  PROVE  OrderInv'
<1> SUFFICES ASSUME lapses' = 0, NEW r \in Requests, pc'[r] \in Late
             PROVE  /\ Newest(Entry(r), ledger)' /\ Newest(Entry(r), events)'
                    /\ \A q \in Requests : Unwritten(q)' => loaded'[q].version <= loaded'[r].version
  BY DEF OrderInv
<1>1. lapses = 0
  BY DEF LockStep, IInv, TypeOK
<1>2. /\ ledger \in Seq([req : Requests, version : Nat])
      /\ events \in Seq([req : Requests, version : Nat])
      /\ committed \in Seq(Requests) /\ Len(committed) \in Nat
      /\ \A q \in Requests : loaded[q].version \in Nat
  BY DEF IInv, TypeOK, Game
<1>3. loaded'[r] = loaded[r] /\ Unwritten(r)'
  <2>1. Unwritten(r)'
    BY DEF Unwritten, Pending, Late
  <2> QED  BY <2>1 DEF CopyStep
<1>4. /\ Newest(Entry(r), ledger) /\ Newest(Entry(r), events)
      /\ \A q \in Requests : Unwritten(q) => loaded[q].version <= loaded[r].version
  <2>1. CASE pc[r] \in Late
    BY <1>1, <2>1 DEF OrderInv
  <2>2. CASE pc[r] = "save" /\ Commit(r)
    <3>1. loaded[r].version = Len(committed) + 1
      BY <2>2, CommitFacts DEF IInv, Pending
    <3>2. Newest(Entry(r), ledger) /\ Newest(Entry(r), events)
      <4>1. Entry(r).version = Len(committed) + 2
        BY <1>2, <3>1 DEF Entry
      <4>2. /\ \A i \in DOMAIN ledger : ledger[i].version \in Nat
            /\ \A i \in DOMAIN events : events[i].version \in Nat
        BY <1>2, LogVersions
      <4>3. /\ \A i \in DOMAIN ledger : ledger[i].version <= Len(committed) + 1
            /\ \A i \in DOMAIN events : events[i].version <= Len(committed) + 1
        BY NoneAhead DEF IInv
      <4> QED  BY <1>2, <4>1, <4>2, <4>3 DEF Newest
    <3>3. \A q \in Requests : Unwritten(q) => loaded[q].version <= loaded[r].version
      <4>1. \A q \in Requests : Unwritten(q) => loaded[q].version \in 1..Len(committed)
        BY <1>2 DEF IInv, SavedInv
      <4> QED  BY <1>2, <3>1, <4>1
    <3> QED  BY <3>2, <3>3
  <2> QED  BY <2>1, <2>2 DEF EntryStep
<1>5. ASSUME NEW q \in Requests, Unwritten(q)
      PROVE  Entry(q).version <= Entry(r).version /\ Entry(q) \in [req : Requests, version : Nat]
  <2>1. loaded[q].version <= loaded[r].version
    BY <1>4, <1>5
  <2> QED  BY <1>2, <2>1, EntryType DEF Entry, IInv
<1>6. ASSUME NEW log \in Seq([req : Requests, version : Nat]), Newest(Entry(r), log),
             NEW q \in Requests, Unwritten(q)
      PROVE  Newest(Entry(r), Append(log, Entry(q)))
  <2>1. \A i \in DOMAIN Append(log, Entry(q)) :
          Append(log, Entry(q))[i] = IF i \in DOMAIN log THEN log[i] ELSE Entry(q)
    BY <1>2
  <2> QED  BY <1>5, <1>6, <2>1 DEF Newest
<1>7. Newest(Entry(r), ledger)' /\ Newest(Entry(r), events)'
  <2>1. Entry(r)' = Entry(r)
    BY <1>3 DEF Entry
  <2>2. Newest(Entry(r), ledger') /\ Newest(Entry(r), events')
    BY <1>2, <1>4, <1>6 DEF LogStep, Unwritten
  <2> QED  BY <2>1, <2>2 DEF Newest
<1>8. ASSUME NEW q \in Requests, Unwritten(q)'
      PROVE  loaded'[q].version <= loaded'[r].version
  <2>1. loaded'[q] = loaded[q] /\ (Unwritten(q) \/ (pc[q] = "save" /\ Commit(q)))
    BY <1>8 DEF CopyStep
  <2>2. CASE Unwritten(q)
    BY <1>3, <1>4, <2>1, <2>2
  <2>3. CASE pc[q] = "save"
    <3>1. pc[r] \in Inside
      BY DEF EntryStep, Late, Inside
    <3>2. q = r
      BY <1>1, <2>3, <3>1, OneInside DEF Inside
    <3> QED  BY <1>2, <1>3, <3>2
  <2> QED  BY <2>1, <2>2, <2>3
<1> QED  BY <1>7, <1>8

\* What is on record stays there, or is put there, as long as nothing fails.
LEMMA StaysOnRecord ==
  ASSUME TypeOK, LogStep, EntryStep, faults' = faults, NEW r \in Requests, OnRecord(r)
  PROVE  OnRecord(r)'
<1>1. ledger \in Seq([req : Requests, version : Nat])
  BY DEF TypeOK
<1>2. CASE Recorded(r)
  <2>1. PICK i \in DOMAIN ledger : ledger[i].req = r
    BY <1>2 DEF Recorded
  <2>2. \A e : i \in DOMAIN Append(ledger, e) /\ Append(ledger, e)[i] = ledger[i]
    BY <1>1
  <2>3. i \in DOMAIN ledger' /\ ledger'[i] = ledger[i]
    BY <2>2 DEF LogStep
  <2> QED  BY <2>1, <2>3 DEF OnRecord, Recorded
<1>3. CASE pc[r] = "ledger"
  <2>1. faults \in Nat
    BY DEF TypeOK
  <2>2. pc'[r] = "ledger" \/ ledger' = Append(ledger, Entry(r))
    BY <1>3, <2>1 DEF EntryStep
  <2>3. CASE ledger' = Append(ledger, Entry(r))
    <3>1. /\ Len(ledger) + 1 \in DOMAIN Append(ledger, Entry(r))
          /\ Append(ledger, Entry(r))[Len(ledger) + 1] = Entry(r)
      BY <1>1
    <3>2. Entry(r).req = r
      BY DEF Entry
    <3> QED  BY <2>3, <3>1, <3>2 DEF OnRecord, Recorded
  <2> QED  BY <2>2, <2>3 DEF OnRecord
<1> QED  BY <1>2, <1>3 DEF OnRecord

\* Every step keeps what must be on record there, as long as nothing fails: a
\* save goes to the ledger next, unless it seats nobody and moves nothing.
LEMMA RecordStep ==
  ASSUME IInv, RecordInv, LockStep, GameStep, LogStep, EntryStep
  PROVE  RecordInv'
<1> SUFFICES ASSUME faults' = 0 PROVE RecordInv'
  BY DEF RecordInv
<1>1. faults = 0 /\ faults' = faults /\ strays = {} /\ strays' = {}
  BY DEF LockStep, IInv, TypeOK, RecordInv
<1>2. TypeOK /\ CreateInv /\ KindsInv
  BY DEF IInv
<1>3. \A r \in Requests : OnRecord(r) => OnRecord(r)'
  BY <1>1, <1>2, StaysOnRecord
<1>4. /\ \A i \in DOMAIN committed : committed[i] \in Moves => OnRecord(committed[i])
      /\ game # NoGame => SeatsOnRecord(game)
      /\ \A r \in Requests : SeatsOnRecord(loaded[r])
  BY <1>1 DEF RecordInv
<1>5. ASSUME NEW i \in DOMAIN committed', NEW q \in Moves, committed'[i] = q
      PROVE  OnRecord(q)'
  <2>1. CASE i \in DOMAIN committed /\ committed[i] = q
    BY <1>3, <1>4, <2>1 DEF Requests
  <2>2. ASSUME NEW r \in Requests, q = r, pc'[r] = "ledger" \/ IsRefresh(r, loaded[r])
        PROVE  OnRecord(q)'
    <3>1. r \notin Joins
      BY <2>2, RequestsAssumption
    <3> QED  BY <2>2, <3>1 DEF IsRefresh, OnRecord
  <2>3. \A r : committed' = Append(committed, r)
              => (i \in DOMAIN committed /\ committed[i] = q) \/ q = r
    BY <1>2, <1>5 DEF TypeOK
  <2> QED  BY <1>1, <1>5, <2>1, <2>2, <2>3 DEF GameStep, Commit
<1>6. ASSUME NEW g, NEW p \in g.seated, SeatsOnRecord(g)
      PROVE  \E r \in Joins : PlayerOf[r] = p /\ OnRecord(r)'
  BY <1>3, <1>6 DEF SeatsOnRecord, Requests
<1>7. ASSUME game' # NoGame, NEW p \in game'.seated
      PROVE  \E r \in Joins : PlayerOf[r] = p /\ OnRecord(r)'
  <2>1. CASE game' = game
    BY <1>4, <1>6, <1>7, <2>1
  <2>2. ASSUME NEW r \in Requests, game' = After(r, loaded[r]),
               pc'[r] = "ledger" \/ IsRefresh(r, loaded[r])
        PROVE  \E q \in Joins : PlayerOf[q] = p /\ OnRecord(q)'
    <3>1. p \in loaded[r].seated \/ (r \in Joins /\ p = PlayerOf[r])
      BY <1>7, <2>2 DEF After
    <3>2. CASE p \in loaded[r].seated
      BY <1>4, <1>6, <3>2
    <3>3. CASE r \in Joins /\ p = PlayerOf[r] /\ pc'[r] = "ledger"
      BY <3>3 DEF OnRecord
    <3> QED  BY <2>2, <3>1, <3>2, <3>3 DEF IsRefresh
  <2>3. CASE game' = NewGame
    BY <1>7, <2>3 DEF NewGame
  <2> QED  BY <1>1, <1>7, <2>1, <2>2, <2>3 DEF GameStep, Commit, StoreNew
<1>8. ASSUME NEW r \in Requests, NEW p \in loaded'[r].seated
      PROVE  \E q \in Joins : PlayerOf[q] = p /\ OnRecord(q)'
  <2>1. CASE loaded'[r] = loaded[r]
    BY <1>4, <1>6, <1>8, <2>1
  <2>2. CASE game # NoGame /\ loaded'[r] = game
    BY <1>4, <1>6, <1>8, <2>2
  <2> QED  BY <2>1, <2>2 DEF EntryStep
<1> QED  BY <1>1, <1>5, <1>7, <1>8 DEF RecordInv, SeatsOnRecord, OnRecord, Recorded


\* Together they are inductive.
ServiceInv ==
  EffectInv /\ LockInv /\ FreshInv /\ ConflictHasCause /\ OrderInv /\ RecordInv

LEMMA InitServiceInv == Init => ServiceInv
<1> SUFFICES ASSUME Init PROVE ServiceInv
  OBVIOUS
<1>1. \A r \in Requests : pc[r] = "idle" /\ outcome[r] = "none" /\ loaded[r] = NewGame
  BY DEF Init
<1>2. ledger = <<>> /\ events = <<>> /\ committed = <<>> /\ game = NoGame /\ strays = {}
  BY DEF Init
<1>3. EffectInv /\ LockInv /\ FreshInv /\ ConflictHasCause
  BY <1>1 DEF EffectInv, LockInv, FreshInv, ConflictHasCause, Inside, Late, Settled,
              Clients, Requests
<1>4. OrderInv
  BY <1>1 DEF OrderInv, Late
<1>5. RecordInv
  BY <1>1, <1>2 DEF RecordInv, SeatsOnRecord, NewGame
<1> QED  BY <1>3, <1>4, <1>5 DEF ServiceInv

LEMMA NextServiceInv == IInv /\ ServiceInv /\ [Next]_vars => ServiceInv'
<1> SUFFICES ASSUME IInv, ServiceInv, [Next]_vars PROVE ServiceInv'
  OBVIOUS
<1>1. EffectInv /\ LockInv /\ FreshInv /\ ConflictHasCause /\ OrderInv /\ RecordInv
  BY DEF ServiceInv
<1>2. StoreStep /\ CopyStep /\ LogStep /\ ResultStep
  BY StoreSteps, CopySteps, LogSteps, ResultSteps DEF IInv
<1>3. LockStep /\ GameStep /\ ConflictStep /\ EntryStep
  BY LockSteps, GameSteps, ConflictSteps, EntrySteps DEF IInv
<1>4. EffectInv' /\ LockInv' /\ FreshInv' /\ ConflictHasCause'
  BY <1>1, <1>2, <1>3, CommitSteps, EffectStep, LockInvStep, FreshStep, ConflictCauseStep DEF IInv
<1>5. OrderInv' /\ RecordInv'
  BY <1>1, <1>2, <1>3, OrderStep, RecordStep
<1> QED  BY <1>4, <1>5 DEF ServiceInv

THEOREM ServiceInvariance == Spec => []ServiceInv
  BY InitServiceInv, NextServiceInv, Invariance, PTL DEF Spec

\* Whoever is inside has the lock to itself, as long as none runs out on a
\* request at work (TryLock and releaseScript), even from another request's
\* late commands and from its own.
THEOREM LockExcludes == Spec => [](lapses = 0 => \A q, r \in Requests :
                                     pc[q] \in Inside /\ pc[r] \in Inside => q = r)
<1>1. ServiceInv => (lapses = 0 => \A q, r \in Requests :
                        pc[q] \in Inside /\ pc[r] \in Inside => q = r)
  BY OneInside DEF ServiceInv
<1> QED  BY <1>1, ServiceInvariance, PTL

\* "CAS conflict is a server bug (lock should prevent it)": while locks and the
\* game last, a save of ProcessMove or JoinGame is refused only if its own first
\* run was made, or one that came late, whose request had failed.
THEOREM ConflictsAreAccountedFor == Spec => []ConflictHasCause
<1>1. ServiceInv => ConflictHasCause
  BY DEF ServiceInv
<1> QED  BY <1>1, ServiceInvariance, PTL

\* Rows of the moves table and events are added in the order of the versions.
THEOREM LogsInOrder == Spec => InOrder
<1>1. ServiceInv => (lapses = 0 =>
                       \A r \in Requests :
                         /\ pc[r] = "ledger" /\ ledger' = Append(ledger, Entry(r))
                              => Newest(Entry(r), ledger)
                         /\ pc[r] = "publish" /\ events' = Append(events, Entry(r))
                              => Newest(Entry(r), events))
  BY DEF ServiceInv, OrderInv, Late
<1> QED  BY <1>1, ServiceInvariance, PTL DEF InOrder

\* The moves table misses no move and no seat when nothing failed.
THEOREM LedgerMissesNothing == Spec => []LedgerComplete
<1>1. IInv /\ ServiceInv => LedgerComplete
  <2> SUFFICES ASSUME IInv, ServiceInv, Quiet, faults = 0
               PROVE  /\ \A i \in DOMAIN committed :
                           committed[i] \in Moves => Recorded(committed[i])
                      /\ game # NoGame =>
                           \A p \in game.seated : \E r \in Joins : PlayerOf[r] = p /\ Recorded(r)
    BY DEF LedgerComplete
  <2>1. \A r \in Requests : OnRecord(r) => Recorded(r)
    BY DEF Quiet, OnRecord
  <2> QED  BY <2>1 DEF ServiceInv, RecordInv, SeatsOnRecord, Requests
<1> QED  BY <1>1, Invariance, ServiceInvariance, PTL

=============================================================================
