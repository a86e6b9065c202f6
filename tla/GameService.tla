---------------------------- MODULE GameService ----------------------------
(***************************************************************************)
(* One game behind the service: requests that create it, join it or move   *)
(* in it run concurrently, each through the lock, the load, the compare-   *)
(* and-swap save, the ledger and the publication of JoinGame and           *)
(* ProcessMove.  Every call to Redis or Postgres is a step of its own.  It *)
(* may fail, and yet its command may take effect, at once, later or never; *)
(* the Redis client may send a command again while an earlier copy is on   *)
(* its way; a request may die between any two calls; the lock lapses on    *)
(* its own, and so does the stored game.                                   *)
(*                                                                         *)
(* A request is its own lock token (the code draws 16 random bytes).  Of   *)
(* the stored game the model keeps the version, who is seated and, as its  *)
(* content, the requests whose effects it holds.                           *)
(***************************************************************************)
EXTENDS Integers, Sequences, FiniteSets

CONSTANTS
  Creates, Joins, Moves,  \* the requests, by kind
  Players, PlayerOf,      \* PlayerOf[r]: who sends a join
  MaxRetries,             \* len(lockBackoff)
  ClientVersions,         \* client_version values that moves carry
  MaxFaults,              \* bound: failed calls, resent commands and crashes
  MaxLapses,              \* bound: times the lock runs out on a request at work
  MaxGameLapses,          \* bound: times the 24 hours of the game run out
  Free, NoGame            \* no lock key, no state key

Requests == Creates \cup Joins \cup Moves

ASSUME RequestsAssumption ==
  /\ Creates \cap Joins = {} /\ Creates \cap Moves = {} /\ Joins \cap Moves = {}
  /\ Free \notin Requests
  /\ PlayerOf \in [Joins -> Players]

ASSUME BoundsAssumption ==
  /\ MaxRetries \in Nat /\ ClientVersions \subseteq Nat
  /\ MaxFaults \in Nat /\ MaxLapses \in Nat /\ MaxGameLapses \in Nat

VARIABLES
  \* Redis: the state and version keys (always written together), the lock
  \* key, and what was published on the game's channel
  game, lock, events,
  \* Postgres: whether the games row exists, and the moves table
  row, ledger,
  \* copies of commands that nobody waits for and that may take effect yet
  strays,
  \* the requests: program counter, the game as loaded, lock attempts that
  \* failed, the version a move carries, the result
  pc, loaded, attempts, clientVersion, outcome,
  \* every save that succeeded since the game was created, in order (history)
  committed,
  faults, lapses, gameLapses

redisVars == <<game, lock, events>>
postgresVars == <<row, ledger>>
localVars == <<loaded, attempts, clientVersion>>
faultVars == <<strays, faults, lapses, gameLapses>>

vars == <<redisVars, postgresVars, pc, localVars, outcome, committed, faultVars>>

PCs == {"idle", "insert", "new", "lock", "load", "save", "ledger", "publish",
        "release", "done"}

\* The program counters at which a request has sent a command that changes
\* something; they name the commands, too.
Commands == {"insert", "new", "lock", "save", "ledger", "publish", "release"}

Refusals == {"busy", "not_found", "full", "stale", "invalid", "conflict"}

Outcomes == {"none", "ok", "error", "crashed"} \cup Refusals

Game == [version : Nat, seated : SUBSET Players, ops : Seq(Requests)]

ASSUME NoGameAssumption == NoGame \notin Game

NewGame == [version |-> 1, seated |-> {}, ops |-> <<>>]

Init ==
  /\ game = NoGame /\ lock = Free /\ events = <<>>
  /\ row = FALSE /\ ledger = <<>> /\ strays = {}
  /\ pc = [r \in Requests |-> "idle"]
  /\ loaded = [r \in Requests |-> NewGame]
  /\ attempts = [r \in Requests |-> 0]
  /\ clientVersion = [r \in Requests |-> 0]
  /\ outcome = [r \in Requests |-> "none"]
  /\ committed = <<>>
  /\ faults = 0 /\ lapses = 0 /\ gameLapses = 0

----------------------------------------------------------------------------
(* What a request does to a game *)

Goto(r, label) == pc' = [pc EXCEPT ![r] = label]

Result(r, o) == outcome' = [outcome EXCEPT ![r] = o]

\* Mutant: every join takes the refresh path.
IsRefresh_AnyJoin(r, g) == r \in Joins

\* The player already has a seat: her connection is refreshed, no more.
IsRefresh(r, g) == r \in Joins /\ PlayerOf[r] \in g.seated

After(r, g) ==
  [version |-> g.version + 1,
   seated |-> IF r \in Joins THEN g.seated \cup {PlayerOf[r]} ELSE g.seated,
   ops |-> Append(g.ops, r)]

\* Mutant: the version is not compared.
CasMatches_AnyVersion(expected) == game = NoGame => expected = 0

\* The compare-and-swap of saveScript; a missing key matches version 0.
CasMatches(expected) ==
  IF game = NoGame THEN expected = 0 ELSE game.version = expected

----------------------------------------------------------------------------
(* Creating a game.  The id is drawn for this one request, so there is one
   creator, and no lock is taken: nobody else knows the id yet. *)

BeginCreate(r) ==
  /\ r \in Creates /\ \A q \in Creates : pc[q] = "idle"
  /\ Goto(r, "insert")
  /\ UNCHANGED <<redisVars, postgresVars, localVars, outcome, committed, faultVars>>

InsertGame(r) ==
  /\ pc[r] = "insert"
  /\ row' = TRUE
  /\ Goto(r, "new")
  /\ UNCHANGED <<redisVars, ledger, localVars, outcome, committed, faultVars>>

\* What a save with an expected version of 0 does.
StoreNew == game' = IF CasMatches(0) THEN NewGame ELSE game

SaveNew(r) ==
  /\ pc[r] = "new"
  /\ StoreNew
  /\ Result(r, IF CasMatches(0) THEN "ok" ELSE "conflict")
  /\ Goto(r, "done")
  /\ UNCHANGED <<lock, events, postgresVars, localVars, committed, faultVars>>

----------------------------------------------------------------------------
(* JoinGame and ProcessMove *)

Begin(r) ==
  /\ r \notin Creates /\ pc[r] = "idle"
  /\ Goto(r, "lock")
  /\ \E v \in ClientVersions :
       clientVersion' = IF r \in Moves THEN [clientVersion EXCEPT ![r] = v]
                                       ELSE clientVersion
  /\ UNCHANGED <<redisVars, postgresVars, loaded, attempts, outcome, committed,
                 faultVars>>

\* Mutant: the result of SetNX is ignored.
TryLock_Ignored(r) ==
  /\ pc[r] = "lock"
  /\ lock' = IF lock = Free THEN r ELSE lock
  /\ Goto(r, "load")
  /\ UNCHANGED <<game, events, postgresVars, localVars, outcome, committed, faultVars>>

TryLock(r) ==
  /\ pc[r] = "lock" /\ lock = Free
  /\ lock' = r
  /\ Goto(r, "load")
  /\ UNCHANGED <<game, events, postgresVars, localVars, outcome, committed, faultVars>>

\* Mutant: one attempt too many.
Exhausted_OneMore(k) == k > MaxRetries

Exhausted(k) == k >= MaxRetries

\* The lock is held: wait for the next attempt, or give up.
LockHeld(r) ==
  /\ pc[r] = "lock" /\ lock # Free
  /\ attempts' = [attempts EXCEPT ![r] = @ + 1]
  /\ IF Exhausted(attempts[r])
       THEN Goto(r, "done") /\ Result(r, "busy")
       ELSE UNCHANGED <<pc, outcome>>
  /\ UNCHANGED <<redisVars, postgresVars, loaded, clientVersion, committed, faultVars>>

\* What the request makes of the game it loaded: "save", or why it is refused.
\* Whether there is a seat (a move can change how many there are) and whether
\* the rules accept a move is the engine's business: here it goes either way.
Verdicts(r, g) ==
  IF r \in Joins
    THEN IF PlayerOf[r] \in g.seated THEN {"save"} ELSE {"save", "full"}
    ELSE IF clientVersion[r] # g.version THEN {"stale"} ELSE {"save", "invalid"}

\* Mutant: a game that is not there is waited for.
Load_WaitsForGame(r) ==
  /\ pc[r] = "load"
  /\ IF game = NoGame
       THEN UNCHANGED <<loaded, pc, outcome>>
       ELSE /\ loaded' = [loaded EXCEPT ![r] = game]
            /\ \E v \in Verdicts(r, game) :
                 IF v = "save" THEN Goto(r, "save") /\ UNCHANGED outcome
                               ELSE Goto(r, "release") /\ Result(r, v)
  /\ UNCHANGED <<redisVars, postgresVars, attempts, clientVersion, committed, faultVars>>

Load(r) ==
  /\ pc[r] = "load"
  /\ IF game = NoGame
       THEN Goto(r, "release") /\ Result(r, "not_found") /\ UNCHANGED loaded
       ELSE /\ loaded' = [loaded EXCEPT ![r] = game]
            /\ \E v \in Verdicts(r, game) :
                 IF v = "save" THEN Goto(r, "save") /\ UNCHANGED outcome
                               ELSE Goto(r, "release") /\ Result(r, v)
  /\ UNCHANGED <<redisVars, postgresVars, attempts, clientVersion, committed, faultVars>>

\* The script's effect when the stored version is still the loaded one.
Commit(r) ==
  /\ CasMatches(loaded[r].version)
  /\ game' = After(r, loaded[r])
  /\ committed' = Append(committed, r)

\* Mutant: the lock is given back before the ledger is written.
Save_ReleasesFirst(r) ==
  /\ pc[r] = "save"
  /\ Commit(r)
  /\ IF IsRefresh(r, loaded[r])
       THEN Goto(r, "release") /\ Result(r, "ok")
       ELSE Goto(r, "ledger") /\ UNCHANGED outcome
  /\ lock' = IF lock = r THEN Free ELSE lock
  /\ UNCHANGED <<events, postgresVars, localVars, faultVars>>

\* A refresh returns at once: it is neither recorded nor published.
Save(r) ==
  /\ pc[r] = "save"
  /\ Commit(r)
  /\ IF IsRefresh(r, loaded[r])
       THEN Goto(r, "release") /\ Result(r, "ok")
       ELSE Goto(r, "ledger") /\ UNCHANGED outcome
  /\ UNCHANGED <<lock, events, postgresVars, localVars, faultVars>>

\* Mutant: a save that changed nothing is reported as a success.
SaveConflict_ReportsOk(r) ==
  /\ pc[r] = "save" /\ ~CasMatches(loaded[r].version)
  /\ Goto(r, "release") /\ Result(r, "ok")
  /\ UNCHANGED <<redisVars, postgresVars, localVars, committed, faultVars>>

SaveConflict(r) ==
  /\ pc[r] = "save" /\ ~CasMatches(loaded[r].version)
  /\ Goto(r, "release") /\ Result(r, "conflict")
  /\ UNCHANGED <<redisVars, postgresVars, localVars, committed, faultVars>>

\* Mutant: the version before the move is recorded.
Entry_OldVersion(r) == [req |-> r, version |-> loaded[r].version]

Entry(r) == [req |-> r, version |-> loaded[r].version + 1]

SaveMove(r) ==
  /\ pc[r] = "ledger"
  /\ ledger' = Append(ledger, Entry(r))
  /\ Goto(r, "publish")
  /\ UNCHANGED <<redisVars, row, localVars, outcome, committed, faultVars>>

PublishEvent(r) ==
  /\ pc[r] = "publish"
  /\ events' = Append(events, Entry(r))
  /\ Goto(r, "release") /\ Result(r, "ok")
  /\ UNCHANGED <<game, lock, postgresVars, localVars, committed, faultVars>>

\* Mutant: the key is deleted whoever owns it.
Released_Anyones(r) == Free

\* releaseScript: only the owner's token deletes the key.
Released(r) == IF lock = r THEN Free ELSE lock

ReleaseLock(r) ==
  /\ pc[r] = "release"
  /\ lock' = Released(r)
  /\ Goto(r, "done")
  /\ UNCHANGED <<game, events, postgresVars, localVars, outcome, committed, faultVars>>

----------------------------------------------------------------------------
(* Faults *)

Fault == faults < MaxFaults /\ faults' = faults + 1

\* The copies on their way once r waits for its command no longer.
Left(r) == IF pc[r] \in Commands THEN strays \cup {<<pc[r], r>>} ELSE strays

\* Where an error leaves a request: past the lock, the deferred release runs.
Unwind(r) ==
  Goto(r, IF pc[r] \in {"load", "save", "ledger"} THEN "release" ELSE "done")

\* A call fails: it cannot connect, its reply does not come in time, or the
\* context is cancelled.  Whether its command has left, nobody knows.  The
\* errors of a publication and of a release are ignored.
CallFails(r) ==
  /\ Fault
  /\ strays' = Left(r)
  /\ \/ /\ pc[r] \in {"insert", "new", "lock", "load", "save", "ledger"}
        /\ Unwind(r) /\ Result(r, "error")
     \/ /\ pc[r] = "publish"
        /\ Goto(r, "release") /\ Result(r, "ok")
     \/ /\ pc[r] = "release"
        /\ Goto(r, "done") /\ UNCHANGED outcome
  /\ UNCHANGED <<redisVars, postgresVars, localVars, committed, lapses, gameLapses>>

\* No reply comes, and the Redis client sends the command once more (the
\* default of go-redis, which NewStore does not change).
Resend(r) ==
  /\ Fault
  /\ pc[r] \in Commands \ {"insert", "ledger"}
  /\ strays' = Left(r) /\ strays' # strays
  /\ UNCHANGED <<redisVars, postgresVars, pc, localVars, outcome, committed, lapses,
                 gameLapses>>

\* The server dies with the request in hand; nothing is released.
Crash(r) ==
  /\ Fault
  /\ pc[r] \notin {"idle", "done"}
  /\ strays' = Left(r)
  /\ Goto(r, "done")
  /\ Result(r, "crashed")
  /\ UNCHANGED <<redisVars, postgresVars, localVars, committed, lapses, gameLapses>>

\* A copy that nobody waits for takes effect after all: the second run of a
\* command, the first that was given up, or one whose request has moved on.
\* A copy that would change nothing any more is one that never arrives.
Arrive(k, r) ==
  /\ <<k, r>> \in strays
  /\ strays' = strays \ {<<k, r>>}
  /\ \/ /\ k = "insert" /\ row' = TRUE
        /\ UNCHANGED <<redisVars, ledger, committed>>
     \/ /\ k = "new" /\ StoreNew
        /\ UNCHANGED <<lock, events, postgresVars, committed>>
     \/ /\ k = "lock" /\ lock = Free /\ lock' = r
        /\ UNCHANGED <<game, events, postgresVars, committed>>
     \/ /\ k = "save" /\ Commit(r)
        /\ UNCHANGED <<lock, events, postgresVars>>
     \/ /\ k = "ledger" /\ ledger' = Append(ledger, Entry(r))
        /\ UNCHANGED <<redisVars, row, committed>>
     \/ /\ k = "publish" /\ events' = Append(events, Entry(r))
        /\ UNCHANGED <<game, lock, postgresVars, committed>>
     \/ /\ k = "release" /\ lock' = Released(r)
        /\ UNCHANGED <<game, events, postgresVars, committed>>
  /\ UNCHANGED <<pc, localVars, outcome, faults, lapses, gameLapses>>

\* Mutant: the lock is set without a time to live.
LockLapses_Never == FALSE /\ UNCHANGED vars

\* Five seconds have passed since the lock was taken; the request that took
\* it may be gone, or still at work.
LockLapses ==
  /\ lock # Free
  /\ lock' = Free
  /\ IF pc[lock] = "done" THEN UNCHANGED lapses
                          ELSE lapses < MaxLapses /\ lapses' = lapses + 1
  /\ UNCHANGED <<game, events, postgresVars, strays, pc, localVars, outcome,
                 committed, faults, gameLapses>>

\* Command k of r is yet to take effect, or a copy of it may do so once more.
Pending(k, r) == pc[r] = k \/ <<k, r>> \in strays

\* Twenty-four hours have passed since the last save.  A command is sent for
\* seconds and on its way for minutes, so the creation is long over.
GameLapses ==
  /\ game # NoGame /\ gameLapses < MaxGameLapses
  /\ \A r \in Creates : ~Pending("new", r)
  /\ game' = NoGame /\ gameLapses' = gameLapses + 1
  /\ UNCHANGED <<lock, events, postgresVars, strays, pc, localVars, outcome,
                 committed, faults, lapses>>

----------------------------------------------------------------------------

\* A step the server takes on behalf of r.
Serve(r) ==
  \/ InsertGame(r) \/ SaveNew(r)
  \/ TryLock(r) \/ LockHeld(r) \/ Load(r) \/ Save(r) \/ SaveConflict(r)
  \/ SaveMove(r) \/ PublishEvent(r) \/ ReleaseLock(r)

Disturb(r) ==
  \/ CallFails(r) \/ Resend(r) \/ Crash(r)
  \/ \E k \in Commands : Arrive(k, r)

AllDone == (\A r \in Requests : pc[r] \in {"idle", "done"}) /\ UNCHANGED vars

Next ==
  \/ \E r \in Requests : BeginCreate(r) \/ Begin(r) \/ Serve(r) \/ Disturb(r)
  \/ LockLapses \/ GameLapses
  \/ AllDone

Spec == Init /\ [][Next]_vars

\* The server goes on with every request it has, and a lock key Redis holds
\* with a time to live does not stay for ever.
Fairness == (\A r \in Requests : WF_vars(Serve(r))) /\ WF_vars(LockLapses)

FairSpec == Spec /\ Fairness

----------------------------------------------------------------------------
(* Properties *)

\* Every variable has its type.
TypeOK ==
  /\ game \in Game \cup {NoGame} /\ lock \in Requests \cup {Free}
  /\ events \in Seq([req : Requests, version : Nat])
  /\ row \in BOOLEAN /\ ledger \in Seq([req : Requests, version : Nat])
  /\ strays \subseteq Commands \X Requests
  /\ pc \in [Requests -> PCs] /\ loaded \in [Requests -> Game]
  /\ attempts \in [Requests -> 0..(MaxRetries + 1)]
  /\ clientVersion \in [Requests -> Nat] /\ outcome \in [Requests -> Outcomes]
  /\ committed \in Seq(Requests)
  /\ faults \in Nat /\ lapses \in Nat /\ gameLapses \in Nat

\* The stored game is the result of every save that succeeded and of nothing
\* else, whoever held the lock meanwhile: saveScript lets no save overwrite one
\* it has not seen, and the version counts them.
NoLostUpdate ==
  game # NoGame => game.ops = committed /\ game.version = Len(committed) + 1

\* A ledger row or an event of version v is about the request that made it.
VersionsAgree ==
  \A log \in {ledger, events} : \A i \in DOMAIN log :
    /\ log[i].version - 1 \in DOMAIN committed
    /\ committed[log[i].version - 1] = log[i].req

\* Everything that is committed is committed once: the second run of a save
\* finds the version that the first one wrote and changes nothing.
SavedOnce ==
  \A i, j \in DOMAIN committed : committed[i] = committed[j] => i = j

\* A request gives back the lock, or a copy of its release arrives.
Releases(r) ==
  \/ pc[r] = "release" /\ pc'[r] # "release"
  \/ <<"release", r>> \in strays \ strays'

\* releaseScript: a release that comes late, the lock long run out or given
\* back, leaves the successor's lock alone.
ReleasesItsOwn ==
  [][\A r \in Requests : Releases(r) /\ lock # r => lock' = lock]_vars

\* Its request was told that something went wrong, or nothing at all.
Lost(r) == outcome[r] \in {"error", "crashed"}

\* The design's word on the save of ProcessMove is "CAS conflict is a server bug
\* (lock should prevent it)".  As long as neither a lock nor the game runs out
\* on a request at work, it does prevent one with another request that is at
\* work: whoever is told of a conflict has met the first run of its own save, or
\* a save that came late, after its own request had failed.
ConflictHasCause ==
  lapses = 0 /\ gameLapses = 0 =>
    \A r \in Requests \ Creates : outcome[r] = "conflict" =>
      \E i \in DOMAIN committed :
        i >= loaded[r].version /\ (committed[i] = r \/ Lost(committed[i]))

\* What a comment claims of the save: "ErrStaleVersion is returned when another
\* writer got there first"; so whoever is told so has saved nothing.
ConflictMeansOther ==
  \A r \in Requests : outcome[r] = "conflict" => r \notin {committed[i] : i \in DOMAIN committed}

\* Nothing in the log is of a newer version than e.
Newest(e, log) == \A i \in DOMAIN log : log[i].version <= e.version

\* Ledger rows and events appear in the order of the versions, as long as no
\* lock runs out on a request at work: what a request adds while it is at it is
\* never older than what is there.  (A publication that ran twice repeats its
\* version; a row or an event that was given up may come in late.)
InOrder ==
  [][lapses = 0 =>
       \A r \in Requests :
         /\ pc[r] = "ledger" /\ ledger' = Append(ledger, Entry(r))
              => Newest(Entry(r), ledger)
         /\ pc[r] = "publish" /\ events' = Append(events, Entry(r))
              => Newest(Entry(r), events)]_vars

Quiet == \A r \in Requests : pc[r] \in {"idle", "done"}

Recorded(r) == \E i \in DOMAIN ledger : ledger[i].req = r

\* The ledger is an audit trail: when nothing is in progress it has every move
\* that was made and the join of everyone who is seated, unless a call failed
\* or a request died; that locks and games run out takes nothing from it.
LedgerComplete ==
  Quiet /\ faults = 0 =>
    /\ \A i \in DOMAIN committed : committed[i] \in Moves => Recorded(committed[i])
    /\ game # NoGame =>
         \A p \in game.seated : \E r \in Joins : PlayerOf[r] = p /\ Recorded(r)

\* The service keeps the promise of GameLog: what it answers when.  A save that
\* finds another version and a client that sends an old one are answered alike,
\* ErrStaleVersion; what was saved the request may have saved itself, in a first
\* run, so nobody can tell from the answer.
Told(o) ==
  CASE o = "ok" -> "ok"
    [] o \in {"busy", "not_found", "full", "invalid"} -> "refused"
    [] OTHER -> "failed"

Answers ==
  [r \in Joins \cup Moves |-> IF pc[r] = "done" THEN Told(outcome[r]) ELSE "none"]

Promise ==
  INSTANCE GameLog WITH
    Requests <- Joins \cup Moves, log <- committed, answer <- Answers

KeepsPromise == Promise!Spec

\* Every request the server accepts is answered, whatever happens to others.
EveryRequestAnswered ==
  \A r \in Requests : pc[r] # "idle" ~> pc[r] = "done"

\* No crash, error or late command blocks a game for good.
LockFreed == []<>(lock = Free)

\* A request may find the lock taken by its own first attempt and give up; the
\* key lapses, and the game is not blocked for good.
OwnLockLapses ==
  \A r \in Requests : (lock = r /\ outcome[r] = "busy") ~> lock # r

=============================================================================
