# Verification of go-mighty

TLA+ models of the game server in `src/`: the rules of the card game, its
scoring, the service that lets several clients change one game at the same
time, and what stands around it: sockets, limits, accounts and the lobby. TLC
checks small instances; TLAPS proves what holds for all of them.

## 1. The system

go-mighty is a backend for Mighty, a trick-taking game for four or five
players. Clients create, join and play games over HTTP and a WebSocket; the
state of a game is a JSON document in Redis; Postgres keeps a ledger of moves
and the accounts.

| Component | Source | State | Operations | Modelled in |
|---|---|---|---|---|
| Rules engine | `internal/game` | `Game`: phase, seats, hands, kitty, auction, contract, friend, tricks, piles, votes, totals | `ValidateMove`, `ApplyMove` (bid, pass, discard, call, play, change of size, vote), `Start`, `resetForNextRound` | `Mighty`, `Cards` |
| Scoring | `internal/game/rules.go`, `CalculateFinalScore` | none | a round's score from the contract and the piles | `Scoring`, `ScoringSweep` |
| Game service | `internal/service/game_service.go` | none of its own; each request holds a loaded copy | `CreateGame`, `JoinGame`, `ProcessMove`; reads | `GameService`, `GameLog` |
| Redis store | `internal/store/redis` | state and version keys (24 h), lock key (5 s), event channel | compare-and-swap save, load, lock with three retries, release by token, publish | `GameService` |
| Postgres store | `internal/store/postgres/postgres.go`, `migrations/` | tables `games` and `moves` | insert of a game, insert of a move, listing of the newest 50 | `GameService` (inserts), `Lobby` |
| WebSocket handler | `internal/api/ws.go` | per socket: two loops, write mutex, deadline, subscription, message bucket | authenticate, acquire, subscribe, forward events, ping, read moves, and the deferred calls | `Sockets` |
| Connection registry | `internal/api/connlimit.go` | live sockets by user and by address | acquire, release once | `ConnRegistry`, `ConnLimit` |
| Rate limiting | `internal/ratelimit`, `internal/api/ratelimit_middleware.go` | a token bucket per user and action in Redis, one per socket in memory | `Allow`, the `Retry-After` header | `RateLimiter`, `TokenBucket` |
| User store, identity | `internal/store/postgres/user_store.go`, `internal/service/cognito_auth.go` | tables `users`, `user_stats` | upsert on first sight, display name | `Users` (not the verification of tokens) |
| HTTP handlers | `internal/api/handler.go` and the rest of `internal/api` | none | create and join, list; decode, call, encode | `Lobby` (create and join, list) |
| Infrastructure, wiring | `internal/infra`, `cmd/server` | none | connect, serve, shut down | not modelled |

How they interact. A handler authenticates a request and calls the service.
`JoinGame` and `ProcessMove` take the game's lock in Redis, load the game, let
the rules engine change the copy in memory, save it by compare-and-swap on the
version, insert a row into `moves`, publish an event and release the lock in a
deferred call. Sockets are subscribed to the event channel and forward what is
published. Before that, a request is mapped to a row of `users` and takes a token
of its user's bucket, and a socket takes a slot in the registry. Nothing else is
shared: the server may run in several processes, and Redis and Postgres are all
that they have in common.

What is hard here.

* *Between requests*: every arrow above is a remote call which may fail, take
  effect and lose its reply, take effect late, or be sent again by the client
  library; the lock runs out after five seconds whatever its holder does; a process
  may die between any two calls; a client repeats a join.
* *Within a socket*: two goroutines share one connection and one mutex, writes
  have no deadline, reads do, and each of a dozen ways out must give back the slot.
* *Between clocks*: requests are stamped by the servers, keys expire by Redis's
  clock, calls overtake each other, are repeated and have no deadline.
* *In the lobby*: creating a game is three remote calls which others see in
  between, a listing reads a row that never changes and a state that does, and a
  table that has been played at may get another seat, which joins give away.
* *In the database*: first requests of one user, or of users with one name, insert
  inside transactions that wait for each other.
* *Within the rules*: a game is a long sequence of moves with state that must be
  reset at the right places (a redeal, the next round, a table that changes its
  size), forced plays that may contradict each other, a friend that is recomputed
  from hands and tricks at every use, and a score which has to sum to zero.
* *At boundaries*: bids of 3 and 10, the first and the last trick, doublings at 9
  and 20 captured cards, the half points of an odd stake.

What makes each part correct is in section 4 (checked) and 5 (proved); the
hazards behind it, each with its line in the source, are in `PROJECT.json`.

## 2. Modules

    Cards, Scoring --> Mighty --> MCMighty
    Scoring --> ScoringSweep
    Scoring --> ScoringProofs
    Mighty, ScoringProofs --> MightyProofs --> PlayProofs

    GameLog <-- (implemented by) -- GameService --> MCGameService
                                         '--> GameServiceProofs

    ConnLimit <-- (implemented by) -- ConnRegistry --> MCConnRegistry
                                           '--> Sockets --> MCSockets
                                                   '--> RegistryProofs
    TokenBucket <-- (implemented by) -- RateLimiter --> RateProofs
    Users --> MCUsers
    Lobby --> MCLobby

    Sockets, RateLimiter, Lobby, ScoringSweep --> Parts --> MCParts
    GameService, Sockets, Users --> LiveParts --> MCLiveParts
    Parts, ScoringProofs, RateProofs, RegistryProofs --> PartsProofs
    LiveParts, GameServiceProofs, RegistryProofs --> LiveProofs

**Cards** is the deck and the trick: `CalculatePower` and `ResolveTrick`. A rank
is the number `RankValue` gives it, because ranks are only ever compared.

**Scoring** is `CalculateFinalScore` as a function of the contract, the friend
and the number of scoring cards in each pile. The number of scoring cards (20)
and the highest bid (10) are constants: the target `bid + 10` is
`bid + (TotalPoints - MaxBid)` and "at least 11 lost" is more than half. That
lets small decks be scored by the same formula, and the theorem hold for every
scale.

**ScoringSweep** asks the scoring everything it can be asked: the contract is
chosen in the initial state and the callers capture one scoring card at a time.

**Mighty** is one table. A player is known by her seat (seats fill in order and
nothing in the code gives one up), hands and piles are sets of cards, and of the
list of tricks the model keeps what the code reads of it: its length, the
current trick and who first played each card. Each move of `ApplyMove` is an
action whose guard is what `ValidateMove` accepts; a `case` with two outcomes is
two actions (`Pass` and `Redeal`, `PlayAgain` and `NextRound`). A move that the
code refuses leaves the game as it was and is not an action. `Start` deals one
of the deals in `Deals`, the model's shuffle. `Join` is the seat part of
`JoinGame`. `Next` has no phase order of its own: which move is possible when
follows from the guards.

| Code | Model |
|---|---|
| `Players[i] != nil`, `Config.NumPlayers`, `Dealer` | `seated`, `numPlayers`, `dealer` |
| `Status`, `CurrentTurn` | `status`, `turn` |
| `CurrentBid`, `Declarer`, `PassedPlayers`, `Contract`, `Trump` | `currentBid`, `declarer`, `passed`, `contract`, `trump` |
| `PartnerCard`, `PartnerSeat`, `NoFriend` | `partnerCard`, `partnerSeat`, `noFriend` |
| `Players[i].Hand`, `.Points`, `Kitty` | `hands`, `points`, `kitty` |
| `Tricks` | `trick` (the last), `trickNo` (their number), `played` |
| `Scores`, `TotalScores`, `len(ScoreHistory)`, `PlayAgainVotes` | `scores`, `totals`, `rounds`, `votes` |

**GameService** is one game and the requests on it. A request goes through its
program counter (`lock`, `load`, `save`, `ledger`, `publish`, `release`); each
step is one remote call, with the computation that follows it. A request is its
own lock token. Of a stored game the model keeps the version, who is seated and,
in place of its content, the list of requests whose effect it contains:
applying a request to a stale copy then shows as a request missing from the
list. `committed` is a history variable.

A call and its command are two things. `CallFails`: the request goes on with an
error, and its command may be on its way nevertheless; `Crash`: so it may when the
process dies; `Resend`: the Redis client, which has go-redis's defaults
(`redis.go:32`), sends the command again. Each leaves a copy in `strays`, and
`Arrive` lets a copy take effect, at any time later or never: a save, a row, an
event, a `SetNX` that takes the lock for a request that is gone, a release.
(Statements for Postgres are not sent again.) The other faults are
`LockLapses` and `GameLapses`. A game runs out no sooner than its creation is
over and no copy of it is on its way: 24 hours against the seconds of a call. A move is
accepted or refused by the rules nondeterministically, and so is a join refused for
want of a seat, since moves can change how many there are: `Mighty` and `Lobby`
say when, and the protocol does not depend on it.

| Code | Model |
|---|---|
| `game:<id>`, `game:<id>:version` in Redis | `game`: version, players seated, requests contained; `NoGame` |
| the lock key and its token | `lock` (`Free`, or the request) |
| the event channel, tables `games` and `moves` | `events`, `row`, `ledger` |
| a request: where it is, its copy, its attempts, `client_version`, its answer | `pc`, `loaded`, `attempts`, `clientVersion`, `outcome` |
| commands nobody waits for | `strays` |

**GameLog** is what the service promises, in four lines: a request takes effect
at most once; "ok" means that it did, before the answer; "refused" (busy, not found,
full, against the rules) means that it did not and will not; and of "failed" nobody
can tell. `ErrStaleVersion` is among the last, like an error: a save that ran twice
is told so by its second run, although the first has taken effect (`resent_save`),
and a client cannot tell that from a move with an old `client_version`.
`GameService` implements it with `log <- committed` and the answers read off the
program counters.

**ConnRegistry** is `connLimiter`: two Go maps of counters (a missing key reads
zero, an entry at zero is deleted), `acquire`, and the closure it returns with its
`sync.Once`. Each runs under the registry's mutex and is one step. `slot[c]` is
what connection `c` got. **ConnLimit** is what it promises: a set of live
connections, and nobody turned away unless her user or her address is at its cap.

**Sockets** extends the registry by the handler. For each connection it has two
program counters, `reader` and `writer`, and what they share:

| Code | Model |
|---|---|
| `WSHandler` up to the loop, and its `for` loop | `reader`: `off`, `auth`, `validate`, `acquire`, `subscribe`, `read`, `move`, `error`, `fail`, `hangup` |
| the deferred `pubsub.Close`, `release`, `conn.Close` | `reader`: `unsubscribe`, `release`, `shut`, `closed` |
| the goroutine over `ch`, the ticker and `done` | `writer`: `select`, `ping`, `event`, `gone` |
| `wsWriteMu` | `mu` |
| `SetReadDeadline`, the pong handler | `idle`, in periods of the ticker |
| the channel of the subscription, which drops when full | `queue`, `sub` |
| what fits between `WriteMessage` and a client that does not read | `room` |

The client and the network are environment: a prompt client takes frames and
answers pings within a period, a slow one does as it likes, a silent one sends
nothing more but may read, and a connection may break at any time.

**TokenBucket** is `ratelimit.Bucket`, **RateLimiter** the script in Redis, the call
around it and the header. Credit is counted in the milliseconds that refill it,
which makes the arithmetic exact. Servers stamp requests with their own clocks
(`Skew`), and `Allow` sets no deadline (`limiter.go:111`): a script runs any time
after its stamp, may run twice or after its request has been let through
(`RunsUnseen`), and calls overtake each other or fail (`FailOpen`). `RateLimiter`
implements `TokenBucket`: forgetting a key makes no difference. One step is beyond
it, `RunsLate`: a call that has been under way for longer than the margin (1000 ms,
`limiter.go:79`, less the skew) and finds the key gone. The bucket it starts is full
but for its token and has its old stamp, so the next call refills time that had been
credited once before. `KeepsBucket` says that nothing else happens.

**Users** is `UpsertUserByCognitoSub` with the retry under a suffixed name. Each
statement is a step; of Postgres it has the three unique keys, which rows are
committed, and that an insert waits for an open transaction whose row is in its
way.

**Lobby** is `CreateGame` with the creator's join, `JoinGame` as one step (its
inside is `GameService`), and `ListGamesByStatus`: the query for the newest rows
(`Newest`: the k-th row has k - 1 newer ones of its status) and then one load after
the other. A round is a step, too (its inside is `Mighty`): `EndRound`, and after it
`ChangeConfig`, which changes the number of seats (`size`) that joins read, and
`PlayAgain`. `Enter` starts the game when the last seat is taken, whatever its
phase, as `JoinGame` does (`game_service.go:143`). `steady` and `ever` remember
which games had the phase while a listing ran.

**Parts** and **LiveParts** put these beside each other, for safety and for
liveness. The parts share no state: none reads a variable of another. A property
of one part therefore depends only on the steps of that part, and an interleaving
of several parts shows it nothing new. So the variable `part` says, once and for
all, which part moves; the others stay as they began (`Waits` keeps one initial
state of those). That is why the number of states is the sum, not the product,
of the parts'.

The **MC** modules give the constants values. Operators named
`X_...` with a comment "Mutant" are wrong variants of `X`: each property of the
passing runs fails when one of them takes `X`'s place.

## 3. Plan

1. *(done)* The rules engine and its scoring; the service with its faults.
Proved: type correctness of both, the protocol's safety and the refinement of
`GameLog`, the auction's invariant and progress, scores that sum to zero. 2.
*(done)* The registry with its refinement, the sockets around it, rate limiting
with its refinement, first requests of users, the lobby.    Proved: the registry and
the limiter. 3. *(done)* Proved, for every deal: one place per    card, the friend
and who is shown, totals that sum to zero, a fresh auction each    round and only by
consent, hands in step, the player to move is never stuck,    specials that are
spent, every point captured. 4. *(done)* Proved: what the lock and the ledger give,
commands that run twice or late, the    slots, mutexes and deadlines of sockets,
first requests, the lobby, and each of    the compositions. Every invariant and
safety property of the passing runs is now    a theorem, but for the assumptions
section 5 names. Tables of the lobby change    their number of seats, and calls of
the limiter have no deadline. 5. *(done)* The theorems about play and rounds at a
table that changes its size, as    far as `late_join`, `stale_vote` and
`stale_opponent` leave them true: all of    3 but the totals and the consent. 6. How
far the other two hold there: a round that is scored at a full table sums to    zero
whatever sizes came before. Lemmas that several modules prove alike, in one
place.

## 4. What the runs check

Every passing run explores its whole state space. Deadlock is checked everywhere
but in `parts`, where capturing the last card ends the sweep and a lobby whose
listings are done may have nothing left to do.

**auction** (one card per seat, two rounds, five seats that may become four and
five again in between; about 72,000 states). Bids lie below (2), at (3, 4),
inside (9) and above (11) the range, in a suit and in no-trump, so all ways an
auction can go occur: a redeal, the last of several bidders, the bid of 10. With
one card per hand the play after it is one trick, which is first and last.
`AuctionInv`: the seat to speak is in the auction and is not the highest bidder,
who is still in. `AuctionAdvances`: each step lowers what is left to bid plus
those still in, so an auction ends unless everyone passes for ever.
`FreshAuction`: the next auction starts on a clean board, whether a round, the wait
for players or an auction that was thrown in came before it.

**play** (four cards per seat; about 180,000 states). Four tricks are the fewest in
which first, middle, last but two, last but one and last are different enough: the
forcing of mighty and joker needs three and two cards in hand. The contract decides
what the deal is: in clubs one hand has both special cards, in spades they are
apart; one hand is void of diamonds, and there is a joker caller either way.
`NeverStuck`: the player to move has a card that `validatePlayCard` accepts,
whatever its rules add up to. `NoSpecialAtTheEnd`: the forcing rules keep mighty and
joker out of the last trick. `FriendStable`, `RevealSound`: the recomputed friend
never changes after the call and is the one revealed (a declarer who called her own
card is her own friend there; section 6 says what is written about that).
`HandsInStep`, `OnePlacePerCard`, `PointsAllCaptured`: hands shrink together, no
card is in two places or lost.

**rounds** (two rounds at a table of four, three cards in the kitty so that lost
contracts with an odd stake occur, split 1.5 : 1.5; about 160,000 states):
`TotalsZeroSum`, and `EveryoneConsents`, that a round starts only with the vote of
all who play it.

**service_faults** (creation, two joins of one player and a move; two faults, one
lock and one game expiry anywhere; about 2.4 million states). A fault is a failed
call, a command that is sent again, or a crash, and each may leave a copy that
arrives later. `NoLostUpdate`, the stored game is the result of the saves that
succeeded, in order, and of nothing else; `VersionsAgree`, a row or event carries the
version its request made; `SavedOnce`, no request is committed twice, whatever runs
twice; `ReleasesItsOwn`, a late release leaves a successor's lock alone;
`KeepsPromise`, the refinement. Two faults let a request fail in the middle and its
retry fail too, or a command be sent again and its request die; one expiry suffices
for two requests to hold the same version.

Three properties say what the lock and the ledger give while nothing goes wrong
for them.

* `ConflictHasCause`: as long as neither a lock nor the game has run out on a request
  at work, whoever is told of a conflict has met the first run of its own save, or a
  save that came late, after its request had failed; never one of another request
  that is at work, which is what the lock is for.
* `InOrder`: as long as no lock has run out, what a request adds to ledger and events
  while it is at it is not older than what is there. A publication that runs twice
  repeats its version, and what comes late comes late: that is not order lost between
  requests at work, and the property leaves it out.
* `LedgerComplete`: as long as no call has failed, every save that should have a row
  gets it, whatever expires.

Without those premises they do not hold, see section 6.

**parts**: about 1,150,000 states.

* Sockets: two of one user from one address, caps of one and two, a client that
  does not read, either connection lost at any time. `SlotsMatchSockets`: a slot is
  held from admission until the deferred release on every path, and the counters are
  the number of such sockets. `KeepsLimit` is the refinement of `ConnLimit`. Two
  sockets suffice for one to be turned away and for one to leave while the other
  comes; `IdlePeriods` 1, `Room` 1 and `QueueCap` 0 make every limit bite at once.
* Limiter: three requests through two servers whose clocks differ by one, a bucket
  of one token that takes three to refill, one call that fails or runs unseen.
  `KeepsBucket` is the refinement of `TokenBucket` up to late calls, which occur: a
  call may take all the time there is. `RetryIsHonest`: whoever comes back when the
  header said (later by the difference of the clocks) is not refused again unless
  somebody took a token in between; the second run of a request's own call counts
  as somebody. `Second` 2 lets the header round. The clock runs to 7, which is past
  the expiry (at most 1 + 3 + 2) of a key that was written by the first call.
* Lobby: two games of one or two seats, three players, one of whom lists, a query
  that returns one row, one fault and one expiry. `GamesSound`: a game that can be
  joined has its row; nobody sits twice; a game that waits has a free seat and one
  that is played has none, also after its number of seats was changed between
  rounds; a creator who is told "ok" has a seat. (A finished table may have a free
  seat: that a join may then start it on the old board is `late_join`.)
  `ListingAccurate`: nothing is shown
  twice, nothing that did not have the phase meanwhile, and every game that was
  waiting all the time and is among the newest is. One and two seats are enough for a
  table to be enlarged and to be reduced; 4 and 5 in the code.
* Scoring, with the real constants (20 cards, bids up to 10), over every contract:
  `ZeroSum`; `OutcomeDecidesSign`, a made contract never costs the callers nor a
  lost one the opponents; `DeclarerAtStake`, nobody has more at stake than the
  declarer; `CapturingNeverCosts`, one more captured card never hurts the callers,
  through all doublings and the jump at the target.

**parts_live**: about 92,000 states.

* Requests on a game (a creation, a join, a move; two faults, as above).
  `EveryRequestAnswered` and `LockFreed`, although a request may die, fail, or find
  the lock taken by its own first attempt, and the lock may be taken for a request
  that is gone. The lock runs out only when its holder is done (`MaxLapses` 0);
  `resends`, below, checks the same with one that runs out on a request at work.
* A socket that may be lost, or whose client may get slow or fall silent, with the
  real relation of deadline and ping (two periods), two frames of room and one
  queued event. `LostConnectionEnds`: both loops end. `ReapedUnlessStuck`: a silent
  client is dropped unless a write to it is stuck for ever. `PromptClientStays`: a
  client that answers its pings in time is not, though it has nothing to say.
* Three first requests of two users with one name, two faults. `UsersSound`: a user
  is one row with one name and statistics, and no request goes on without a row.
  `FirstRequestsAnswered`: transactions that wait for each other do not do so for
  ever.

Fairness, part by part. Service and users: weak fairness of `Serve(r)`, the next
step of a request the server has accepted (a goroutine runs and a call returns), and
of `LockLapses` (Redis expires a key whose time is up). Nothing is assumed about
who wins the lock: a waiting request gives up after its retries. Sockets: weak
fairness of both loops and of the passing of time, strong fairness of taking the
mutex (Go's mutex hands over to a waiter after a millisecond) and of noticing `done`
in a `select` with several ready cases (Go chooses at random). Nothing is assumed of
clients or the network; they need not even read.

The bounds: `MaxRounds` leaves the table after two rounds (a third starts like
the second: everything but the totals and the dealer is reset, which is what
`FreshAuction` checks). `MaxFaults`, `MaxLapses`, `MaxGameLapses` cap the
disturbances. `MaxRetries` is 1 (3 in the code): a request still fails an
attempt, waits, and either gets the lock or gives up; `service_faults` has 0, where
it gives up at once.

Six runs show what the code does against what is written about it.

* **offsuit_trick**: a ten or higher of a third suit beats a two of the suit led
  (power 10 + rank against rank), against `rules_test.go:115`.
* **repeated_discard**: a discard of three entries may name one card twice; the
  hand is then too long and scoring cards stay uncaptured, against
  `rules.go:854`. All other runs have `DistinctDiscards = TRUE`.
* **stale_vote**: five become four (which clears the votes cast so far), and the
  fifth player votes: her vote counts for one of the four, against `rules.go:542`.
* **stale_opponent**: after five become four the fifth is still scored as an
  opponent, and a four-player split does not sum to zero, against `rules.go:838`.
* **late_join**: a finished table of four grows to five, somebody joins, and
  `Start` opens an auction on the old board, against `SERVICE_ARCHITECTURE.md:30`.
* **stalled_write**: no write has a deadline, and writes are made under the mutex.
  A client that keeps its connection but reads nothing blocks the write loop; a read
  loop that then has an error to report waits for the mutex and is never at its
  deadline again. Neither ends, against `ws.go:175`.

The passing runs therefore stay away from these: `rounds` keeps its size,
`auction` starts with five seats, so that nobody joins late, and states neither
votes nor totals.

More configurations are kept to be run by hand
(`tlc -config X.cfg <MC module>`), larger or about a single part:

| Configuration | Module | Shows |
|---|---|---|
| `registry` | `MCConnRegistry` | five connections of two users and two addresses, caps 0 to 2: `CountsAreLive`, `CapsHold`, `KeepsLimit` |
| `sockets` | `MCSockets` | two sockets with the real two periods and a slow client: `SlotsMatchSockets` |
| `bucket` | `TokenBucket` | `RateHolds`; `AskingIsFree`, a refused call costs nothing |
| `lobby`, `listing` | `MCLobby` | two who list, games of one and two seats; three games, a query of two rows and one who lists |
| `resends` | `MCGameService` | with fairness, moves of two versions, a retry for the lock and a lock that runs out at any time: `NoLostUpdate`, `SavedOnce`, `VersionsAgree`, `EveryRequestAnswered`, `OwnLockLapses` |
| `service_lock` | `MCGameService` | four requests beside the creation, no faults: no conflict at all (`ConflictHasCause`), `InOrder`, `LedgerComplete` |

and six whose one property TLC finds violated: `creator_seat`, `status_filter`,
`hidden_game` (`MCLobby`), `first_requests`, `taken_name` (`MCUsers`), `resent_save`
(`MCGameService`); section 6 says what each of them is about.

## 5. What is proved

Every safety property of a passing run is stated by a theorem, for every value of the
constants. Each proof finds the invariant that is inductive, and TLC agreed with it on
a small instance first.

**GameServiceProofs**, for any number of requests, seats, retries and faults:

* `TypeCorrect`, `NoUpdateIsLost`, `LogsAreHonest`, `SavesTakeEffectOnce`: `TypeOK`,
  `NoLostUpdate`, `VersionsAgree` and `SavedOnce` are invariants. They follow from
  `IInv`, which adds what is needed to make them inductive: which kind of request can
  be at which program counter, that a copy of a command is of a request that has been
  there (`StraysInv`), that there is no stored game before the creator's save, that a
  loaded copy is a prefix of what has been committed (`LoadedInv`) - so that a copy
  with the current version *is* the current state, which is all the compare-and-swap
  relies on -, that a request past its save, or with a row or an event still on its
  way, is in `committed` at the version after its copy's (`SavedInv`), and that one
  that has been committed holds a copy that is out of date, so that no second run or
  late copy of its save is accepted (`OnceInv`).
* `ReleaseIsOwn`: `ReleasesItsOwn`, for the release script.
* `ServiceKeepsPromise`: `Spec => KeepsPromise`. A save that is accepted, in time or
  late, is `TakeEffect`, the step to `done` is `Answer`, everything else stutters;
  `EffectInv` records which program counters imply that a request is in the log, and
  that a refusal was decided before any save was sent.

These do not mention the lock: the compare-and-swap alone gives safety. What the lock
gives on top needs that it has not expired under its holder (`lapses = 0`), and is the
invariant `ServiceInv`:

* `LockExcludes`: whoever is past taking the lock and not yet past its release has it,
  although attempts to take it and releases may arrive late.
* `ConflictsAreAccountedFor` (`ConflictHasCause`): so nobody at work saves between a
  request's load and its save; what it can meet is its own first run or a copy whose
  request has failed (`FreshInv`).
* `LogsInOrder` (`InOrder`): ledger and events are written under the lock too; every
  version there is at most that of the stored game, and below it while the holder has
  yet to write its own.
* `LedgerMissesNothing` (`LedgerComplete`): `RecordInv`, while no call has failed every
  saved move, and every seat in the stored game or in a copy of it, has its row or a
  request on its way to insert it. It holds whatever expires: a request that saved
  goes on to the ledger with the lock or without it.

All of this assumes that no stored game is mistaken for a missing one
(`NoGameAssumption`).

**ScoringProofs**: `RoundIsZeroSum`, that `RoundScores` sums to zero at a full
table for every stake, setting, friend and pile. The argument: the stake is an
integer, callers and opponents partition the table, so the opponents number
`k - 1` or `k - 2`, and the sum is linear in the stake. `stale_opponent` is the
same formula at a table that is *not* full. **PartsProofs** takes it to the
sweep, for every number of cards and every scale of bids, `SweepInv` saying that
the contract is a possible one. `SweepIsZeroSum` is its invariant `ZeroSum`.
`OutcomeDecides` (`OutcomeDecidesSign`) and `DeclarerRisksMost`
(`DeclarerAtStake`) rest on `StakeSign`: the four doublings leave a stake's sign
alone, and a contract that fails has one. `CapturingPays`
(`CapturingNeverCosts`) needs `SteepTargets`, that the lowest bid undertakes at
least half of the cards (13 of 20 in the code): a made contract is then no back run, so
a stake only shrinks up to the target and only grows from it (`StakeMoves`),
doublings included, and each way of sharing a stake out is monotone in it.

**MightyProofs**, for every deal, hand size, set of bids and calls and rule set:
`TypeCorrect`, the types of a table. They are more than bookkeeping where the
code indexes with what it computes: the winner of a trick is a seat that played
to it (`WinnerPlayed`), the next bidder is found if anybody is left
(`NextBidderFound`), and a highest bid always has a bidder who can take the
contract, which is the one conjunct that `TypeOK` needs to be inductive
(`TypeInv`).

On top of it: `AuctionSound` (`Spec => []AuctionInv`) and
`AuctionEnds` (`Spec => AuctionAdvances`) for every table nobody joins late,
`NoLateJoiner`: it only ever shrinks, or starts with five. The assumption is
needed, see `late_join`. `AuctionInv` is not inductive: that the turn does not
come round to the highest bidder depends on who sits between. `BiddingOrder`
adds it: everybody after the highest bidder and before the seat to speak has
passed. A pass then leaves somebody beyond the turn who is in (or the contract
is awarded), so `advanceToNextBidder` stops before it reaches the bidder.
`CompanyInv` says when nobody is missing.

**PlayProofs**, on top of that, for every deal, hand size, run of moves and number
of rounds. The table may change its size between the rounds. Three hypotheses tell
how far:

* `SizeStays`: it does not, clients ask for the size there is. `GameIsZeroSum`
  (`TotalsZeroSum`) and `NextRoundByConsent` (`EveryoneConsents`) need it:
  `stale_opponent` and `stale_vote` are what happens otherwise. The table is then
  exactly full (`ClosedInv`), which is what `RoundIsZeroSum` asks for, and as many
  votes as seats are everybody's.
* `SafeResize`: it keeps its size, or it changes it freely, nobody joins late
  (`NoLateJoiner`) and no client names a card twice in a discard
  (`DistinctDiscards`). `CardsKeepTheirPlace` (`OnePlacePerCard`), `RevealIsTrue`
  (`RevealSound`), `FriendStaysTheFriend` (`FriendStable`) and `AuctionOpensFresh`
  (`FreshAuction`) rest on it and on `RoundInv`. Without it TLC finds a card in two
  hands: a declarer in seat 4 whose discard was short keeps cards when the round is
  over, the table shrinks to four, `Start` clears no hand it does not deal to
  (`game.go:193`), and the same cards are dealt again.
* `NoLateJoiner` and `DistinctDiscards`, for what counts cards: `HandsStayInStep`,
  `EveryPointIsCaptured`, `SpecialsAreSpent`, `PlayIsNeverStuck`.

`OnePlacePerCard` is not inductive: `RoundInv` adds who plays and that nobody else
has cards (`SeatInv`), what has not happened yet in each phase (`BoardInv`), and
that a card that was played is in no hand and was played by one seat (`PlayedInv`).
The last is why the search for the friend finds her again when her card leaves her
hand, and why it does not matter in which order the code searches. A change of size
keeps `RoundInv` if every hand is empty, and that is counting:

* `HandsStayInStep` (`HandsInStep`), by the lengths of the hands in each phase
  (`HandInv`) and by going round the table modulo its size (`TurnsGoRound`: with
  everyone between the leader and the turn having played, a full trick has one card
  of each seat). After the last trick nobody holds a card (`PlayedOut`).
* If also every scoring card is in the deal (`FullDeals`): `EveryPointIsCaptured`
  (`PointsAllCaptured`). The scoring cards of the round are the same set at every
  step, wherever they are (`PileInv`); at the end hands and kitty are empty.
* If also four or more cards are dealt to a seat (`LongHands`; ten in the code):
  `SpecialsAreSpent` (`NoSpecialAtTheEnd`) and `PlayIsNeverStuck` (`NeverStuck`).
  `SpecialInv` is what the two forcing rules leave behind: nobody has two cards that
  are the mighty and the joker, or one that is either. `CallInv`, that no joker is
  called in the first trick, keeps the rules from asking there for a card they forbid.

**RegistryProofs**, for any connections, users, addresses and caps:

* `CountsStayLive`: the counters are the numbers of live connections and the maps
  have no other entries (`IInv`). The work is in two lemmas about Go's maps:
  `RaiseTally` and `LowerTally`, that raising a newcomer's counter, or lowering a
  leaver's and deleting it at zero, tallies the set with or without her. Live
  connections have to be finitely many, which `IInv` says.
* `CapsAreKept`: the caps hold of the connections themselves, not of the counters.
* `RegistryKeepsLimit`: the refinement. What the counters answer is what the set
  would (`RefusedIsNoRoom`).

* `SocketsKeepProtocol`: the handlers with their two loops implement the registry, and
  so `ConnLimit` (`SocketsKeepLimit`). `SocketsInv` says of each connection where its
  reader can be while it has a slot (`SlotSound`), that a loop has the mutex only while
  it writes (`MutexSound`), and how far the deadline of a prompt client can have run
  with a ping on its way or not (`PromptSound`).
* `SlotsAreSound` (`SlotsMatchSockets`) and `MutexIsGivenBack` follow.
* `PromptIsNotCutOff` (`PromptClientStays`), if the deadline is two periods of the
  ticker or more (`IdlePeriods >= 2`; 60 and 30 seconds in the code). With one it is
  false: the deadline may run out before the first ping.

**PartsProofs**, for any games, players, seats, rows, faults and expiries:

* `GamesAreSound` (`GamesSound`): how far the creator's request is tells what there is
  of her game (`MakingSound`); nobody sits at it twice, a seat is free while it waits
  and none while it is played, whatever numbers of seats it goes through, and a state
  that has expired has no seats (`TableSound`).
* `ListingsAreAccurate` (`ListingAccurate`), by `ListingSound`: what a listing has found
  and what it has yet to load have no game in common, what it has found is in `ever`,
  and a game in `steady` is found, yet to be loaded, could not be loaded, or had too
  many newer ones at the query - and has them ever after, because games only come
  after those that exist (`BurialIsForEver`). What `Newest` returns is `Ranks`
  and `QueryReturns`: the k-th row is the one with k - 1 newer ones, and counting
  them is one to one.
* `ServiceTypes`, `ServiceIsSound` and `ServiceImplements`: `PartsSpec` implies the
  specification of each part (`EachPart`), so what was proved of one alone holds
  beside the others.

**LiveProofs**, for any requests, users, names and failing calls: `UsersAreSound`
(`UsersSound`). `UsersInv` says that a row that was entered and is not committed is
in the way of no committed row and of no other row that was entered, that a request
past its check without one has found a row, and that an answer names a row. It
needs that no row is mistaken for none (`NoRow`, in `UsersAssumption`).
`LivePartsAreSound` and `LiveClientsStay` take it, and what the other
modules prove, to the composition (`EachLivePart`).

**RateProofs**, for every rule, any servers and requests:

* `BucketKeepsRate`: between two tokens a bucket gives out no more than it holds
  when full and what the time between refills. Not inductive; `Budget` is: what was
  spent since any token, and the credit now, are covered by a full bucket and the
  bucket's time since.
* `LimiterKeepsBucket` (`KeepsBucket`): the script implements the bucket that is never
  forgotten, whatever the margin, the skew and the time that calls take, but for the
  step of a late call, which it names. A key that is gone would have been full for every
  stamp that is no older than the margin, less the skew (`ClockInv`); a stamp that arrives out of
  order credits nothing. What makes a call late is the time it was under way
  (`sentAt`), which no deadline of the code bounds.
* `LimiterKeepsRate` follows from both, for every stretch of the bucket's time without
  a late call: `grants`, the tokens the rate speaks of, starts anew with one. For the
  limiter as a whole a late call can therefore cost one more full bucket.
* `RefusalsAreHonest`: `RetryIsHonest`, by `PromiseInv`: what a refused client waits
  for is on its way as long as nobody takes a token. It holds for any skew between
  the clocks and any delay of the calls.

These take numbers to be exact where the script has doubles, and Redis to lose a
key by expiry only.

Assumptions are the named `ASSUME`s of the modules; TLC evaluates them on each
run. What stays with TLC:

* liveness under fairness, which is out of the prover's reach: `EveryRequestAnswered`,
  `LockFreed`, `LostConnectionEnds`, `ReapedUnlessStuck`, `FirstRequestsAnswered`;
* what happens at a table that somebody joins late (`NoLateJoiner`), the scores and
  the votes of one that changes its size (`SizeStays`), and cards kept back by a
  discard that names one twice (`DistinctDiscards`): there the properties do not
  hold, see section 4.

## 6. Differences that have no run of their own

* An expired lock lets two requests save with one version; the second is told
  `ErrStaleVersion`. The design note of 2026-07-17 (line 58) calls that a server
  bug. `ConflictHasCause` therefore supposes that nothing has expired, and even then
  leaves two ways: a request's own save that ran twice, and one that came late.
* The ledger row is written after the save, in no transaction: an insert that
  fails, or a process that dies in between, leaves a gap, although
  `SERVICE_ARCHITECTURE.md:6` calls Postgres an audit trail.
* A repeated join saves a new version, writes no row and publishes nothing
  (`game_service.go:113`); `API_DOCUMENTATION.md:100` promises a broadcast of
  every change.
* A declarer who called her own card is announced as her own partner by her first
  trick with a scoring card; `rules.md:87` says no partner is ever revealed. The
  friend is revealed by winning a trick on the declarer's behalf, not by playing
  the called card (`rules.md:58`).
* The auction ends when all but one have passed at some time, not after four
  consecutive passes (`rules.md:49`), and a no-trump bid does not beat a suit bid
  of its level (`rules.md:48`).
* A redeal is opened by seat 0, not by the dealer's successor.
* Between a short discard (`repeated_discard`) and a table that shrinks, a card can
  be in the game twice, see `SafeResize` in section 5.
* A request may be told `ErrStaleVersion` although nobody else wrote and its move was
  made: its own save ran twice (`resent_save`, against `redis.go:57`). A client that
  takes the answer at its word sends the move again.
* A call of the limiter that was under way for longer than a second may start a new
  bucket with an old stamp (`RunsLate`), so that the time since is credited twice, which
  `limiter.go:62-65` means to prevent for keys that are still there.
* The creator does not always have seat 0, and may be refused: others can join her
  game between its save and her join (`creator_seat`, against `openapi.yaml:89` and
  `handler.go:146`).
* A listing finds waiting games only: the query matches the phase a row was inserted
  with, which nothing updates, and the load the phase the game has now
  (`status_filter`, against `game_service.go:263`).
* Games that still wait for players are hidden behind 50 newer ones that do not
  (`hidden_game`; `API_DOCUMENTATION.md:51` lists "games looking for players").
* `GetGame` of a game that does not exist answers 200 with `null`; `openapi.yaml:117`
  says 404.
* A first request may be refused because both its name and the suffixed name are
  taken (`taken_name`; `cognito_auth.go:109`, "auth never fails because of it").
  When somebody else has her name, the second of two concurrent first requests of
  one user can be refused too: the suffixed name has just been taken by the first
  (`first_requests`, against `user_store.go:55`).

## 7. Not modelled

Payloads of the wrong shape (refused without effect), JSON, logging, timestamps
and player names. `GetGame` changes nothing. `UpdateGameStatus` and the table
`hands` are not used by the running program, and `GetUserStats` is a plain read.
State and version keys expire together.

The verification of a token (`cognito_auth.go`) is a call to external libraries.
Of the HTTP layer, decoding, headers, response codes, the client's address,
hardening, options and health are functions of one request, with no state. The
origin check of the upgrade and the message bucket's setting are configuration;
that too many messages end a socket is in `Sockets`. `internal/infra` and
`cmd/server` connect, listen and shut down: I/O without a protocol of its own.

No property says that a client misses nothing. A socket subscribes after its client
has fetched the game and is sent no snapshot (`ws.go:182`), so a move in between does
not reach it; no document promises that it does, and no client is in the repository.
Nor does any fairness of the code keep players from changing the size of the table
for ever instead of voting (`rules.go:528`).
