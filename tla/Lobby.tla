------------------------------- MODULE Lobby -------------------------------
(***************************************************************************)
(* Creating games, finding them and joining them.  A creator's request     *)
(* inserts the row, saves the state and then joins, as three calls; a      *)
(* listing asks Postgres for the newest rows and then loads each game from *)
(* Redis.  All of them interleave, games fill and go on meanwhile, and     *)
(* stored games expire.                                                    *)
(*                                                                         *)
(* A join is one step: what goes on inside it is GameService.  A round is  *)
(* one step too: what goes on inside it is Mighty.  After a round a player *)
(* can change the number of seats, which joins read, so a table that has   *)
(* been played at can have a free seat again.                              *)
(***************************************************************************)
EXTENDS Integers, Sequences, FiniteSets

CONSTANTS
  Games, Players,
  Listers,                  \* players who list games, once each
  Creator,                  \* Creator[g]: who sends the request that makes g
  SeatCounts,               \* the numbers of seats that games have (4 and 5)
  ListLimit,                    \* rows that a query returns at most (50)
  Asked,                    \* phases that listings ask for
  MaxFaults, MaxExpiries    \* bounds

LobbyAssumption ==
  /\ Listers \subseteq Players /\ Creator \in [Games -> Players]
  /\ SeatCounts \subseteq Nat \ {0} /\ ListLimit \in Nat
  /\ Asked \subseteq {"waiting", "bidding", "finished"}
  /\ MaxFaults \in Nat /\ MaxExpiries \in Nat

VARIABLES
  born,              \* the games in the order of their created_at
  row,               \* the status column of the games row, or "none"
  status, seats,     \* the stored game: its phase ("none": not there), players
  size,              \* its number of seats (0: nobody has asked for the game)
  making, reply,     \* the creator's request: program counter and result
  listing,           \* a player's listing: program counter
  asked, todo, found, \* its phase, the ids it has still to load, its result
  missed,            \* games that could not be loaded
  steady, ever,      \* games that had the phase all the time, or at some time,
                     \* while the listing ran (history)
  faults, expiries

createVars == <<born, row, making, reply>>
gameVars == <<status, seats, size>>
listVars == <<listing, asked, todo, found, missed>>
historyVars == <<steady, ever>>
boundVars == <<faults, expiries>>

vars == <<createVars, gameVars, listVars, historyVars, boundVars>>

Phases == {"waiting", "bidding", "finished"}

Elements(s) == {s[i] : i \in DOMAIN s}

Init ==
  /\ born = <<>>
  /\ row = [g \in Games |-> "none"] /\ status = [g \in Games |-> "none"]
  /\ seats = [g \in Games |-> <<>>] /\ size = [g \in Games |-> 0]
  /\ making = [g \in Games |-> "idle"] /\ reply = [g \in Games |-> "none"]
  /\ listing = [p \in Listers |-> "idle"] /\ asked = [p \in Listers |-> "waiting"]
  /\ todo = [p \in Listers |-> <<>>] /\ found = [p \in Listers |-> <<>>]
  /\ missed = [p \in Listers |-> {}]
  /\ steady = [p \in Listers |-> {}] /\ ever = [p \in Listers |-> {}]
  /\ faults = 0 /\ expiries = 0

----------------------------------------------------------------------------
(* Creating a game *)

MakingGoes(g, label) == making' = [making EXCEPT ![g] = label]

Answered(g, a) == MakingGoes(g, "done") /\ reply' = [reply EXCEPT ![g] = a]

\* The request names the number of seats.
BeginCreate(g, n) ==
  /\ making[g] = "idle"
  /\ born' = Append(born, g)
  /\ size' = [size EXCEPT ![g] = n]
  /\ MakingGoes(g, "insert")
  /\ UNCHANGED <<row, reply, status, seats, listVars, boundVars>>

InsertRow(g) ==
  /\ making[g] = "insert"
  /\ row' = [row EXCEPT ![g] = "waiting"]
  /\ MakingGoes(g, "save")
  /\ UNCHANGED <<born, reply, gameVars, listVars, boundVars>>

SaveState(g) ==
  /\ making[g] = "save"
  /\ status' = [status EXCEPT ![g] = "waiting"]
  /\ MakingGoes(g, "join")
  /\ UNCHANGED <<born, row, reply, seats, size, listVars, boundVars>>

----------------------------------------------------------------------------
(* Joining a game *)

\* Mutant: one seat too many is given away.
Verdict_PastFull(p, g) ==
  CASE status[g] = "none" -> "not_found"
    [] status[g] # "none" /\ p \in Elements(seats[g]) -> "refresh"
    [] status[g] # "none" /\ p \notin Elements(seats[g]) ->
         IF Len(seats[g]) <= size[g] THEN "seat" ELSE "full"

Verdict(p, g) ==
  CASE status[g] = "none" -> "not_found"
    [] status[g] # "none" /\ p \in Elements(seats[g]) -> "refresh"
    [] status[g] # "none" /\ p \notin Elements(seats[g]) ->
         IF Len(seats[g]) < size[g] THEN "seat" ELSE "full"

\* The first free seat; whoever takes the last one starts the game, whatever its
\* phase.
Enter(p, g) ==
  CASE Verdict(p, g) = "seat" ->
         /\ seats' = [seats EXCEPT ![g] = Append(@, p)]
         /\ status' = IF Len(seats[g]) + 1 = size[g]
                        THEN [status EXCEPT ![g] = "bidding"] ELSE status
         /\ UNCHANGED size
    [] Verdict(p, g) # "seat" -> UNCHANGED gameVars

\* Mutant: the result of the join is not looked at.
JoinCreator_Unchecked(g) ==
  /\ making[g] = "join"
  /\ Enter(Creator[g], g)
  /\ Answered(g, "ok")
  /\ UNCHANGED <<born, row, listVars, boundVars>>

\* The second half of the creator's request.
JoinCreator(g) ==
  /\ making[g] = "join"
  /\ Enter(Creator[g], g)
  /\ Answered(g, IF Verdict(Creator[g], g) \in {"seat", "refresh"} THEN "ok"
                                                                  ELSE "failed")
  /\ UNCHANGED <<born, row, listVars, boundVars>>

\* The games p knows the id of: a listing showed them, or their creator did.
Known(p) == {g \in Games : reply[g] = "ok"}
              \cup IF p \in Listers /\ listing[p] = "done" THEN Elements(found[p])
                                                     ELSE {}

Join(p, g) ==
  /\ g \in Known(p)
  /\ Verdict(p, g) = "seat"
  /\ Enter(p, g)
  /\ UNCHANGED <<createVars, listVars, boundVars>>

\* A join sent again, for a game that is gone or for a full one changes nothing.
JoinInVain(p, g) ==
  /\ g \in Known(p)
  /\ Verdict(p, g) # "seat"
  /\ Enter(p, g)
  /\ UNCHANGED <<createVars, listVars, boundVars>>

\* A call of the creator's request fails: what was done so far stays.
CreateFails(g) ==
  /\ making[g] \in {"insert", "save", "join"} /\ faults < MaxFaults
  /\ faults' = faults + 1
  /\ Answered(g, "failed")
  /\ UNCHANGED <<born, row, gameVars, listVars, expiries>>

\* A call takes effect but is reported as failed: its reply is lost, its second run
\* meets what the first one did, or the join is saved and its entry in the ledger
\* is not.  (One that takes effect after the answer looks the same to all others.)
CreateReplyLost(g) ==
  /\ making[g] \in {"insert", "save", "join"} /\ faults < MaxFaults
  /\ faults' = faults + 1
  /\ Answered(g, "failed")
  /\ CASE making[g] = "insert" -> row' = [row EXCEPT ![g] = "waiting"]
                                   /\ UNCHANGED gameVars
       [] making[g] = "save" -> status' = [status EXCEPT ![g] = "waiting"]
                                 /\ UNCHANGED <<row, seats, size>>
       [] making[g] = "join" -> Enter(Creator[g], g) /\ UNCHANGED row
  /\ UNCHANGED <<born, listVars, expiries>>

\* A round is played to its end.  The row keeps the phase it was inserted with.
EndRound(g) ==
  /\ status[g] = "bidding"
  /\ status' = [status EXCEPT ![g] = "finished"]
  /\ UNCHANGED <<createVars, seats, size, listVars, boundVars>>

\* A player at a table that has finished a round changes the number of seats.
ChangeConfig(g, n) ==
  /\ status[g] = "finished"
  /\ size' = [size EXCEPT ![g] = n]
  /\ UNCHANGED <<createVars, status, seats, listVars, boundVars>>

\* Mutant: a vote counts for every seat.
PlayAgain_OneVote(g) ==
  /\ status[g] = "finished"
  /\ status' = [status EXCEPT ![g] = "bidding"]
  /\ UNCHANGED <<createVars, seats, size, listVars, boundVars>>

\* As many players as there are seats have voted for another round.
PlayAgain(g) ==
  /\ status[g] = "finished" /\ Len(seats[g]) >= size[g]
  /\ status' = [status EXCEPT ![g] = "bidding"]
  /\ UNCHANGED <<createVars, seats, size, listVars, boundVars>>

\* Redis drops a game that was not saved for a day.
Expire(g) ==
  /\ status[g] # "none" /\ expiries < MaxExpiries
  /\ expiries' = expiries + 1
  /\ status' = [status EXCEPT ![g] = "none"]
  /\ seats' = [seats EXCEPT ![g] = <<>>]
  /\ UNCHANGED <<createVars, size, listVars, faults>>

----------------------------------------------------------------------------
(* Listing games *)

\* Where in born the games with a row of status s are.
Places(s) == {i \in DOMAIN born : row[born[i]] = s}

After(i, S) == {j \in S : j > i}

Shown(s) == 1 .. IF Cardinality(Places(s)) < ListLimit THEN Cardinality(Places(s))
                                                       ELSE ListLimit

\* Mutant: the oldest rows.
Newest_Oldest(s) ==
  [k \in Shown(s) |->
     born[CHOOSE i \in Places(s) : Cardinality({j \in Places(s) : j < i}) = k - 1]]

\* The newest rows with status s, newest first: the k-th has k - 1 newer ones.
Newest(s) ==
  [k \in Shown(s) |->
     born[CHOOSE i \in Places(s) : Cardinality(After(i, Places(s))) = k - 1]]

Query(p, s) ==
  /\ listing[p] = "idle"
  /\ asked' = [asked EXCEPT ![p] = s]
  /\ todo' = [todo EXCEPT ![p] = Newest(s)]
  /\ listing' = [listing EXCEPT ![p] = "load"]
  /\ UNCHANGED <<createVars, gameVars, found, missed, boundVars>>

Matches(g, s) == status[g] = s

LoadOne(p) ==
  /\ listing[p] = "load" /\ todo[p] # <<>>
  /\ found' = IF Matches(Head(todo[p]), asked[p])
                THEN [found EXCEPT ![p] = Append(@, Head(todo[p]))] ELSE found
  /\ todo' = [todo EXCEPT ![p] = Tail(@)]
  /\ UNCHANGED <<createVars, gameVars, listing, asked, missed, boundVars>>

\* A game that cannot be loaded is left out.
LoadFails(p) ==
  /\ listing[p] = "load" /\ todo[p] # <<>> /\ faults < MaxFaults
  /\ faults' = faults + 1
  /\ missed' = [missed EXCEPT ![p] = @ \cup {Head(todo[p])}]
  /\ todo' = [todo EXCEPT ![p] = Tail(@)]
  /\ UNCHANGED <<createVars, gameVars, listing, asked, found, expiries>>

EndListing(p) ==
  /\ listing[p] = "load" /\ todo[p] = <<>>
  /\ listing' = [listing EXCEPT ![p] = "done"]
  /\ UNCHANGED <<createVars, gameVars, asked, todo, found, missed, boundVars>>

\* What the history remembers of a step: the games with the phase asked for,
\* from the query to the end of the listing.
Track ==
  LET Now(p) == {g \in Games : status'[g] = asked'[p]}
  IN  /\ steady' = [p \in Listers |->
           CASE listing[p] = "idle" /\ listing'[p] = "load" -> Now(p)
             [] listing[p] = "load" -> steady[p] \cap Now(p)
             [] OTHER -> steady[p]]
      /\ ever' = [p \in Listers |->
           CASE listing[p] = "idle" /\ listing'[p] = "load" -> Now(p)
             [] listing[p] = "load" -> ever[p] \cup Now(p)
             [] OTHER -> ever[p]]

Next ==
  \/ \E g \in Games :
       \/ \E n \in SeatCounts : BeginCreate(g, n) /\ Track
       \/ InsertRow(g) /\ Track
       \/ SaveState(g) /\ Track
       \/ JoinCreator(g) /\ Track
       \/ CreateFails(g) /\ Track
       \/ CreateReplyLost(g) /\ Track
       \/ EndRound(g) /\ Track
       \/ \E n \in SeatCounts : ChangeConfig(g, n) /\ Track
       \/ PlayAgain(g) /\ Track
       \/ Expire(g) /\ Track
       \/ \E p \in Players : Join(p, g) /\ Track
       \/ \E p \in Players : JoinInVain(p, g) /\ Track
  \/ \E p \in Listers :
       \/ \E s \in Asked : Query(p, s) /\ Track
       \/ LoadOne(p) /\ Track
       \/ LoadFails(p) /\ Track
       \/ EndListing(p) /\ Track

Spec == Init /\ [][Next]_vars

----------------------------------------------------------------------------
(* Properties *)

TypeOK ==
  /\ Elements(born) \subseteq Games
  /\ row \in [Games -> Phases \cup {"none"}] /\ status \in [Games -> Phases \cup {"none"}]
  /\ size \in [Games -> SeatCounts \cup {0}]
  /\ \A g \in Games :
       /\ Elements(seats[g]) \subseteq Players
       /\ \E n \in SeatCounts \cup {0} : Len(seats[g]) <= n
  /\ making \in [Games -> {"idle", "insert", "save", "join", "done"}]
  /\ reply \in [Games -> {"none", "ok", "failed"}]
  /\ listing \in [Listers -> {"idle", "load", "done"}] /\ asked \in [Listers -> Phases]
  /\ \A p \in Listers : Elements(todo[p]) \cup Elements(found[p]) \subseteq Games

\* A game that can be joined or played has its row: its moves refer to it, and
\* listings start from it.
EveryGameHasRow == \A g \in Games : status[g] # "none" => row[g] # "none"

\* However joins of one player interleave (the creator's own, one from the
\* listing, one sent again) and the number of seats changes between rounds, nobody
\* has two seats, a game that waits has a free seat, and a round is played only
\* when no seat is free.  (Between rounds there can be one.)
SeatsSound ==
  \A g \in Games :
    /\ \A i, j \in DOMAIN seats[g] : seats[g][i] = seats[g][j] => i = j
    /\ status[g] = "waiting" => Len(seats[g]) < size[g]
    /\ status[g] = "bidding" => Len(seats[g]) >= size[g]

\* A creator who is told "ok" has a seat, as long as the game is stored.
CreatorSeated ==
  \A g \in Games : reply[g] = "ok" /\ status[g] # "none" =>
    Creator[g] \in Elements(seats[g])

Newer(g) == {h \in Games : \E i, j \in DOMAIN born : i < j /\ born[i] = g /\ born[j] = h}

\* While games come, fill, go on and expire, a listing shows nothing twice and
\* only what had the phase while it ran; and a game that was waiting all that
\* time is shown, unless as many newer games exist as the query returns, or
\* loading it failed.
ListingAccurate ==
  \A p \in Listers :
    /\ \A i, j \in DOMAIN found[p] : found[p][i] = found[p][j] => i = j
    /\ Elements(found[p]) \subseteq ever[p]
    /\ listing[p] = "done" /\ asked[p] = "waiting" =>
         \A g \in steady[p] :
           \/ g \in Elements(found[p]) \cup missed[p]
           \/ Cardinality(Newer(g)) >= ListLimit

\* What the documents claim: the creator has seat 0 of her game.
CreatorAtSeatZero ==
  \A g \in Games : seats[g] # <<>> => seats[g][1] = Creator[g]

\* What the documents claim: a listing shows the games that have the phase
\* asked for.
ShowsWhatIsThere ==
  \A p \in Listers : listing[p] = "done" /\ Len(born) <= ListLimit =>
    steady[p] \subseteq Elements(found[p]) \cup missed[p]

\* What the documents claim: the lobby lists games that look for players; so it
\* is not empty while there are some.
WaitingGameShows ==
  \A p \in Listers :
    listing[p] = "done" /\ asked[p] = "waiting" /\ steady[p] # {} =>
      found[p] # <<>> \/ missed[p] # {}

=============================================================================
