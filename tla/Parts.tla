------------------------------- MODULE Parts -------------------------------
(***************************************************************************)
(* The parts of the service that share no state: the sockets with their    *)
(* registry (Sockets), the limiter (RateLimiter), the games of the lobby   *)
(* (Lobby) and the scoring of a round (ScoringSweep).                      *)
(*                                                                         *)
(* No part reads what another one writes, so a behaviour of the service is *)
(* any interleaving of theirs, and a property of one part holds of all of  *)
(* them if it holds where only that part moves.  In each behaviour here    *)
(* one part moves and the others stay as they began.                       *)
(***************************************************************************)
EXTENDS Sockets, RateLimiter, ScoringSweep

CONSTANTS
  Games, Players, Listers, Creator, SeatCounts, ListLimit, Asked, MaxExpiries
                         \* of Lobby

VARIABLES
  part,                  \* the part that moves
  born, row, status, seats, size, making, reply, listing, asked, todo, found, missed,
  steady, ever, lobbyFaults, expiries           \* of Lobby

GameLobby == INSTANCE Lobby WITH faults <- lobbyFaults

ASSUME LobbyAssumption == GameLobby!LobbyAssumption

lobbyVars ==
  <<born, row, status, seats, size, making, reply, listing, asked, todo, found,
    missed, steady, ever, lobbyFaults, expiries>>

sweepVars == <<contractVars, p>>

PartNames == {"sockets", "limiter", "lobby", "scoring"}

\* A part that stays as it began does so in one way only.
Waits(name, v, choice) == part # name => v = choice

PartsInit ==
  /\ part \in PartNames
  /\ SocketsInit /\ Init /\ GameLobby!Init /\ SweepInit
  /\ Waits("sockets", <<maxPerUser, maxPerIP>>,
           <<CHOOSE k \in UserCaps : TRUE, CHOOSE k \in AddrCaps : TRUE>>)
  /\ Waits("scoring", contractVars,
           <<4, CHOOSE d \in FailDists : TRUE, NoSeat,
             MinBid(4), FALSE, FALSE>>)

PartsNext ==
  /\ UNCHANGED part
  /\ \/ /\ part = "sockets" /\ SocketsNext
        /\ UNCHANGED <<vars, lobbyVars, sweepVars>>
     \/ /\ part = "limiter" /\ Next
        /\ UNCHANGED <<socketVars, lobbyVars, sweepVars>>
     \/ /\ part = "lobby" /\ GameLobby!Next
        /\ UNCHANGED <<socketVars, vars, sweepVars>>
     \/ /\ part = "scoring" /\ Capture
        /\ UNCHANGED <<socketVars, vars, lobbyVars>>

PartsSpec ==
  PartsInit /\ [][PartsNext]_<<part, socketVars, vars, lobbyVars, sweepVars>>

----------------------------------------------------------------------------
(* Properties *)

\* The types of all parts.
TypesKept == SocketsTypeOK /\ TypeOK /\ GameLobby!TypeOK

\* Creating, joining, changing the number of seats and expiring interleave as they
\* like: a game that can be joined or played has its row, nobody sits twice, a game
\* that waits has a free seat, a round is played only when no seat is free, and a
\* creator who is told "ok" has a seat.
GamesSound ==
  GameLobby!EveryGameHasRow /\ GameLobby!SeatsSound /\ GameLobby!CreatorSeated

\* A listing shows nothing twice, nothing that did not have the phase while it
\* ran, and every game that was waiting all the time and is new enough.
ListingAccurate == GameLobby!ListingAccurate

=============================================================================
