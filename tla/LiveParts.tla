----------------------------- MODULE LiveParts -----------------------------
(***************************************************************************)
(* What must come about in the end, part by part: the requests of a game,  *)
(* with calls that fail and commands that run late or twice (GameService), *)
(* the loops of the sockets (Sockets), and the first requests of users     *)
(* (Users).                                                                *)
(*                                                                         *)
(* The parts share no state.  As in Parts, one part moves in a behaviour   *)
(* and the others stay as they began; the fairness of a part that stays    *)
(* asks for nothing, since nothing of it is under way.                     *)
(***************************************************************************)
EXTENDS GameService, Sockets

CONSTANTS
  Reqs, Subs, Names, SubOf, Preferred, SelfName, Suffixed, NoRow  \* of Users

VARIABLES
  part,                                           \* the part that moves
  users, stats, pending, step, name, attempt, answer, userFaults  \* of Users

Accounts == INSTANCE Users WITH pc <- step, faults <- userFaults

ASSUME UsersAssumption == Accounts!UsersAssumption

accountVars == <<users, stats, pending, step, name, attempt, answer, userFaults>>

LiveInit ==
  /\ part \in {"game", "sockets", "users"}
  /\ Init /\ SocketsInit /\ Accounts!Init

LiveNext ==
  /\ UNCHANGED part
  /\ \/ part = "game" /\ Next /\ UNCHANGED <<socketVars, accountVars>>
     \/ part = "sockets" /\ SocketsNext /\ UNCHANGED <<vars, accountVars>>
     \/ part = "users" /\ Accounts!Next /\ UNCHANGED <<vars, socketVars>>

LiveSpec ==
  /\ LiveInit /\ [][LiveNext]_<<part, vars, socketVars, accountVars>>
  /\ Fairness /\ SocketsFairness /\ Accounts!Fairness

----------------------------------------------------------------------------
(* Properties *)

\* A user is one row, whose name nobody else has, and statistics, whichever of
\* her first requests inserted them; all her requests are told the same, and
\* none is let in without a row.
UsersSound ==
  Accounts!OneIdentity /\ Accounts!NeverNil /\ Accounts!StatsForEveryUser

\* Transactions that wait for each other do not wait for ever.
FirstRequestsAnswered == Accounts!EveryRequestAnswered

=============================================================================
