----------------------------- MODULE ConnLimit -----------------------------
(***************************************************************************)
(* What the connection registry promises: a set of live connections that   *)
(* never holds more of one user, or of one address, than the caps allow,   *)
(* where nobody is turned away without need.  A cap of zero is no cap.     *)
(***************************************************************************)
EXTENDS Integers, FiniteSets

CONSTANTS Conns, UserOf, AddrOf   \* a connection has a user and an address

VARIABLES live,                   \* connections that hold a slot
          told,                   \* "none", "in" or "away"
          maxPerUser, maxPerIP    \* the caps, chosen once

OfUser(u) == {c \in live : UserOf[c] = u}
OfAddr(a) == {c \in live : AddrOf[c] = a}

Full(members, cap) == cap > 0 /\ Cardinality(members) >= cap

\* Why connection c could be turned away.
NoRoom(c) == \/ Full(OfUser(UserOf[c]), maxPerUser)
             \/ Full(OfAddr(AddrOf[c]), maxPerIP)

Init == /\ live = {} /\ told = [c \in Conns |-> "none"]
        /\ maxPerUser \in Nat /\ maxPerIP \in Nat

Admit(c) ==
  /\ told[c] = "none" /\ ~NoRoom(c)
  /\ live' = live \cup {c}
  /\ told' = [told EXCEPT ![c] = "in"]

TurnAway(c) ==
  /\ told[c] = "none" /\ NoRoom(c)
  /\ told' = [told EXCEPT ![c] = "away"]
  /\ UNCHANGED live

Leave(c) ==
  /\ c \in live
  /\ live' = live \ {c}
  /\ UNCHANGED told

Next == /\ \E c \in Conns : Admit(c) \/ TurnAway(c) \/ Leave(c)
        /\ UNCHANGED <<maxPerUser, maxPerIP>>

Spec == Init /\ [][Next]_<<live, told, maxPerUser, maxPerIP>>

\* The caps hold.
CapsHold ==
  /\ maxPerUser > 0 => \A c \in live : Cardinality(OfUser(UserOf[c])) <= maxPerUser
  /\ maxPerIP > 0 => \A c \in live : Cardinality(OfAddr(AddrOf[c])) <= maxPerIP

=============================================================================
