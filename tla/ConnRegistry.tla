---------------------------- MODULE ConnRegistry ----------------------------
(***************************************************************************)
(* The registry of WebSocket connections: one counter per user and one per *)
(* address, raised by acquire and lowered by the closure acquire returns.  *)
(* Both run under one mutex, so each is one step.  The counters are Go     *)
(* maps: a key that is missing reads as zero, and a counter that reaches   *)
(* zero is deleted.  The closure may be called again (sync.Once).          *)
(***************************************************************************)
EXTENDS Integers, FiniteSets

CONSTANTS
  Conns, Users, Addrs,
  UserOf, AddrOf,       \* who a connection belongs to, where it comes from
  UserCaps, AddrCaps    \* caps that the registry may be built with

ASSUME ConnsAssumption ==
  /\ UserOf \in [Conns -> Users] /\ AddrOf \in [Conns -> Addrs]
  /\ UserCaps \subseteq Nat /\ AddrCaps \subseteq Nat

VARIABLES
  perUser, perIP,         \* the counters: partial functions
  maxPerUser, maxPerIP,   \* the caps
  slot                    \* what each connection got: the closure and its Once

registryVars == <<perUser, perIP, maxPerUser, maxPerIP, slot>>

NoCounts == [k \in {} |-> 0]

RegistryInit ==
  /\ perUser = NoCounts /\ perIP = NoCounts
  /\ maxPerUser \in UserCaps /\ maxPerIP \in AddrCaps
  /\ slot = [c \in Conns |-> "none"]

\* Reading a Go map.
Count(m, k) == IF k \in DOMAIN m THEN m[k] ELSE 0

\* m[k]++
Raise(m, k) ==
  [x \in DOMAIN m \cup {k} |-> IF x = k THEN Count(m, k) + 1 ELSE m[x]]

\* m[k]--, and delete(m, k) when nothing is left
Lower(m, k) ==
  IF Count(m, k) <= 1
    THEN [x \in DOMAIN m \ {k} |-> m[x]]
    ELSE [x \in DOMAIN m |-> IF x = k THEN m[x] - 1 ELSE m[x]]

\* Mutant: the cap is passed by one.
AtCap_OffByOne(m, k, cap) == cap > 0 /\ Count(m, k) > cap

AtCap(m, k, cap) == cap > 0 /\ Count(m, k) >= cap

Refused(c) == \/ AtCap(perUser, UserOf[c], maxPerUser)
              \/ AtCap(perIP, AddrOf[c], maxPerIP)

Acquire(c) ==
  /\ slot[c] = "none" /\ ~Refused(c)
  /\ perUser' = Raise(perUser, UserOf[c])
  /\ perIP' = Raise(perIP, AddrOf[c])
  /\ slot' = [slot EXCEPT ![c] = "held"]
  /\ UNCHANGED <<maxPerUser, maxPerIP>>

\* Both caps are looked at before either counter is raised.
Refuse(c) ==
  /\ slot[c] = "none" /\ Refused(c)
  /\ slot' = [slot EXCEPT ![c] = "refused"]
  /\ UNCHANGED <<perUser, perIP, maxPerUser, maxPerIP>>

Release(c) ==
  /\ slot[c] = "held"
  /\ perUser' = Lower(perUser, UserOf[c])
  /\ perIP' = Lower(perIP, AddrOf[c])
  /\ slot' = [slot EXCEPT ![c] = "released"]
  /\ UNCHANGED <<maxPerUser, maxPerIP>>

\* The closure is called once more: its Once is used up.
ReleaseAgain(c) == slot[c] = "released" /\ UNCHANGED registryVars

RegistryNext == \E c \in Conns : Acquire(c) \/ Refuse(c) \/ Release(c) \/ ReleaseAgain(c)

RegistrySpec == RegistryInit /\ [][RegistryNext]_registryVars

----------------------------------------------------------------------------
(* Properties *)

Live == {c \in Conns : slot[c] = "held"}

\* How many connections of S have each key.
Tally(S, Key) ==
  [k \in {Key[c] : c \in S} |-> Cardinality({c \in S : Key[c] = k})]

\* Types.  An entry of a map is a positive number: acquire creates it at one and
\* the closure deletes it at zero.
RegistryTypeOK ==
  /\ slot \in [Conns -> {"none", "held", "refused", "released"}]
  /\ maxPerUser \in UserCaps /\ maxPerIP \in AddrCaps
  /\ DOMAIN perUser \subseteq Users /\ DOMAIN perIP \subseteq Addrs
  /\ \A u \in DOMAIN perUser : perUser[u] \in Nat \ {0}
  /\ \A a \in DOMAIN perIP : perIP[a] \in Nat \ {0}

\* The counters say how many connections are live, and have an entry for
\* exactly those users and addresses that have one: in whatever order
\* connections come and go, nothing leaks and the maps do not grow.
CountsAreLive == perUser = Tally(Live, UserOf) /\ perIP = Tally(Live, AddrOf)

ToldSoFar ==
  [c \in Conns |-> CASE slot[c] = "none" -> "none"
                    [] slot[c] = "refused" -> "away"
                    [] OTHER -> "in"]

Limit == INSTANCE ConnLimit WITH live <- Live, told <- ToldSoFar

\* The caps hold of the live connections, not only of the counters.
CapsHold == Limit!CapsHold

\* The counters implement the set of live connections: a connection is turned
\* away if and only if, at that moment, its user or its address is at the cap.
KeepsLimit == Limit!Spec

=============================================================================
