--------------------------- MODULE RegistryProofs ---------------------------
(***************************************************************************)
(* Proofs about ConnRegistry and Sockets, for any set of connections,      *)
(* users, addresses, caps, queues and periods: the counters are the        *)
(* numbers of live connections, so the registry implements the set of live *)
(* connections of ConnLimit; and the handlers implement the registry.      *)
(***************************************************************************)
EXTENDS Sockets, FiniteSetTheorems, TLAPS

\* The members of S with key k, and that no key has more than cap of them.
Having(S, Key, k) == {c \in S : Key[c] = k}

Within(S, Key, cap) == \A c \in S : Cardinality(Having(S, Key, Key[c])) <= cap

\* A counter map that tallies S reads, at every key, how many of S have it.
LEMMA CountTally ==
  ASSUME NEW S, IsFiniteSet(S), NEW Key, NEW k
  PROVE  Count(Tally(S, Key), k) = Cardinality({c \in S : Key[c] = k})
<1>1. CASE k \in {Key[c] : c \in S}
  BY <1>1 DEF Count, Tally
<1>2. CASE k \notin {Key[c] : c \in S}
  <2>1. {c \in S : Key[c] = k} = {} BY <1>2
  <2>2. Cardinality({c \in S : Key[c] = k}) = 0 BY <2>1, FS_EmptySet
  <2> QED BY <1>2, <2>2 DEF Count, Tally
<1> QED BY <1>1, <1>2

\* Raising the counter of a newcomer's key tallies the set with the newcomer.
LEMMA RaiseTally ==
  ASSUME NEW S, IsFiniteSet(S), NEW Key, NEW d, d \notin S
  PROVE  Raise(Tally(S, Key), Key[d]) = Tally(S \cup {d}, Key)
<1> DEFINE T == S \cup {d}
           Old(k) == {c \in S : Key[c] = k}
           New(k) == {c \in T : Key[c] = k}
           k0 == Key[d]
<1>1. {Key[c] : c \in T} = {Key[c] : c \in S} \cup {k0}
  OBVIOUS
<1>2. ASSUME NEW k, k # k0 PROVE New(k) = Old(k)
  BY <1>2
<1>3. Cardinality(New(k0)) = Cardinality(Old(k0)) + 1
  <2>1. New(k0) = Old(k0) \cup {d} /\ d \notin Old(k0)
    OBVIOUS
  <2>2. IsFiniteSet(Old(k0)) BY FS_Subset
  <2> HIDE DEF Old, New
  <2> QED BY <2>1, <2>2, FS_AddElement
<1>4. Count(Tally(S, Key), k0) = Cardinality(Old(k0))
  BY CountTally
<1>5. DOMAIN Tally(S, Key) = {Key[c] : c \in S}
  BY DEF Tally
<1>6. Tally(T, Key) = [k \in {Key[c] : c \in S} \cup {k0} |-> Cardinality(New(k))]
  BY <1>1 DEF Tally
<1>7. ASSUME NEW k \in {Key[c] : c \in S} \cup {k0}
      PROVE  (IF k = k0 THEN Count(Tally(S, Key), k0) + 1 ELSE Tally(S, Key)[k])
               = Cardinality(New(k))
  <2>1. CASE k = k0 BY <2>1, <1>3, <1>4
  <2>2. CASE k # k0
    <3>1. Tally(S, Key)[k] = Cardinality(Old(k)) BY <1>7, <2>2 DEF Tally
    <3> QED BY <3>1, <2>2, <1>2
  <2> QED BY <2>1, <2>2
<1> HIDE DEF T, New, Old, k0
<1>8. Raise(Tally(S, Key), k0) = Tally(T, Key)
  BY <1>5, <1>6, <1>7 DEF Raise
<1> QED BY <1>8 DEF k0, T

\* Lowering the counter of a leaver's key tallies the set without the leaver.
LEMMA LowerTally ==
  ASSUME NEW S, IsFiniteSet(S), NEW Key, NEW d \in S
  PROVE  Lower(Tally(S, Key), Key[d]) = Tally(S \ {d}, Key)
<1> DEFINE T == S \ {d}
           Old(k) == {c \in S : Key[c] = k}
           New(k) == {c \in T : Key[c] = k}
           k0 == Key[d]
<1>1. ASSUME NEW k, k # k0 PROVE New(k) = Old(k)
  BY <1>1
<1>2. /\ Cardinality(New(k0)) = Cardinality(Old(k0)) - 1
      /\ Cardinality(Old(k0)) \in Nat /\ Cardinality(New(k0)) \in Nat
  <2>1. New(k0) = Old(k0) \ {d} /\ d \in Old(k0)
    OBVIOUS
  <2>2. IsFiniteSet(Old(k0)) /\ IsFiniteSet(New(k0)) BY FS_Subset
  <2> HIDE DEF Old, New
  <2> QED BY <2>1, <2>2, FS_RemoveElement, FS_CardinalityType
<1>3. Count(Tally(S, Key), k0) = Cardinality(Old(k0))
  BY CountTally
<1>4. DOMAIN Tally(S, Key) = {Key[c] : c \in S} /\ k0 \in {Key[c] : c \in S}
  BY DEF Tally
<1>5. \A k \in {Key[c] : c \in S} : Tally(S, Key)[k] = Cardinality(Old(k))
  BY DEF Tally
<1>6. {Key[c] : c \in T} \cup {k0} = {Key[c] : c \in S}
  OBVIOUS
<1>7. Tally(T, Key) = [k \in {Key[c] : c \in T} |-> Cardinality(New(k))]
  BY DEF Tally
<1>8. CASE Cardinality(Old(k0)) <= 1
  <2>1. Cardinality(New(k0)) = 0 BY <1>2, <1>8
  <2>2. New(k0) = {}
    <3>1. IsFiniteSet(New(k0)) BY FS_Subset
    <3> QED BY <3>1, <2>1, FS_EmptySet
  <2>3. k0 \notin {Key[c] : c \in T} BY <2>2
  <2>4. {Key[c] : c \in S} \ {k0} = {Key[c] : c \in T} BY <2>3, <1>6
  <2> HIDE DEF T, New, Old, k0
  <2>5. \A k \in {Key[c] : c \in T} :
          k \in {Key[c] : c \in S} /\ Tally(S, Key)[k] = Cardinality(New(k))
    BY <1>1, <1>5, <2>3, <2>4
  <2>6. Lower(Tally(S, Key), k0) = [k \in {Key[c] : c \in S} \ {k0} |-> Tally(S, Key)[k]]
    BY <1>3, <1>4, <1>8 DEF Lower
  <2>7. Lower(Tally(S, Key), k0) = Tally(T, Key)
    BY <2>4, <2>5, <2>6, <1>7
  <2> QED BY <2>7 DEF k0, T
<1>9. CASE ~(Cardinality(Old(k0)) <= 1)
  <2>1. New(k0) # {}
    <3>1. Cardinality({}) = 0 BY FS_EmptySet
    <3> HIDE DEF New, Old, k0
    <3> QED BY <1>2, <1>9, <3>1
  <2>2. {Key[c] : c \in T} = {Key[c] : c \in S} BY <2>1, <1>6
  <2> HIDE DEF T, New, Old, k0
  <2>3. \A k \in {Key[c] : c \in S} :
          (IF k = k0 THEN Tally(S, Key)[k] - 1 ELSE Tally(S, Key)[k])
            = Cardinality(New(k))
    BY <1>1, <1>2, <1>4, <1>5
  <2>4. Lower(Tally(S, Key), k0)
          = [k \in {Key[c] : c \in S} |->
               IF k = k0 THEN Tally(S, Key)[k] - 1 ELSE Tally(S, Key)[k]]
    BY <1>3, <1>4, <1>9 DEF Lower
  <2>5. Lower(Tally(S, Key), k0) = Tally(T, Key)
    BY <2>2, <2>3, <2>4, <1>7
  <2> QED BY <2>5 DEF k0, T
<1> QED BY <1>8, <1>9

----------------------------------------------------------------------------

\* The inductive invariant: what each connection got is known, finitely many
\* hold a slot, and the counters are their number.
RegistryInv ==
  /\ slot \in [Conns -> {"none", "held", "refused", "released"}]
  /\ maxPerUser \in UserCaps /\ maxPerIP \in AddrCaps
  /\ IsFiniteSet(Live)
  /\ CountsAreLive

\* Nobody is live before anybody came.
LEMMA InitRegistryInv == RegistryInit => RegistryInv
<1> SUFFICES ASSUME RegistryInit PROVE RegistryInv
  OBVIOUS
<1>1. slot \in [Conns -> {"none", "held", "refused", "released"}]
  BY DEF RegistryInit
<1>2. Live = {} BY DEF RegistryInit, Live
<1>3. IsFiniteSet(Live) BY <1>2, FS_EmptySet
<1>4. CountsAreLive
  BY <1>2 DEF RegistryInit, NoCounts, CountsAreLive, Tally
<1> QED BY <1>1, <1>3, <1>4 DEF RegistryInit, RegistryInv

\* Every step keeps the counters equal to the numbers of live connections.
LEMMA StepRegistryInv == RegistryInv /\ [RegistryNext]_registryVars => RegistryInv'
<1> SUFFICES ASSUME RegistryInv, [RegistryNext]_registryVars PROVE RegistryInv'
  OBVIOUS
<1> USE DEF RegistryInv
<1>1. ASSUME NEW c \in Conns, Acquire(c) PROVE RegistryInv'
  <2>1. slot' = [slot EXCEPT ![c] = "held"] BY <1>1 DEF Acquire
  <2>2. Live' = Live \cup {c} /\ c \notin Live
    BY <1>1, <2>1 DEF Acquire, Live
  <2>3. IsFiniteSet(Live') BY <2>2, FS_AddElement
  <2>4. CountsAreLive'
    BY <1>1, <2>2, RaiseTally DEF Acquire, CountsAreLive
  <2> QED BY <1>1, <2>1, <2>3, <2>4 DEF Acquire
<1>2. ASSUME NEW c \in Conns, Refuse(c) PROVE RegistryInv'
  <2>1. slot' = [slot EXCEPT ![c] = "refused"] BY <1>2 DEF Refuse
  <2>2. Live' = Live BY <1>2, <2>1 DEF Refuse, Live
  <2> QED BY <1>2, <2>1, <2>2 DEF Refuse, CountsAreLive
<1>3. ASSUME NEW c \in Conns, Release(c) PROVE RegistryInv'
  <2>1. slot' = [slot EXCEPT ![c] = "released"] BY <1>3 DEF Release
  <2>2. Live' = Live \ {c} /\ c \in Live
    BY <1>3, <2>1 DEF Release, Live
  <2>3. IsFiniteSet(Live') BY <2>2, FS_RemoveElement
  <2>4. CountsAreLive'
    BY <1>3, <2>2, LowerTally DEF Release, CountsAreLive
  <2> QED BY <1>3, <2>1, <2>3, <2>4 DEF Release
<1>4. ASSUME UNCHANGED registryVars PROVE RegistryInv'
  BY <1>4 DEF registryVars, Live, CountsAreLive
<1> QED BY <1>1, <1>2, <1>3, <1>4 DEF RegistryNext, ReleaseAgain

\* The abstract registry counts as the counters do.
LEMMA SameCardinality == \A S : Limit!Cardinality(S) = Cardinality(S)
BY DEF Limit!Cardinality, Cardinality

\* The abstract registry in terms of Having and Within.
LEMMA LimitInTerms ==
  ASSUME ConnsAssumption, RegistryInv
  PROVE  /\ CapsHold <=> /\ maxPerUser > 0 => Within(Live, UserOf, maxPerUser)
                         /\ maxPerIP > 0 => Within(Live, AddrOf, maxPerIP)
         /\ \A c \in Conns : Limit!NoRoom(c) <=>
              \/ Limit!Full(Having(Live, UserOf, UserOf[c]), maxPerUser)
              \/ Limit!Full(Having(Live, AddrOf, AddrOf[c]), maxPerIP)
<1>1. /\ \A u : Limit!OfUser(u) = Having(Live, UserOf, u)
      /\ \A a : Limit!OfAddr(a) = Having(Live, AddrOf, a)
  BY DEF Limit!OfUser, Limit!OfAddr, Having
<1> QED BY <1>1, SameCardinality DEF CapsHold, Limit!CapsHold, Within, Limit!NoRoom

\* What the counters answer is what the abstract registry would answer.
LEMMA RefusedIsNoRoom ==
  ASSUME RegistryInv, NEW c \in Conns
  PROVE  Refused(c) <=> Limit!NoRoom(c)
<1>1. IsFiniteSet(Live) /\ perUser = Tally(Live, UserOf) /\ perIP = Tally(Live, AddrOf)
  BY DEF RegistryInv, CountsAreLive
<1>2. Count(perUser, UserOf[c]) = Cardinality(Having(Live, UserOf, UserOf[c]))
  BY <1>1, CountTally DEF Having
<1>3. Count(perIP, AddrOf[c]) = Cardinality(Having(Live, AddrOf, AddrOf[c]))
  BY <1>1, CountTally DEF Having
<1>4. Limit!NoRoom(c) <=>
        \/ Limit!Full(Having(Live, UserOf, UserOf[c]), maxPerUser)
        \/ Limit!Full(Having(Live, AddrOf, AddrOf[c]), maxPerIP)
  BY LimitInTerms, ConnsAssumption
<1> QED BY <1>2, <1>3, <1>4, SameCardinality DEF Refused, AtCap, Limit!Full

\* Theorem: the types of the registry; no map ever holds an entry that is not
\* positive.
THEOREM RegistryTypes == RegistrySpec => []RegistryTypeOK
<1>1. RegistryInv => RegistryTypeOK
  <2> SUFFICES ASSUME RegistryInv PROVE RegistryTypeOK
    OBVIOUS
  <2>1. ASSUME NEW Key, NEW k \in DOMAIN Tally(Live, Key)
        PROVE  Tally(Live, Key)[k] \in Nat \ {0}
    <3>1. PICK d \in Live : Key[d] = k BY DEF Tally
    <3>2. IsFiniteSet({c \in Live : Key[c] = k}) BY FS_Subset DEF RegistryInv
    <3>3. {c \in Live : Key[c] = k} # {} BY <3>1
    <3>4. Cardinality({c \in Live : Key[c] = k}) \in Nat \ {0}
      BY <3>2, <3>3, FS_CardinalityType, FS_EmptySet
    <3> QED BY <3>4 DEF Tally
  <2>2. /\ DOMAIN perUser \subseteq Users
        /\ DOMAIN perIP \subseteq Addrs
    BY ConnsAssumption DEF RegistryInv, CountsAreLive, Tally, Live
  <2> QED BY <2>1, <2>2 DEF RegistryInv, RegistryTypeOK, CountsAreLive
<1> QED BY <1>1, InitRegistryInv, StepRegistryInv, PTL DEF RegistrySpec

\* Theorem: in whatever order connections come and go, every counter is the
\* number of live connections and no entry outlives its last one.
THEOREM CountsStayLive == RegistrySpec => []CountsAreLive
<1>1. RegistryInv => CountsAreLive BY DEF RegistryInv
<1> QED BY <1>1, InitRegistryInv, StepRegistryInv, PTL DEF RegistrySpec

\* A set of connections that has room for one more of a key, and grows by a
\* connection with that key, is within the cap afterwards.
LEMMA RoomForOne ==
  ASSUME NEW S, IsFiniteSet(S), NEW Key, NEW d, d \notin S, NEW cap \in Nat, cap > 0,
         ~Limit!Full(Having(S, Key, Key[d]), cap), Within(S, Key, cap)
  PROVE  Within(S \cup {d}, Key, cap)
<1> SUFFICES ASSUME NEW c \in S \cup {d}
             PROVE  Cardinality(Having(S \cup {d}, Key, Key[c])) <= cap
  BY DEF Within
<1>1. IsFiniteSet(Having(S, Key, Key[c])) BY FS_Subset DEF Having
<1>2. Cardinality(Having(S, Key, Key[c])) \in Nat BY <1>1, FS_CardinalityType
<1>3. CASE Key[c] = Key[d]
  <2>1. /\ Having(S \cup {d}, Key, Key[c]) = Having(S, Key, Key[c]) \cup {d}
        /\ d \notin Having(S, Key, Key[c])
    BY <1>3 DEF Having
  <2>2. Cardinality(Having(S, Key, Key[c])) < cap
    <3>1. ~(Cardinality(Having(S, Key, Key[d])) >= cap) BY SameCardinality DEF Limit!Full
    <3>2. Having(S, Key, Key[d]) = Having(S, Key, Key[c]) BY <1>3
    <3> QED BY <1>2, <3>1, <3>2
  <2>3. Cardinality(Having(S \cup {d}, Key, Key[c])) = Cardinality(Having(S, Key, Key[c])) + 1
    BY <1>1, <2>1, FS_AddElement
  <2> QED BY <1>2, <2>2, <2>3
<1>4. CASE Key[c] # Key[d]
  <2>1. Having(S \cup {d}, Key, Key[c]) = Having(S, Key, Key[c]) /\ c \in S
    BY <1>4 DEF Having
  <2> QED BY <2>1 DEF Within
<1> QED BY <1>3, <1>4

\* A set of connections that shrinks stays within the cap.
LEMMA LeavingKeepsCap ==
  ASSUME NEW S, IsFiniteSet(S), NEW Key, NEW d, NEW cap \in Nat, Within(S, Key, cap)
  PROVE  Within(S \ {d}, Key, cap)
<1> SUFFICES ASSUME NEW c \in S \ {d}
             PROVE  Cardinality(Having(S \ {d}, Key, Key[c])) <= cap
  BY DEF Within
<1>1. /\ IsFiniteSet(Having(S, Key, Key[c]))
      /\ Having(S \ {d}, Key, Key[c]) \subseteq Having(S, Key, Key[c])
  BY FS_Subset DEF Having
<1>2. /\ IsFiniteSet(Having(S \ {d}, Key, Key[c]))
      /\ Cardinality(Having(S \ {d}, Key, Key[c])) <= Cardinality(Having(S, Key, Key[c]))
  BY <1>1, FS_Subset
<1>3. /\ Cardinality(Having(S, Key, Key[c])) \in Nat
      /\ Cardinality(Having(S \ {d}, Key, Key[c])) \in Nat
  BY <1>1, <1>2, FS_CardinalityType
<1>4. Cardinality(Having(S, Key, Key[c])) <= cap BY DEF Within
<1> QED BY <1>2, <1>3, <1>4

\* Theorem: no user and no address ever has more live connections than its cap.
THEOREM CapsAreKept == RegistrySpec => []CapsHold
<1> DEFINE Caps == /\ maxPerUser > 0 => Within(Live, UserOf, maxPerUser)
                   /\ maxPerIP > 0 => Within(Live, AddrOf, maxPerIP)
<1>1. RegistryInit => Caps BY DEF RegistryInit, Live, Within
<1>2. RegistryInv /\ Caps /\ [RegistryNext]_registryVars => Caps'
  <2> SUFFICES ASSUME RegistryInv, Caps, [RegistryNext]_registryVars PROVE Caps'
    OBVIOUS
  <2>0. IsFiniteSet(Live) /\ maxPerUser \in Nat /\ maxPerIP \in Nat
    BY ConnsAssumption DEF RegistryInv
  <2>1. ASSUME NEW c \in Conns, Acquire(c) PROVE Caps'
    <3>1. Live' = Live \cup {c} /\ c \notin Live
      BY <2>1 DEF Acquire, Live, RegistryInv
    <3>2. /\ maxPerUser' = maxPerUser /\ maxPerIP' = maxPerIP
          /\ ~Limit!Full(Having(Live, UserOf, UserOf[c]), maxPerUser)
          /\ ~Limit!Full(Having(Live, AddrOf, AddrOf[c]), maxPerIP)
      BY <2>1, RefusedIsNoRoom, LimitInTerms, ConnsAssumption DEF Acquire
    <3>3. maxPerUser > 0 => Within(Live \cup {c}, UserOf, maxPerUser)
      BY <2>0, <3>1, <3>2, RoomForOne
    <3>4. maxPerIP > 0 => Within(Live \cup {c}, AddrOf, maxPerIP)
      BY <2>0, <3>1, <3>2, RoomForOne
    <3> QED BY <3>1, <3>2, <3>3, <3>4
  <2>2. ASSUME NEW c \in Conns, Refuse(c) PROVE Caps'
    <3>1. Live' = Live BY <2>2 DEF Refuse, Live, RegistryInv
    <3> QED BY <2>2, <3>1 DEF Refuse
  <2>3. ASSUME NEW c \in Conns, Release(c) PROVE Caps'
    <3>1. /\ Live' = Live \ {c}
          /\ maxPerUser' = maxPerUser /\ maxPerIP' = maxPerIP
      BY <2>3 DEF Release, Live, RegistryInv
    <3>2. maxPerUser > 0 => Within(Live \ {c}, UserOf, maxPerUser)
      BY <2>0, LeavingKeepsCap
    <3>3. maxPerIP > 0 => Within(Live \ {c}, AddrOf, maxPerIP)
      BY <2>0, LeavingKeepsCap
    <3> QED BY <3>1, <3>2, <3>3
  <2>4. ASSUME UNCHANGED registryVars PROVE Caps'
    <3>1. Live' = Live BY <2>4 DEF registryVars, Live
    <3> QED BY <2>4, <3>1 DEF registryVars
  <2> QED BY <2>1, <2>2, <2>3, <2>4 DEF RegistryNext, ReleaseAgain
<1>3. RegistryInv => (Caps => CapsHold)
  BY LimitInTerms, ConnsAssumption
<1> HIDE DEF Caps
<1> QED BY <1>1, <1>2, <1>3, InitRegistryInv, StepRegistryInv, PTL DEF RegistrySpec

\* Theorem: the registry implements the capped set of live connections.
THEOREM RegistryKeepsLimit == RegistrySpec => KeepsLimit
<1> USE DEF ToldSoFar
<1>1. RegistryInit => Limit!Init
  <2> SUFFICES ASSUME RegistryInit PROVE Limit!Init
    OBVIOUS
  <2>1. Live = {} BY DEF RegistryInit, Live
  <2>2. ToldSoFar = [c \in Conns |-> "none"] BY DEF RegistryInit
  <2> QED BY <2>1, <2>2, ConnsAssumption DEF RegistryInit, Limit!Init
<1>2. RegistryInv /\ [RegistryNext]_registryVars
        => [Limit!Next]_<<Live, ToldSoFar, maxPerUser, maxPerIP>>
  <2> SUFFICES ASSUME RegistryInv, [RegistryNext]_registryVars
               PROVE  [Limit!Next]_<<Live, ToldSoFar, maxPerUser, maxPerIP>>
    OBVIOUS
  <2> USE DEF RegistryInv
  <2>1. ASSUME NEW c \in Conns, Acquire(c) PROVE Limit!Next
    <3>1. ToldSoFar[c] = "none" /\ ~Limit!NoRoom(c)
      BY <2>1, RefusedIsNoRoom DEF Acquire
    <3>2. Live' = Live \cup {c} BY <2>1 DEF Acquire, Live
    <3>3. ToldSoFar' = [ToldSoFar EXCEPT ![c] = "in"] BY <2>1 DEF Acquire
    <3> QED BY <2>1, <3>1, <3>2, <3>3 DEF Acquire, Limit!Admit, Limit!Next
  <2>2. ASSUME NEW c \in Conns, Refuse(c) PROVE Limit!Next
    <3>1. ToldSoFar[c] = "none" /\ Limit!NoRoom(c)
      BY <2>2, RefusedIsNoRoom DEF Refuse
    <3>2. Live' = Live BY <2>2 DEF Refuse, Live
    <3>3. ToldSoFar' = [ToldSoFar EXCEPT ![c] = "away"] BY <2>2 DEF Refuse
    <3> QED BY <2>2, <3>1, <3>2, <3>3 DEF Refuse, Limit!TurnAway, Limit!Next
  <2>3. ASSUME NEW c \in Conns, Release(c) PROVE Limit!Next
    <3>1. c \in Live /\ Live' = Live \ {c} BY <2>3 DEF Release, Live
    <3>2. ToldSoFar' = ToldSoFar BY <2>3 DEF Release
    <3> QED BY <2>3, <3>1, <3>2 DEF Release, Limit!Leave, Limit!Next
  <2>4. ASSUME UNCHANGED registryVars
        PROVE  UNCHANGED <<Live, ToldSoFar, maxPerUser, maxPerIP>>
    BY <2>4 DEF registryVars, Live
  <2> QED BY <2>1, <2>2, <2>3, <2>4 DEF RegistryNext, ReleaseAgain
<1> QED BY <1>1, <1>2, InitRegistryInv, StepRegistryInv, PTL DEF RegistrySpec, KeepsLimit, Limit!Spec

----------------------------------------------------------------------------
(* The sockets: every step of a handler is one of the registry or leaves it
   alone, and where a handler is says whether it holds a slot. *)

\* Before the registry, and past it with the slot in hand.
Outside == {"off", "auth", "validate", "acquire"}

Served == {"subscribe", "read", "move", "error", "unsubscribe", "release"}

\* A subscription outlives the slot only in a handler that has given both up; a
\* write loop runs after the subscription only.
SlotSound(c) ==
  /\ sock[c].reader \in Outside => slot[c] = "none"
  /\ sock[c].reader \in Outside \cup {"subscribe"} =>
       sock[c].sub = "none" /\ sock[c].writer = "off"
  /\ sock[c].reader \in Served => slot[c] = "held"
  /\ sock[c].reader \in {"shut", "closed"} => slot[c] # "held"
  /\ sock[c].sub # "none" /\ sock[c].reader \notin {"shut", "closed"} => slot[c] = "held"

\* Who holds the mutex has a frame to write.
MutexSound(c) ==
  /\ sock[c].mu = "reader" => sock[c].reader \in {"error", "fail", "hangup"}
  /\ sock[c].mu = "writer" => sock[c].writer \in {"ping", "event"}

\* If a period has passed on a prompt client in silence, a ping is on its way to
\* it or an answer on its way back, and the next period waits for it.
PromptSound(c) ==
  IdlePeriods >= 2 /\ sock[c].client = "prompt" /\ sock[c].conn = "open" =>
    /\ sock[c].idle \in {0, 1}
    /\ sock[c].idle = 1 => sock[c].tick \/ sock[c].writer = "ping" \/ sock[c].pinged

SocketsInv ==
  /\ RegistryInv /\ sock \in [Conns -> Socket]
  /\ \A c \in Conns : SlotSound(c) /\ MutexSound(c) /\ PromptSound(c)

\* A change to a connection leaves the others alone.
LEMMA SetLocal ==
  ASSUME sock \in [Conns -> Socket], NEW c \in Conns, NEW changes, Set(c, changes),
         NEW d \in Conns \ {c}
  PROVE  sock'[d] = sock[d]
  BY DEF Set

\* An event is counted in the queue, or dropped.
LEMMA Publishing ==
  ASSUME NEW s \in Socket
  PROVE  \E q \in 0..QueueCap : Published(s) = [s EXCEPT !.queue = q]
<1>1. s.queue \in 0..QueueCap /\ s = [s EXCEPT !.queue = s.queue]
  BY DEF Socket
<1>2. s.queue < QueueCap => s.queue + 1 \in 0..QueueCap
  BY <1>1, SocketsAssumption
<1> QED  BY <1>1, <1>2 DEF Published

\* What connection c's step does to the rest.
StepOf(c) ==
  /\ sock' \in [Conns -> Socket] /\ SlotSound(c)' /\ MutexSound(c)' /\ PromptSound(c)'
  /\ Acquire(c) \/ Refuse(c) \/ Release(c) \/ UNCHANGED registryVars
  /\ \A d \in Conns \ {c} :
       \E q \in 0..QueueCap : sock'[d] = [sock[d] EXCEPT !.queue = q]

\* Every step of a connection keeps what is said of it, and at most counts
\* events on others.
LEMMA SocketSteps ==
  ASSUME SocketsInv, NEW c \in Conns,
         ReaderStep(c) \/ ReaderLocks(c) \/ WriterStep(c) \/ WriterLocks(c)
           \/ ClientStep(c) \/ Elapse(c)
  PROVE  StepOf(c)
<1>1. /\ sock \in [Conns -> Socket] /\ slot \in [Conns -> {"none", "held", "refused", "released"}]
      /\ SlotSound(c) /\ MutexSound(c) /\ PromptSound(c)
  BY DEF SocketsInv, RegistryInv
<1>2. ASSUME NEW changes, Set(c, changes), NEW d \in Conns \ {c}
      PROVE  \E q \in 0..QueueCap : sock'[d] = [sock[d] EXCEPT !.queue = q]
  <2>1. sock[d].queue \in 0..QueueCap /\ sock[d] = [sock[d] EXCEPT !.queue = sock[d].queue]
    BY <1>1 DEF Socket
  <2> QED  BY <1>1, <1>2, <2>1, SetLocal
<1> USE SocketsAssumption DEF Step, Reads, Writes
<1>3. CASE Upgrade(c)
  <2>1. sock' \in [Conns -> Socket]
    BY <1>1, <1>3 DEF Upgrade, Set, Socket
  <2>2. SlotSound(c)' /\ MutexSound(c)' /\ PromptSound(c)'
    BY <1>1, <1>3 DEF Upgrade, Set, Socket, SlotSound, MutexSound, PromptSound, Outside, Served, registryVars
  <2> QED  BY <1>2, <1>3, <2>1, <2>2 DEF Upgrade, StepOf
<1>4. CASE AuthArrives(c)
  <2>1. sock' \in [Conns -> Socket]
    BY <1>1, <1>4 DEF AuthArrives, Set, Socket, Open
  <2>2. SlotSound(c)' /\ MutexSound(c)' /\ PromptSound(c)'
    BY <1>1, <1>4 DEF AuthArrives, Set, Socket, SlotSound, MutexSound, PromptSound, Outside, Served, registryVars, Open
  <2> QED  BY <1>2, <1>4, <2>1, <2>2 DEF AuthArrives, StepOf
<1>5. CASE AuthReadFails(c)
  <2>1. sock' \in [Conns -> Socket]
    BY <1>1, <1>5 DEF AuthReadFails, Set, Socket
  <2>2. SlotSound(c)' /\ MutexSound(c)' /\ PromptSound(c)'
    BY <1>1, <1>5 DEF AuthReadFails, Set, Socket, SlotSound, MutexSound, PromptSound, Outside, Served, registryVars
  <2> QED  BY <1>2, <1>5, <2>1, <2>2 DEF AuthReadFails, StepOf
<1>6. CASE Validate(c)
  <2>1. sock' \in [Conns -> Socket]
    BY <1>1, <1>6 DEF Validate, Set, Socket
  <2>2. SlotSound(c)' /\ MutexSound(c)' /\ PromptSound(c)'
    BY <1>1, <1>6 DEF Validate, Set, Socket, SlotSound, MutexSound, PromptSound, Outside, Served, registryVars
  <2> QED  BY <1>2, <1>6, <2>1, <2>2 DEF Validate, StepOf
<1>7. CASE Admit(c)
  <2>1. sock' \in [Conns -> Socket]
    BY <1>1, <1>7 DEF Admit, Set, Socket, Acquire
  <2>2. SlotSound(c)' /\ MutexSound(c)' /\ PromptSound(c)'
    BY <1>1, <1>7 DEF Admit, Set, Socket, SlotSound, MutexSound, PromptSound, Outside, Served, registryVars, Acquire
  <2> QED  BY <1>2, <1>7, <2>1, <2>2 DEF Admit, StepOf
<1>8. CASE TurnAway(c)
  <2>1. sock' \in [Conns -> Socket]
    BY <1>1, <1>8 DEF TurnAway, Set, Socket, Refuse
  <2>2. SlotSound(c)' /\ MutexSound(c)' /\ PromptSound(c)'
    BY <1>1, <1>8 DEF TurnAway, Set, Socket, SlotSound, MutexSound, PromptSound, Outside, Served, registryVars, Refuse
  <2> QED  BY <1>2, <1>8, <2>1, <2>2 DEF TurnAway, StepOf
<1>9. CASE Subscribe(c)
  <2>1. sock' \in [Conns -> Socket]
    BY <1>1, <1>9 DEF Subscribe, Set, Socket
  <2>2. SlotSound(c)' /\ MutexSound(c)'
    BY <1>1, <1>9 DEF Subscribe, Set, Socket, SlotSound, MutexSound, Outside, Served, registryVars
  <2>3. sock[c].writer = "off"
    BY <1>1, <1>9 DEF Subscribe, SlotSound
  <2>4. PromptSound(c)'
    BY <1>1, <1>9, <2>3 DEF Subscribe, Set, Socket, PromptSound
  <2> QED  BY <1>2, <1>9, <2>1, <2>2, <2>4 DEF Subscribe, StepOf
<1>10. CASE SubscribeFails(c)
  <2>1. sock' \in [Conns -> Socket]
    BY <1>1, <1>10 DEF SubscribeFails, Set, Socket
  <2>2. SlotSound(c)' /\ MutexSound(c)' /\ PromptSound(c)'
    BY <1>1, <1>10 DEF SubscribeFails, Set, Socket, SlotSound, MutexSound, PromptSound, Outside, Served, registryVars
  <2> QED  BY <1>2, <1>10, <2>1, <2>2 DEF SubscribeFails, StepOf
<1>11. CASE Receive(c)
  <2>1. sock' \in [Conns -> Socket]
    BY <1>1, <1>11 DEF Receive, Set, Socket, CanRead, Open
  <2>2. SlotSound(c)' /\ MutexSound(c)' /\ PromptSound(c)'
    BY <1>1, <1>11 DEF Receive, Set, Socket, SlotSound, MutexSound, PromptSound, Outside, Served, registryVars, CanRead, Open
  <2> QED  BY <1>2, <1>11, <2>1, <2>2 DEF Receive, StepOf
<1>12. CASE Pong(c)
  <2>1. PICK b \in BOOLEAN : b = FALSE
    OBVIOUS
  <2>2. Set(c, [pinged |-> b, idle |-> 0])
    BY <1>12, <2>1 DEF Pong
  <2>3. sock' \in [Conns -> Socket]
    BY <1>1, <1>12, <2>2 DEF Pong, Set, Socket, CanRead
  <2>4. SlotSound(c)' /\ MutexSound(c)'
    BY <1>1, <1>12, <2>2 DEF Pong, Set, Socket, SlotSound, MutexSound, Outside, Served, registryVars, CanRead
  <2>5. PromptSound(c)'
    BY <1>1, <1>12, <2>1, <2>2 DEF Pong, Set, Socket, PromptSound, CanRead
  <2> QED  BY <1>2, <1>12, <2>3, <2>4, <2>5 DEF Pong, StepOf
<1>13. CASE MoveAccepted(c)
  <2>1. \A d \in Conns : Published(sock[d]) \in Socket
    BY <1>1 DEF Published, Socket
  <2>2. sock' \in [Conns -> Socket]
    BY <1>13, <2>1 DEF MoveAccepted, Socket
  <2>3. \A d \in Conns : \E q \in 0..QueueCap : Published(sock[d]) = [sock[d] EXCEPT !.queue = q]
    BY <1>1, Publishing
  <2>4. sock'[c] = [Published(sock[c]) EXCEPT !.reader = "read"]
    BY <1>13, <2>1 DEF MoveAccepted
  <2>5. SlotSound(c)' /\ MutexSound(c)' /\ PromptSound(c)'
    BY <1>1, <1>13, <2>3, <2>4 DEF MoveAccepted, Socket, SlotSound, MutexSound, PromptSound, Outside, Served, registryVars
  <2>6. \A d \in Conns \ {c} : sock'[d] = Published(sock[d])
    BY <1>13 DEF MoveAccepted
  <2> QED  BY <1>13, <2>2, <2>3, <2>5, <2>6 DEF MoveAccepted, StepOf
<1>14. CASE MoveRefused(c)
  <2>1. sock' \in [Conns -> Socket]
    BY <1>1, <1>14 DEF MoveRefused, Set, Socket
  <2>2. SlotSound(c)' /\ MutexSound(c)' /\ PromptSound(c)'
    BY <1>1, <1>14 DEF MoveRefused, Set, Socket, SlotSound, MutexSound, PromptSound, Outside, Served, registryVars
  <2> QED  BY <1>2, <1>14, <2>1, <2>2 DEF MoveRefused, StepOf
<1>15. CASE ReadFails(c)
  <2>1. sock' \in [Conns -> Socket]
    BY <1>1, <1>15 DEF ReadFails, Set, Socket, Open
  <2>2. SlotSound(c)' /\ MutexSound(c)' /\ PromptSound(c)'
    BY <1>1, <1>15 DEF ReadFails, Set, Socket, SlotSound, MutexSound, PromptSound, Outside, Served, registryVars, Open
  <2> QED  BY <1>2, <1>15, <2>1, <2>2 DEF ReadFails, StepOf
<1>16. CASE SendError(c)
  <2>1. sock' \in [Conns -> Socket]
    BY <1>1, <1>16 DEF SendError, Set, Socket, WriteReturns, RoomLeft, Open, Deferred
  <2>2. SlotSound(c)' /\ MutexSound(c)' /\ PromptSound(c)'
    BY <1>1, <1>16 DEF SendError, Set, Socket, SlotSound, MutexSound, PromptSound, Outside, Served, registryVars, WriteReturns, RoomLeft, Open, Deferred
  <2> QED  BY <1>2, <1>16, <2>1, <2>2 DEF SendError, StepOf
<1>17. CASE CloseWithCode(c)
  <2>1. sock' \in [Conns -> Socket]
    BY <1>1, <1>17 DEF CloseWithCode, Set, Socket, Deferred
  <2>2. SlotSound(c)' /\ MutexSound(c)' /\ PromptSound(c)'
    BY <1>1, <1>17 DEF CloseWithCode, Set, Socket, SlotSound, MutexSound, PromptSound, Outside, Served, registryVars, Deferred
  <2> QED  BY <1>2, <1>17, <2>1, <2>2 DEF CloseWithCode, StepOf
<1>18. CASE Unsubscribe(c)
  <2>1. sock' \in [Conns -> Socket]
    BY <1>1, <1>18 DEF Unsubscribe, Set, Socket
  <2>2. SlotSound(c)' /\ MutexSound(c)' /\ PromptSound(c)'
    BY <1>1, <1>18 DEF Unsubscribe, Set, Socket, SlotSound, MutexSound, PromptSound, Outside, Served, registryVars
  <2> QED  BY <1>2, <1>18, <2>1, <2>2 DEF Unsubscribe, StepOf
<1>19. CASE ReleaseSlot(c)
  <2>1. sock' \in [Conns -> Socket]
    BY <1>1, <1>19 DEF ReleaseSlot, Set, Socket, Release
  <2>2. SlotSound(c)' /\ MutexSound(c)' /\ PromptSound(c)'
    BY <1>1, <1>19 DEF ReleaseSlot, Set, Socket, SlotSound, MutexSound, PromptSound, Outside, Served, registryVars, Release
  <2> QED  BY <1>2, <1>19, <2>1, <2>2 DEF ReleaseSlot, StepOf
<1>20. CASE Shut(c)
  <2>1. sock' \in [Conns -> Socket]
    BY <1>1, <1>20 DEF Shut, Set, Socket
  <2>2. SlotSound(c)' /\ MutexSound(c)' /\ PromptSound(c)'
    BY <1>1, <1>20 DEF Shut, Set, Socket, SlotSound, MutexSound, PromptSound, Outside, Served, registryVars
  <2> QED  BY <1>2, <1>20, <2>1, <2>2 DEF Shut, StepOf
<1>21. CASE ReaderLocks(c)
  <2>1. sock' \in [Conns -> Socket]
    BY <1>1, <1>21 DEF ReaderLocks, Set, Socket
  <2>2. SlotSound(c)' /\ MutexSound(c)' /\ PromptSound(c)'
    BY <1>1, <1>21 DEF ReaderLocks, Set, Socket, SlotSound, MutexSound, PromptSound, Outside, Served, registryVars
  <2> QED  BY <1>2, <1>21, <2>1, <2>2 DEF ReaderLocks, StepOf
<1>22. CASE WriterStops(c)
  <2>1. sock' \in [Conns -> Socket]
    BY <1>1, <1>22 DEF WriterStops, Set, Socket, Done
  <2>2. SlotSound(c)' /\ MutexSound(c)' /\ PromptSound(c)'
    BY <1>1, <1>22 DEF WriterStops, Set, Socket, SlotSound, MutexSound, PromptSound, Outside, Served, registryVars, Done
  <2> QED  BY <1>2, <1>22, <2>1, <2>2 DEF WriterStops, StepOf
<1>23. CASE TakeTick(c)
  <2>1. PICK b \in BOOLEAN : b = FALSE
    OBVIOUS
  <2>2. Set(c, [tick |-> b, writer |-> "ping"])
    BY <1>23, <2>1 DEF TakeTick
  <2>3. sock' \in [Conns -> Socket]
    BY <1>1, <1>23, <2>2 DEF TakeTick, Set, Socket
  <2>4. SlotSound(c)' /\ MutexSound(c)'
    BY <1>1, <1>23, <2>2 DEF TakeTick, Set, Socket, SlotSound, MutexSound, Outside, Served, registryVars
  <2>5. PromptSound(c)'
    BY <1>1, <1>23, <2>1, <2>2 DEF TakeTick, Set, Socket, PromptSound
  <2> QED  BY <1>2, <1>23, <2>3, <2>4, <2>5 DEF TakeTick, StepOf
<1>24. CASE TakeEvent(c)
  <2>1. sock' \in [Conns -> Socket]
    BY <1>1, <1>24 DEF TakeEvent, Set, Socket
  <2>2. SlotSound(c)' /\ MutexSound(c)' /\ PromptSound(c)'
    BY <1>1, <1>24 DEF TakeEvent, Set, Socket, SlotSound, MutexSound, PromptSound, Outside, Served, registryVars
  <2> QED  BY <1>2, <1>24, <2>1, <2>2 DEF TakeEvent, StepOf
<1>25. CASE WriterLocks(c)
  <2>1. sock' \in [Conns -> Socket]
    BY <1>1, <1>25 DEF WriterLocks, Set, Socket
  <2>2. SlotSound(c)' /\ MutexSound(c)' /\ PromptSound(c)'
    BY <1>1, <1>25 DEF WriterLocks, Set, Socket, SlotSound, MutexSound, PromptSound, Outside, Served, registryVars
  <2> QED  BY <1>2, <1>25, <2>1, <2>2 DEF WriterLocks, StepOf
<1>26. CASE WriteFrame(c)
  <2>1. PICK b \in BOOLEAN : b = Pinged(c)
    BY DEF Pinged
  <2>2. Set(c, [mu |-> "free", room |-> RoomLeft(c), pinged |-> b,
                writer |-> IF Open(c) THEN "select" ELSE "gone"])
    BY <1>26, <2>1 DEF WriteFrame
  <2>3. sock' \in [Conns -> Socket]
    BY <1>1, <1>26, <2>2 DEF WriteFrame, Set, Socket, WriteReturns, RoomLeft, Open
  <2>4. SlotSound(c)' /\ MutexSound(c)'
    <3>1. sock[c].writer # "off" /\ sock[c].mu = "writer"
      BY <1>1, <1>26 DEF WriteFrame, MutexSound
    <3> QED  BY <1>1, <1>26, <2>2, <3>1
             DEF WriteFrame, Set, Socket, SlotSound, MutexSound, Outside, Served, registryVars
  <2>5. PromptSound(c)'
    <3>1. /\ sock'[c].pinged = b /\ sock'[c].idle = sock[c].idle /\ sock'[c].tick = sock[c].tick
          /\ sock'[c].conn = sock[c].conn /\ sock'[c].client = sock[c].client
      BY <1>1, <2>2 DEF Set, Socket
    <3>2. CASE sock[c].conn = "open" /\ (sock[c].pinged \/ sock[c].writer = "ping")
      <4>1. b = TRUE
        BY <2>1, <3>2 DEF Pinged, Open
      <4> QED  BY <1>1, <3>1, <4>1 DEF PromptSound
    <3>3. CASE ~(sock[c].conn = "open" /\ (sock[c].pinged \/ sock[c].writer = "ping"))
      BY <1>1, <3>1, <3>3 DEF PromptSound
    <3> QED  BY <3>2, <3>3
  <2> QED  BY <1>2, <1>26, <2>3, <2>4, <2>5 DEF WriteFrame, StepOf
<1>27. CASE ClientReads(c)
  <2>1. sock' \in [Conns -> Socket]
    BY <1>1, <1>27 DEF ClientReads, Set, Socket, Open
  <2>2. SlotSound(c)' /\ MutexSound(c)' /\ PromptSound(c)'
    BY <1>1, <1>27 DEF ClientReads, Set, Socket, SlotSound, MutexSound, PromptSound, Outside, Served, registryVars, Open
  <2> QED  BY <1>2, <1>27, <2>1, <2>2 DEF ClientReads, StepOf
<1>28. CASE ClientTurns(c)
  <2>1. PICK mood \in {"slow", "silent"} : Set(c, [client |-> mood]) /\ UNCHANGED registryVars
    BY <1>28 DEF ClientTurns
  <2>2. sock' \in [Conns -> Socket]
    BY <1>1, <2>1 DEF Set, Socket
  <2>3. SlotSound(c)' /\ MutexSound(c)' /\ PromptSound(c)'
    BY <1>1, <2>1 DEF Set, Socket, SlotSound, MutexSound, PromptSound, registryVars
  <2> QED  BY <1>2, <2>1, <2>2, <2>3 DEF StepOf
<1>29. CASE Break(c)
  <2>1. sock' \in [Conns -> Socket]
    BY <1>1, <1>29 DEF Break, Set, Socket, Open
  <2>2. SlotSound(c)' /\ MutexSound(c)' /\ PromptSound(c)'
    BY <1>1, <1>29 DEF Break, Set, Socket, SlotSound, MutexSound, PromptSound, Outside, Served, registryVars, Open
  <2> QED  BY <1>2, <1>29, <2>1, <2>2 DEF Break, StepOf
<1>30. CASE Elapse(c)
  <2>1. PICK b \in BOOLEAN : b = (~Writes(c, "off") /\ ~Writes(c, "gone"))
    OBVIOUS
  <2>2. Set(c, [idle |-> IF sock[c].idle < IdlePeriods THEN sock[c].idle + 1
                                                       ELSE IdlePeriods,
                tick |-> b])
    BY <1>30, <2>1 DEF Elapse
  <2>3. sock' \in [Conns -> Socket]
    BY <1>1, <2>2 DEF Set, Socket
  <2>4. SlotSound(c)' /\ MutexSound(c)'
    BY <1>1, <1>30, <2>2 DEF Elapse, Set, Socket, SlotSound, MutexSound, Outside, Served, registryVars
  <2>5. PromptSound(c)'
    <3>1. /\ sock'[c].tick = b /\ sock'[c].writer = sock[c].writer
          /\ sock'[c].conn = sock[c].conn /\ sock'[c].client = sock[c].client
          /\ sock[c].idle < IdlePeriods => sock'[c].idle = sock[c].idle + 1
      BY <1>1, <2>2 DEF Set, Socket
    <3> SUFFICES ASSUME IdlePeriods >= 2, sock[c].client = "prompt", sock[c].conn = "open"
                 PROVE  sock'[c].idle = 1 /\ sock'[c].tick
      BY <3>1 DEF PromptSound
    <3>2. ~Busy(sock[c])
      BY <1>30 DEF Elapse, Open
    <3>3. sock[c].idle = 0
      BY <1>1, <3>2 DEF PromptSound, Busy
    <3>4. b = TRUE
      BY <2>1, <3>2 DEF Busy
    <3> QED  BY <3>1, <3>3, <3>4
  <2> QED  BY <1>2, <1>30, <2>3, <2>4, <2>5 DEF Elapse, StepOf
<1> QED  BY <1>3, <1>4, <1>5, <1>6, <1>7, <1>8, <1>9, <1>10, <1>11, <1>12, <1>13, <1>14, <1>15, <1>16, <1>17, <1>18, <1>19, <1>20, <1>21, <1>22, <1>23, <1>24, <1>25, <1>26, <1>27, <1>28, <1>29, <1>30 DEF ReaderStep, WriterStep, ClientStep

\* What is said of a connection does not depend on its queue.
LEMMA QueueDoesNotMatter ==
  ASSUME SocketsInv, NEW d \in Conns, NEW q \in 0..QueueCap,
         sock'[d] = [sock[d] EXCEPT !.queue = q], slot'[d] = slot[d]
  PROVE  SlotSound(d)' /\ MutexSound(d)' /\ PromptSound(d)'
<1>1. /\ SlotSound(d) /\ MutexSound(d) /\ PromptSound(d) /\ sock[d] \in Socket
  BY DEF SocketsInv
<1>2. /\ sock'[d].reader = sock[d].reader /\ sock'[d].writer = sock[d].writer
      /\ sock'[d].mu = sock[d].mu /\ sock'[d].sub = sock[d].sub
      /\ sock'[d].conn = sock[d].conn /\ sock'[d].client = sock[d].client
      /\ sock'[d].idle = sock[d].idle /\ sock'[d].tick = sock[d].tick
      /\ sock'[d].pinged = sock[d].pinged
  BY <1>1 DEF Socket
<1> QED  BY <1>1, <1>2 DEF SlotSound, MutexSound, PromptSound

\* Before anybody came, it holds.
LEMMA InitSocketsInv == SocketsInit => SocketsInv
<1> SUFFICES ASSUME SocketsInit PROVE SocketsInv
  OBVIOUS
<1>1. RegistryInv
  BY InitRegistryInv DEF SocketsInit
<1>2. NewSocket \in Socket
  BY SocketsAssumption DEF NewSocket, Socket
<1>3. \A c \in Conns : sock[c] = NewSocket /\ slot[c] = "none"
  BY DEF SocketsInit, RegistryInit
<1>4. \A c \in Conns : SlotSound(c) /\ MutexSound(c) /\ PromptSound(c)
  BY <1>3 DEF SlotSound, MutexSound, PromptSound, NewSocket, Served
<1> QED  BY <1>1, <1>2, <1>4 DEF SocketsInv, SocketsInit

\* Every step keeps it, and is one of the registry or leaves the registry alone.
LEMMA NextSocketsInv ==
  SocketsInv /\ [SocketsNext]_socketVars => SocketsInv' /\ [RegistryNext]_registryVars
<1> SUFFICES ASSUME SocketsInv, [SocketsNext]_socketVars
             PROVE  SocketsInv' /\ [RegistryNext]_registryVars
  OBVIOUS
<1>1. RegistryInv /\ sock \in [Conns -> Socket]
  BY DEF SocketsInv
<1>2. ASSUME NEW c \in Conns, StepOf(c)
      PROVE  SocketsInv' /\ [RegistryNext]_registryVars
  <2>1. [RegistryNext]_registryVars
    BY <1>2 DEF StepOf, RegistryNext
  <2>2. RegistryInv'
    BY <1>1, <2>1, StepRegistryInv
  <2>3. \A d \in Conns \ {c} : slot'[d] = slot[d]
    BY <1>1, <1>2 DEF StepOf, Acquire, Refuse, Release, registryVars, RegistryInv
  <2>4. \A d \in Conns \ {c} : SlotSound(d)' /\ MutexSound(d)' /\ PromptSound(d)'
    BY <1>2, <2>3, QueueDoesNotMatter DEF StepOf
  <2>5. sock' \in [Conns -> Socket] /\ SlotSound(c)' /\ MutexSound(c)' /\ PromptSound(c)'
    BY <1>2 DEF StepOf
  <2> QED  BY <2>1, <2>2, <2>4, <2>5 DEF SocketsInv
<1>3. CASE EventFromElsewhere
  <2>1. \A d \in Conns : \E q \in 0..QueueCap : sock'[d] = [sock[d] EXCEPT !.queue = q]
    BY <1>1, <1>3, Publishing DEF EventFromElsewhere
  <2>2. sock' \in [Conns -> Socket]
    <3>1. \A d \in Conns : Published(sock[d]) \in Socket
      BY <1>1, SocketsAssumption DEF Published, Socket
    <3> QED  BY <1>3, <3>1 DEF EventFromElsewhere
  <2>3. UNCHANGED registryVars
    BY <1>3 DEF EventFromElsewhere
  <2>4. RegistryInv'
    BY <1>1, <2>3, StepRegistryInv
  <2>5. \A d \in Conns : SlotSound(d)' /\ MutexSound(d)' /\ PromptSound(d)'
    BY <2>1, <2>3, QueueDoesNotMatter DEF registryVars
  <2> QED  BY <2>2, <2>3, <2>4, <2>5 DEF SocketsInv
<1>4. CASE UNCHANGED socketVars
  <2>1. UNCHANGED registryVars /\ UNCHANGED sock
    BY <1>4 DEF socketVars
  <2>2. RegistryInv'
    BY <1>1, <2>1, StepRegistryInv
  <2> QED  BY <2>1, <2>2
           DEF SocketsInv, SlotSound, MutexSound, PromptSound, registryVars
<1> QED  BY <1>2, <1>3, <1>4, SocketSteps DEF SocketsNext

THEOREM SocketsInvariance == SocketsSpec => []SocketsInv
  BY InitSocketsInv, NextSocketsInv, PTL DEF SocketsSpec

\* The handlers implement the registry's protocol: each acquires at most once and
\* gives back what it got, once (serveWs and its deferred release).
THEOREM SocketsKeepProtocol == SocketsSpec => RegistrySpec
<1>1. SocketsInit => RegistryInit
  BY DEF SocketsInit
<1> QED  BY <1>1, NextSocketsInv, SocketsInvariance, PTL DEF SocketsSpec, RegistrySpec

\* So whatever the two loops of every connection do, users and addresses stay
\* within their caps, and a connection is turned away only when one is at its cap.
THEOREM SocketsKeepLimit == SocketsSpec => KeepsLimit
  BY SocketsKeepProtocol, RegistryKeepsLimit

\* The types of connections.
THEOREM SocketsTypes == SocketsSpec => []SocketsTypeOK
<1>1. RegistryTypeOK /\ SocketsInv => SocketsTypeOK
  BY DEF SocketsInv, SocketsTypeOK
<1> QED  BY <1>1, SocketsInvariance, SocketsKeepProtocol, RegistryTypes, PTL

\* Slots are taken after authentication, kept while a connection is served, and
\* given back on every way out, before the handler returns.
THEOREM SlotsAreSound == SocketsSpec => []SlotsMatchSockets
<1>1. SocketsInv => SlotsMatchSockets
  BY DEF SocketsInv, RegistryInv, SlotsMatchSockets, SlotSound, Outside, Served
<1> QED  BY <1>1, SocketsInvariance, PTL

\* wsWriteMu is held by a loop only while it has a frame to write: no loop leaves
\* with it.
THEOREM MutexIsGivenBack == SocketsSpec => [](\A c \in Conns : MutexSound(c))
<1>1. SocketsInv => \A c \in Conns : MutexSound(c)
  BY DEF SocketsInv
<1> QED  BY <1>1, SocketsInvariance, PTL

\* A wsIdleTimeout of two periods of the ping ticker is enough: no client that
\* answers within a period is cut off, however little it has to say.
THEOREM PromptIsNotCutOff ==
  ASSUME IdlePeriods >= 2 PROVE SocketsSpec => []PromptClientStays
<1>1. SocketsInv => PromptClientStays
  BY SocketsAssumption DEF SocketsInv, PromptSound, PromptClientStays
<1> QED  BY <1>1, SocketsInvariance, PTL

=============================================================================
