----------------------------- MODULE LiveProofs -----------------------------
(***************************************************************************)
(* Proofs about the parts of LiveParts, for any numbers of requests,       *)
(* users and sockets and of failing calls: however the first requests of   *)
(* users interleave, a user is one row; and what is proved of the sockets  *)
(* holds beside them.                                                      *)
(***************************************************************************)
EXTENDS LiveParts, GameServiceProofs, RegistryProofs

----------------------------------------------------------------------------
(* The users *)

UserTypes ==
  /\ users \subseteq Accounts!Rows /\ stats \subseteq Subs
  /\ pending \in [Reqs -> Accounts!Rows \cup {NoRow}]
  /\ step \in [Reqs -> {"idle", "find", "check", "put", "commit", "reread", "done"}]
  /\ name \in [Reqs -> Names] /\ attempt \in [Reqs -> {0, 1}]
  /\ answer \in [Reqs -> Names \cup Accounts!Failures]

\* Two rows are told apart by either column.
Apart(x, y) == x.sub # y.sub /\ x.name # y.name

\* What a transaction has entered is not in the way of a committed row, nor of what
\* another transaction has entered.
EnteredApart(r) ==
  pending[r] # NoRow =>
    /\ step[r] = "commit" /\ pending[r].sub = SubOf[r]
    /\ \A x \in users : Apart(pending[r], x)
    /\ \A q \in Reqs \ {r} : pending[q] # NoRow => Apart(pending[r], pending[q])

\* A request that commits nothing has found a row, and a row never goes away.
RowFound(r) ==
  step[r] = "reread" \/ (step[r] = "commit" /\ pending[r] = NoRow) =>
    \E x \in users : x.sub = SubOf[r]

\* Whoever is let in goes by the name in her row.
AnswerTrue(r) ==
  answer[r] \notin Accounts!Failures => [sub |-> SubOf[r], name |-> answer[r]] \in users

UsersInv ==
  /\ UserTypes
  /\ \A x, y \in users : x = y \/ Apart(x, y)
  /\ \A r \in Reqs : EnteredApart(r) /\ RowFound(r) /\ AnswerTrue(r)
  /\ stats = {x.sub : x \in users}

LEMMA InitUsersInv == Accounts!Init => UsersInv
BY UsersAssumption
   DEF Accounts!Init, Accounts!UsersAssumption, UsersInv, UserTypes, EnteredApart, RowFound,
       AnswerTrue, Accounts!Failures

\* A request moves without touching the rows: its own part of the invariant is left.
LEMMA OneRequest ==
  ASSUME UsersInv, NEW r \in Reqs, UserTypes', UNCHANGED <<users, stats>>,
         \A q \in Reqs \ {r} : /\ pending'[q] = pending[q] /\ step'[q] = step[q]
                               /\ answer'[q] = answer[q],
         pending'[r] \in {NoRow, pending[r]},
         EnteredApart(r)', RowFound(r)', AnswerTrue(r)'
  PROVE  UsersInv'
<1>1. ASSUME NEW q \in Reqs \ {r} PROVE EnteredApart(q)' /\ RowFound(q)' /\ AnswerTrue(q)'
  <2>1. EnteredApart(q) /\ RowFound(q) /\ AnswerTrue(q)
    BY DEF UsersInv
  <2>2. EnteredApart(q)'
    BY <2>1 DEF EnteredApart
  <2> QED  BY <2>1, <2>2 DEF RowFound, AnswerTrue
<1> QED  BY <1>1 DEF UsersInv

\* A transaction commits: its row, and the statistics with it.
LEMMA Committing ==
  ASSUME UsersInv, NEW r \in Reqs, Accounts!CommitRows(r), step[r] = "commit",
         UNCHANGED <<name, attempt>>,
         NEW label \in {"reread", "done"}, step' = [step EXCEPT ![r] = label],
         \/ UNCHANGED answer
         \/ answer' = [answer EXCEPT ![r] = "error"]
  PROVE  UsersInv'
<1>1. /\ UserTypes /\ EnteredApart(r) /\ RowFound(r)
      /\ users \subseteq Accounts!Rows
      /\ pending \in [Reqs -> Accounts!Rows \cup {NoRow}] /\ NoRow \notin Accounts!Rows
      /\ users' = IF pending[r] = NoRow THEN users ELSE users \cup {pending[r]}
      /\ stats' = stats \cup {SubOf[r]} /\ pending' = [pending EXCEPT ![r] = NoRow]
      /\ SubOf \in [Reqs -> Subs]
  BY UsersAssumption
     DEF UsersInv, UserTypes, Accounts!CommitRows, Accounts!UsersAssumption, Accounts!Rows
<1>2. /\ users \subseteq users' /\ users' \subseteq Accounts!Rows
      /\ \A x \in users' : x \in users \/ (x = pending[r] /\ pending[r] # NoRow)
  BY <1>1
<1>3. \E x \in users' : x.sub = SubOf[r]
  BY <1>1 DEF EnteredApart, RowFound
<1>4. UserTypes'
  <2>1. /\ pending' \in [Reqs -> Accounts!Rows \cup {NoRow}] /\ stats' \subseteq Subs
    BY <1>1 DEF UserTypes
  <2>2. step' \in [Reqs -> {"idle", "find", "check", "put", "commit", "reread", "done"}]
    BY <1>1 DEF UserTypes
  <2>3. answer' \in [Reqs -> Names \cup Accounts!Failures]
    BY <1>1 DEF UserTypes, Accounts!Failures
  <2> QED  BY <1>1, <1>2, <2>1, <2>2, <2>3 DEF UserTypes
<1>5. \A x, y \in users' : x = y \/ Apart(x, y)
  BY <1>1, <1>2 DEF UsersInv, EnteredApart, Apart
<1>6. stats' = {x.sub : x \in users'}
  <2>1. stats = {x.sub : x \in users}
    BY DEF UsersInv
  <2>2. \A x \in users' : x \in users \/ x.sub = SubOf[r]
    BY <1>1, <1>2 DEF EnteredApart
  <2> QED  BY <1>1, <1>2, <1>3, <2>1, <2>2
<1>7. ASSUME NEW q \in Reqs PROVE EnteredApart(q)' /\ RowFound(q)' /\ AnswerTrue(q)'
  <2>1. EnteredApart(q) /\ RowFound(q) /\ AnswerTrue(q)
    BY DEF UsersInv
  <2>2. CASE q = r
    <3>1. pending'[r] = NoRow /\ (answer'[r] = answer[r] \/ answer'[r] = "error")
      BY <1>1 DEF UserTypes
    <3>2. "error" \in Accounts!Failures
      BY DEF Accounts!Failures
    <3> QED  BY <1>2, <1>3, <2>1, <2>2, <3>1, <3>2 DEF EnteredApart, RowFound, AnswerTrue
  <2>3. CASE q # r
    <3>1. pending'[q] = pending[q] /\ step'[q] = step[q] /\ answer'[q] = answer[q]
      BY <1>1, <2>3 DEF UserTypes
    <3>2. \A t \in Reqs \ {q} : pending'[t] # NoRow => pending'[t] = pending[t]
      BY <1>1
    <3>3. EnteredApart(q)'
      <4> SUFFICES ASSUME pending[q] # NoRow
                   PROVE  /\ step[q] = "commit" /\ pending[q].sub = SubOf[q]
                          /\ \A x \in users' : Apart(pending[q], x)
                          /\ \A t \in Reqs \ {q} :
                               pending'[t] # NoRow => Apart(pending[q], pending'[t])
        BY <3>1 DEF EnteredApart
      <4> QED  BY <1>2, <2>1, <2>3, <3>2 DEF EnteredApart
    <3> QED  BY <1>2, <2>1, <3>1, <3>3 DEF RowFound, AnswerTrue
  <2> QED  BY <2>2, <2>3
<1> QED  BY <1>4, <1>5, <1>6, <1>7 DEF UsersInv

LEMMA StepUsersInv == UsersInv /\ [Accounts!Next]_Accounts!vars => UsersInv'
<1> SUFFICES ASSUME UsersInv, [Accounts!Next]_Accounts!vars PROVE UsersInv'
  OBVIOUS
<1> USE DEF Accounts!Goto, Accounts!Finish
<1>0. /\ UserTypes /\ users \subseteq Accounts!Rows /\ NoRow \notin Accounts!Rows
      /\ SubOf \in [Reqs -> Subs] /\ Preferred \in [Subs -> Names]
      /\ SelfName \in [Subs -> Names] /\ Suffixed \in [Names \X Subs -> Names]
      /\ \A r \in Reqs : EnteredApart(r) /\ RowFound(r) /\ AnswerTrue(r)
      /\ Accounts!Failures = {"none", "error", "taken", "nil"}
  BY UsersAssumption
     DEF UsersInv, UserTypes, Accounts!UsersAssumption, Accounts!Rows, Accounts!Failures
<1>1. ASSUME NEW r \in Reqs, Accounts!Fetch(r) PROVE UsersInv'
  <2>1. /\ step[r] = "idle" /\ step' = [step EXCEPT ![r] = "find"]
        /\ \E x \in Names : name' = [name EXCEPT ![r] = x]
        /\ UNCHANGED <<users, stats, pending, attempt, answer>>
    BY <1>0, <1>1 DEF Accounts!Fetch
  <2>2. UserTypes' /\ step'[r] = "find"
    BY <1>0, <2>1 DEF UserTypes
  <2>3. EnteredApart(r)' /\ RowFound(r)' /\ AnswerTrue(r)'
    BY <1>0, <2>1, <2>2 DEF EnteredApart, RowFound, AnswerTrue
  <2> QED  BY <1>0, <2>1, <2>2, <2>3, OneRequest DEF UserTypes
<1>2. ASSUME NEW r \in Reqs, Accounts!Find(r) \/ Accounts!Reread(r) PROVE UsersInv'
  <2>1. /\ step[r] \in {"find", "reread"}
        /\ \/ /\ step[r] = "find" /\ step' = [step EXCEPT ![r] = "check"] /\ UNCHANGED answer
           \/ /\ step' = [step EXCEPT ![r] = "done"]
              /\ \/ answer' = [answer EXCEPT ![r] = "nil"]
                 \/ \E x \in Accounts!RowsOf(SubOf[r]) :
                      answer' = [answer EXCEPT ![r] = x.name]
        /\ UNCHANGED <<users, stats, pending, name, attempt>>
    BY <1>2 DEF Accounts!Find, Accounts!Reread
  <2>2. \A x \in Accounts!RowsOf(SubOf[r]) :
          x \in users /\ x.name \in Names /\ x = [sub |-> SubOf[r], name |-> x.name]
    BY <1>0 DEF Accounts!RowsOf, Accounts!Rows
  <2>3. UserTypes' /\ step'[r] \in {"check", "done"}
    <3>1. answer' \in [Reqs -> Names \cup Accounts!Failures]
      BY <1>0, <2>1, <2>2 DEF UserTypes
    <3> QED  BY <1>0, <2>1, <3>1 DEF UserTypes
  <2>4. AnswerTrue(r)'
    <3>1. \/ answer'[r] = answer[r] \/ answer'[r] = "nil"
          \/ \E x \in Accounts!RowsOf(SubOf[r]) : answer'[r] = x.name
      BY <1>0, <2>1 DEF UserTypes
    <3> QED  BY <1>0, <2>1, <2>2, <3>1 DEF AnswerTrue
  <2>5. EnteredApart(r)' /\ RowFound(r)'
    BY <1>0, <2>1, <2>3 DEF EnteredApart, RowFound
  <2>6. \A q \in Reqs \ {r} : step'[q] = step[q] /\ answer'[q] = answer[q]
    BY <1>0, <2>1 DEF UserTypes
  <2> QED  BY <2>1, <2>3, <2>4, <2>5, <2>6, OneRequest
<1>3. ASSUME NEW r \in Reqs, Accounts!Check(r) PROVE UsersInv'
  <2>1. /\ step[r] = "check"
        /\ step' = [step EXCEPT ![r] =
             IF Accounts!RowsOf(SubOf[r]) = {} THEN "put" ELSE "commit"]
        /\ UNCHANGED <<users, stats, pending, name, attempt, answer>>
    BY <1>3 DEF Accounts!Check
  <2>2. UserTypes'
    BY <1>0, <2>1 DEF UserTypes
  <2>3. step'[r] = IF Accounts!RowsOf(SubOf[r]) = {} THEN "put" ELSE "commit"
    BY <1>0, <2>1 DEF UserTypes
  <2>4. pending[r] = NoRow
    BY <1>0, <2>1 DEF EnteredApart
  <2>5. EnteredApart(r)' /\ RowFound(r)' /\ AnswerTrue(r)'
    BY <1>0, <2>1, <2>3, <2>4 DEF EnteredApart, RowFound, AnswerTrue, Accounts!RowsOf
  <2> QED  BY <1>0, <2>1, <2>2, <2>5, OneRequest DEF UserTypes
<1>4. ASSUME NEW r \in Reqs, Accounts!Put(r) PROVE UsersInv'
  <2> DEFINE mine == [sub |-> SubOf[r], name |-> name[r]]
  <2>1. /\ step[r] = "put" /\ pending' = [pending EXCEPT ![r] = mine]
        /\ step' = [step EXCEPT ![r] = "commit"]
        /\ UNCHANGED <<users, stats, name, attempt, answer>>
    BY <1>4 DEF Accounts!Put, Accounts!MyRow
  <2>2. mine \in Accounts!Rows /\ mine.sub = SubOf[r] /\ mine.name = name[r]
    BY <1>0 DEF UserTypes, Accounts!Rows
  <2>3. /\ \A q \in Reqs \ {r} : pending[q] # NoRow =>
             pending[q].sub # SubOf[r] /\ pending[q].name # name[r]
        /\ \A x \in users : x.sub # SubOf[r] /\ x.name # name[r]
    BY <1>4 DEF Accounts!Put, Accounts!SubPending, Accounts!NamePending, Accounts!Duplicate
  <2> HIDE DEF mine
  <2>4. UserTypes'
    BY <1>0, <2>1, <2>2 DEF UserTypes
  <2>5. /\ pending'[r] = mine /\ step'[r] = "commit"
        /\ \A q \in Reqs \ {r} : pending'[q] = pending[q] /\ step'[q] = step[q]
    BY <1>0, <2>1 DEF UserTypes
  <2>6. EnteredApart(r)'
    BY <2>1, <2>2, <2>3, <2>5 DEF EnteredApart, Apart
  <2>7. mine # NoRow
    BY <1>0, <2>2
  <2>8. ASSUME NEW q \in Reqs PROVE RowFound(q)' /\ AnswerTrue(q)'
    BY <1>0, <2>1, <2>5, <2>7 DEF RowFound, AnswerTrue
  <2>9. ASSUME NEW q \in Reqs \ {r} PROVE EnteredApart(q)'
    <3>1. pending[q] # NoRow => Apart(pending[q], mine)
      BY <2>2, <2>3 DEF Apart
    <3> QED  BY <1>0, <2>1, <2>5, <3>1 DEF EnteredApart
  <2> QED  BY <2>1, <2>4, <2>6, <2>8, <2>9 DEF UsersInv
<1>5. ASSUME NEW r \in Reqs, Accounts!PutFails(r) PROVE UsersInv'
  <2>1. /\ step[r] = "put" /\ UNCHANGED <<users, stats, pending>>
        /\ \/ /\ name' = [name EXCEPT ![r] = Suffixed[<<@, SubOf[r]>>]]
              /\ attempt' = [attempt EXCEPT ![r] = 1]
              /\ step' = [step EXCEPT ![r] = "check"] /\ UNCHANGED answer
           \/ /\ step' = [step EXCEPT ![r] = "done"]
              /\ answer' = [answer EXCEPT ![r] = "taken"] /\ UNCHANGED <<name, attempt>>
    BY <1>5 DEF Accounts!PutFails
  <2>2. Suffixed[<<name[r], SubOf[r]>>] \in Names
    BY <1>0 DEF UserTypes
  <2>3. UserTypes'
    <3>1. name' \in [Reqs -> Names]
      BY <1>0, <2>1, <2>2 DEF UserTypes
    <3>2. attempt' \in [Reqs -> {0, 1}] /\ answer' \in [Reqs -> Names \cup Accounts!Failures]
      BY <1>0, <2>1 DEF UserTypes
    <3> QED  BY <1>0, <2>1, <3>1, <3>2 DEF UserTypes
  <2>4. /\ step'[r] \in {"check", "done"} /\ answer'[r] \in {answer[r], "taken"}
        /\ \A q \in Reqs \ {r} : step'[q] = step[q] /\ answer'[q] = answer[q]
    BY <1>0, <2>1 DEF UserTypes
  <2>5. EnteredApart(r)' /\ RowFound(r)' /\ AnswerTrue(r)'
    BY <1>0, <2>1, <2>4 DEF EnteredApart, RowFound, AnswerTrue
  <2> QED  BY <2>1, <2>3, <2>4, <2>5, OneRequest
<1>6. ASSUME NEW r \in Reqs, Accounts!Commit(r) \/ Accounts!CommitLost(r) PROVE UsersInv'
  BY <1>6, Committing DEF Accounts!Commit, Accounts!CommitLost
<1>7. ASSUME NEW r \in Reqs, Accounts!CallFails(r) PROVE UsersInv'
  <2>1. /\ pending' = [pending EXCEPT ![r] = NoRow] /\ step' = [step EXCEPT ![r] = "done"]
        /\ answer' = [answer EXCEPT ![r] = "error"]
        /\ UNCHANGED <<users, stats, name, attempt>>
    BY <1>7 DEF Accounts!CallFails, Accounts!Rollback
  <2>2. UserTypes'
    BY <1>0, <2>1 DEF UserTypes
  <2>3. /\ pending'[r] = NoRow /\ step'[r] = "done" /\ answer'[r] = "error"
        /\ \A q \in Reqs \ {r} : /\ pending'[q] = pending[q] /\ step'[q] = step[q]
                                 /\ answer'[q] = answer[q]
    BY <1>0, <2>1 DEF UserTypes
  <2>4. EnteredApart(r)' /\ RowFound(r)' /\ AnswerTrue(r)'
    BY <1>0, <2>3 DEF EnteredApart, RowFound, AnswerTrue
  <2> QED  BY <2>1, <2>2, <2>3, <2>4, OneRequest
<1>8. CASE UNCHANGED Accounts!vars
  BY <1>0, <1>8
     DEF Accounts!vars, UsersInv, UserTypes, EnteredApart, RowFound, AnswerTrue
<1> QED
  BY <1>1, <1>2, <1>3, <1>4, <1>5, <1>6, <1>7, <1>8
     DEF Accounts!Next, Accounts!Serve, Accounts!Finished

LEMMA UsersInvariance == Accounts!Spec => []UsersInv
BY InitUsersInv, StepUsersInv, PTL DEF Accounts!Spec

\* Whichever of her first requests inserts a user's row, and whatever fails on the
\* way: she is one row, whose name nobody else has, with statistics; all who are let
\* in go by it, and nobody is let in without one (UpsertCognitoUser).
THEOREM UsersAreSound == Accounts!Spec => []UsersSound
<1>1. UsersInv => UsersSound
  BY DEF UsersInv, Apart, RowFound, AnswerTrue, UsersSound, Accounts!OneIdentity,
         Accounts!NeverNil, Accounts!StatsForEveryUser, Accounts!RowsOf
<1> QED  BY UsersInvariance, <1>1, PTL

----------------------------------------------------------------------------
(* The parts together *)

\* Each part of the composition behaves as it does alone.
LEMMA EachLivePart == LiveSpec => Spec /\ SocketsSpec /\ Accounts!Spec
<1>1. LiveInit => Init /\ SocketsInit /\ Accounts!Init
  BY DEF LiveInit
<1>2. [LiveNext]_<<part, vars, socketVars, accountVars>> =>
        [Next]_vars /\ [SocketsNext]_socketVars /\ [Accounts!Next]_Accounts!vars
  BY DEF LiveNext, accountVars, Accounts!vars
<1> QED  BY <1>1, <1>2, PTL DEF LiveSpec, Spec, SocketsSpec, Accounts!Spec

\* What is proved of the parts holds of them side by side: users are sound, and,
\* where the reader waits for two pings or more, no client that answers is cut off.
THEOREM LivePartsAreSound == LiveSpec => []UsersSound
BY EachLivePart, UsersAreSound, PTL

THEOREM LiveClientsStay ==
  ASSUME IdlePeriods >= 2 PROVE LiveSpec => []PromptClientStays
BY EachLivePart, PromptIsNotCutOff, PTL

=============================================================================
