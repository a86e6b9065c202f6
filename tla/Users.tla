------------------------------- MODULE Users -------------------------------
(***************************************************************************)
(* First requests of users: a request with a valid token is mapped to a    *)
(* row of the table users, which the first of them inserts.  Requests run  *)
(* concurrently, and each call to the database is a step.                  *)
(*                                                                         *)
(* Of Postgres the model has what the statements rely on (read committed): *)
(* the table has three unique keys, id and cognito_sub (both the subject)  *)
(* and username.  INSERT .. ON CONFLICT (cognito_sub) first looks for a    *)
(* row with that subject, and does nothing if there is one; it then enters *)
(* its own row, and a duplicate id or username raises error 23505.  Either *)
(* step waits for a transaction that has entered, but not yet committed, a *)
(* row that is in the way.                                                 *)
(***************************************************************************)
EXTENDS Integers, FiniteSets

CONSTANTS
  Reqs, Subs, Names,
  SubOf,        \* whose token a request carries
  Preferred,    \* Preferred[s]: the display name that user s has chosen
  SelfName,     \* SelfName[s]: the subject itself, used as a name
  Suffixed,     \* Suffixed[<<n, s>>]: name n, "_" and the first 8 letters of s
  NoRow,
  MaxFaults     \* bound: calls that fail

UsersAssumption ==
  /\ SubOf \in [Reqs -> Subs] /\ Preferred \in [Subs -> Names]
  /\ SelfName \in [Subs -> Names] /\ Suffixed \in [Names \X Subs -> Names]
  /\ NoRow \notin [sub : Subs, name : Names]
  /\ MaxFaults \in Nat

VARIABLES
  users,     \* the committed rows
  stats,     \* the subjects with a committed row in user_stats
  pending,   \* pending[r]: the row that r's open transaction has entered
  pc, name, attempt,
  answer,    \* "none", "error", "taken", "nil" or the name in the claims
  faults

vars == <<users, stats, pending, pc, name, attempt, answer, faults>>

Rows == [sub : Subs, name : Names]

Init ==
  /\ users = {} /\ stats = {}
  /\ pending = [r \in Reqs |-> NoRow]
  /\ pc = [r \in Reqs |-> "idle"]
  /\ name = [r \in Reqs |-> SelfName[SubOf[r]]]
  /\ attempt = [r \in Reqs |-> 0]
  /\ answer = [r \in Reqs |-> "none"]
  /\ faults = 0

RowsOf(s) == {u \in users : u.sub = s}

MyRow(r) == [sub |-> SubOf[r], name |-> name[r]]

\* Somebody else's open transaction holds a row with property P.
SubPending(r) == \E q \in Reqs \ {r} : /\ pending[q] # NoRow
                                       /\ pending[q].sub = SubOf[r]

NamePending(r) == \E q \in Reqs \ {r} : /\ pending[q] # NoRow
                                        /\ pending[q].name = name[r]

Goto(r, label) == pc' = [pc EXCEPT ![r] = label]

Finish(r, a) == Goto(r, "done") /\ answer' = [answer EXCEPT ![r] = a]

\* The display name, or the subject when it cannot be had.
Fetch(r) ==
  /\ pc[r] = "idle"
  /\ \E n \in {Preferred[SubOf[r]], SelfName[SubOf[r]]} :
       name' = [name EXCEPT ![r] = n]
  /\ Goto(r, "find")
  /\ UNCHANGED <<users, stats, pending, attempt, answer, faults>>

Find(r) ==
  /\ pc[r] = "find"
  /\ IF RowsOf(SubOf[r]) = {}
       THEN Goto(r, "check") /\ UNCHANGED answer
       ELSE \E u \in RowsOf(SubOf[r]) : Finish(r, u.name)
  /\ UNCHANGED <<users, stats, pending, name, attempt, faults>>

\* The insert looks for a row with the subject.
Check(r) ==
  /\ pc[r] = "check" /\ ~SubPending(r)
  /\ Goto(r, IF RowsOf(SubOf[r]) = {} THEN "put" ELSE "commit")
  /\ UNCHANGED <<users, stats, pending, name, attempt, answer, faults>>

Duplicate(r) == \E u \in users : u.sub = SubOf[r] \/ u.name = name[r]

\* Mutant: a row is inserted outside of the transaction.
Put_OutsideTx(r) ==
  /\ pc[r] = "put" /\ ~SubPending(r) /\ ~NamePending(r) /\ ~Duplicate(r)
  /\ users' = users \cup {MyRow(r)}
  /\ Goto(r, "commit")
  /\ UNCHANGED <<pending, stats, name, attempt, answer, faults>>

\* The row is entered, and seen by nobody before the commit.
Put(r) ==
  /\ pc[r] = "put" /\ ~SubPending(r) /\ ~NamePending(r) /\ ~Duplicate(r)
  /\ pending' = [pending EXCEPT ![r] = MyRow(r)]
  /\ Goto(r, "commit")
  /\ UNCHANGED <<users, stats, name, attempt, answer, faults>>

\* Mutant: the second insert has the same name, and so on.
PutFails_SameName(r) ==
  /\ pc[r] = "put" /\ ~SubPending(r) /\ ~NamePending(r) /\ Duplicate(r)
  /\ Goto(r, "check")
  /\ UNCHANGED <<users, stats, pending, name, attempt, answer, faults>>

\* Error 23505: once more with the suffixed name, or an error.
PutFails(r) ==
  /\ pc[r] = "put" /\ ~SubPending(r) /\ ~NamePending(r) /\ Duplicate(r)
  /\ IF attempt[r] = 0
       THEN /\ name' = [name EXCEPT ![r] = Suffixed[<<@, SubOf[r]>>]]
            /\ attempt' = [attempt EXCEPT ![r] = 1]
            /\ Goto(r, "check") /\ UNCHANGED answer
       ELSE Finish(r, "taken") /\ UNCHANGED <<name, attempt>>
  /\ UNCHANGED <<users, stats, pending, faults>>

CommitRows(r) ==
  /\ users' = IF pending[r] = NoRow THEN users ELSE users \cup {pending[r]}
  /\ stats' = stats \cup {SubOf[r]}
  /\ pending' = [pending EXCEPT ![r] = NoRow]

\* The row of user_stats, in the same transaction, and the commit.
Commit(r) ==
  /\ pc[r] = "commit"
  /\ CommitRows(r)
  /\ Goto(r, "reread")
  /\ UNCHANGED <<name, attempt, answer, faults>>

\* The row is read again; if there were none, the caller would use nil.
Reread(r) ==
  /\ pc[r] = "reread"
  /\ IF RowsOf(SubOf[r]) = {}
       THEN Finish(r, "nil")
       ELSE \E u \in RowsOf(SubOf[r]) : Finish(r, u.name)
  /\ UNCHANGED <<users, stats, pending, name, attempt, faults>>

Rollback(r) == pending' = [pending EXCEPT ![r] = NoRow]

\* A call fails, or the process dies: the transaction is rolled back.
CallFails(r) ==
  /\ pc[r] \notin {"idle", "done"} /\ faults < MaxFaults
  /\ faults' = faults + 1
  /\ Rollback(r)
  /\ Finish(r, "error")
  /\ UNCHANGED <<users, stats, name, attempt>>

\* The commit takes effect and its reply is lost.
CommitLost(r) ==
  /\ pc[r] = "commit" /\ faults < MaxFaults
  /\ faults' = faults + 1
  /\ CommitRows(r)
  /\ Finish(r, "error")
  /\ UNCHANGED <<name, attempt>>

Serve(r) == Find(r) \/ Check(r) \/ Put(r) \/ PutFails(r) \/ Commit(r) \/ Reread(r)

Finished == (\A r \in Reqs : pc[r] = "done") /\ UNCHANGED vars

Next == \/ \E r \in Reqs : Fetch(r) \/ Serve(r) \/ CallFails(r) \/ CommitLost(r)
        \/ Finished

Spec == Init /\ [][Next]_vars

\* A request that was accepted is served: a goroutine runs, a call returns.
Fairness == \A r \in Reqs : WF_vars(Serve(r))

FairSpec == Spec /\ Fairness

----------------------------------------------------------------------------
(* Properties *)

Failures == {"none", "error", "taken", "nil"}

TypeOK ==
  /\ users \subseteq Rows /\ stats \subseteq Subs
  /\ pending \in [Reqs -> Rows \cup {NoRow}]
  /\ pc \in [Reqs -> {"idle", "find", "check", "put", "commit", "reread", "done"}]
  /\ name \in [Reqs -> Names] /\ attempt \in [Reqs -> {0, 1}]
  /\ answer \in [Reqs -> Names \cup Failures]
  /\ faults \in 0 .. MaxFaults

\* A user is one row, whose name nobody else has: whichever of her requests
\* inserted it, and under which of the names, all of them say the same.
OneIdentity ==
  /\ \A u, v \in users : u.sub = v.sub \/ u.name = v.name => u = v
  /\ \A r \in Reqs : answer[r] \notin Failures =>
       [sub |-> SubOf[r], name |-> answer[r]] \in users

\* Nobody is let in without a row: the final read, whose result is used
\* without a check for nil, always finds one.
NeverNil == \A r \in Reqs : pc[r] = "reread" => RowsOf(SubOf[r]) # {}

\* A user with a row has her statistics: the two are committed together.
StatsForEveryUser == stats = {u.sub : u \in users}

\* Transactions wait for each other, but never for ever: every request that
\* was accepted is answered.
EveryRequestAnswered ==
  \A r \in Reqs : pc[r] # "idle" ~> pc[r] = "done"

\* What the upsert's comment claims: concurrent first requests are safe.  A
\* request is refused only because other users have both of its names.
FirstRequestsSafe ==
  \A r \in Reqs : answer[r] = "taken" =>
    \E u \in users : u.sub # SubOf[r] /\ u.name = name[r]

\* What the comment in ValidateToken claims: no request fails because of a name.
NameNeverRefuses ==
  \A r \in Reqs : answer[r] = "taken" => RowsOf(SubOf[r]) # {}

=============================================================================
