------------------------------ MODULE GameLog ------------------------------
(***************************************************************************)
(* What the game service promises to its clients: the requests that change *)
(* a game do so one after the other, each at most once; a request answered *)
(* "ok" has taken effect, one answered "refused" has not and will not, and *)
(* of one that failed nobody can tell: it may take effect even afterwards. *)
(***************************************************************************)
EXTENDS Sequences

CONSTANT Requests

VARIABLES log,      \* the requests that took effect, in order
          answer    \* what each request was told: "none" until it is told

InLog(r) == \E i \in DOMAIN log : log[i] = r

Init == log = <<>> /\ answer = [r \in Requests |-> "none"]

TakeEffect(r) ==
  /\ answer[r] \in {"none", "failed"} /\ ~InLog(r)
  /\ log' = Append(log, r)
  /\ UNCHANGED answer

Answer(r, a) ==
  /\ answer[r] = "none"
  /\ a = "ok" => InLog(r)
  /\ a = "refused" => ~InLog(r)
  /\ answer' = [answer EXCEPT ![r] = a]
  /\ UNCHANGED log

Next == \E r \in Requests :
          TakeEffect(r) \/ \E a \in {"ok", "refused", "failed"} : Answer(r, a)

Spec == Init /\ [][Next]_<<log, answer>>

=============================================================================
