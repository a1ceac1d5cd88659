------------------------------ MODULE PostRPC ------------------------------
(***************************************************************************)
(* What http_post promises its callers in chaos_crest.c (push_cu_int, the  *)
(* json variants): calls are made one at a time, each is decided at most   *)
(* once by the other end, and a call returns nothing but the decision      *)
(* taken for that very call.                                               *)
(***************************************************************************)
EXTENDS Integers

CONSTANTS MaxPosts, Codes

Posts == 1..MaxPosts

VARIABLES
  phase,    \* "idle", "calling" or "closed"
  cur,      \* number of calls made
  answer,   \* the decision on each call: a status code, -1 for no connection
  result    \* what each call returned

vars == <<phase, cur, answer, result>>

Undecided == 0
Pending == -2
ConnectFailed == -1

Init ==
  /\ phase = "idle"
  /\ cur = 0
  /\ answer = [p \in Posts |-> Undecided]
  /\ result = [p \in Posts |-> Pending]

Call ==
  /\ phase = "idle" /\ cur < MaxPosts
  /\ phase' = "calling"
  /\ cur' = cur + 1
  /\ UNCHANGED <<answer, result>>

Decide ==
  /\ phase = "calling" /\ answer[cur] = Undecided
  /\ \E a \in Codes \cup {ConnectFailed} : answer' = [answer EXCEPT ![cur] = a]
  /\ UNCHANGED <<phase, cur, result>>

\* 0 for the status 200, the decision itself otherwise.
Outcome(a) == IF a = 200 THEN 0 ELSE a

Return ==
  /\ phase = "calling" /\ answer[cur] # Undecided
  /\ phase' = "idle"
  /\ result' = [result EXCEPT ![cur] = Outcome(answer[cur])]
  /\ UNCHANGED <<cur, answer>>

Close ==
  /\ phase = "idle"
  /\ phase' = "closed"
  /\ UNCHANGED <<cur, answer, result>>

Next == Call \/ Decide \/ Return \/ Close

Spec == Init /\ [][Next]_vars
=============================================================================
