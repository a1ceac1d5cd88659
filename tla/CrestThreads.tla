---------------------------- MODULE CrestThreads ----------------------------
(***************************************************************************)
(* Several handles of one process, each used by a thread of its own, as    *)
(* parallel LabVIEW diagrams use them: chaos_crest_json_register and       *)
(* chaos_crest_json_push, each of them one http_post whose result they     *)
(* return.                                                                 *)
(*                                                                         *)
(* A handle has its own manager and connections, but s_exit_flag is one    *)
(* variable of the library, read and written without a lock: every access  *)
(* is a step.  What happens on a connection is CrestPost; here it is one   *)
(* decision of the server and one event.                                   *)
(***************************************************************************)
EXTENDS Integers, FiniteSets

CONSTANTS
  Threads,    \* one thread, and its handle, each
  MaxPosts,   \* bound: posts of a thread
  Codes       \* HTTP status codes the servers answer with

ConnectFailed == -1
Pending == -2
Undecided == 0
Decisions == Codes \cup {ConnectFailed}

ASSUME ThreadsAssumption == MaxPosts \in Nat /\ Codes \subseteq 100..599

Posts == 1..MaxPosts

VARIABLES
  flag,       \* s_exit_flag
  pc,         \* where each thread is
  n,          \* the posts each has begun: connection p belongs to post p
  open,       \* connections of each handle whose event is still to come
  decision,   \* what the server decided about each post
  buf,        \* buffer_rx: the post whose answer it holds, 0 if empty
  result,     \* what each call returned
  disturbed,  \* history: the post in progress began with a connection left of an
              \* earlier one, or another thread has been in a post meanwhile
  clean,      \* history: the posts that have returned undisturbed
  pairs       \* history: the buffer each post returned with

history == <<disturbed, clean, pairs>>
vars == <<flag, pc, n, open, decision, buf, result, history>>

Inside(t) == pc[t] # "idle"

Init ==
  /\ flag = 0
  /\ pc = [t \in Threads |-> "idle"] /\ n = [t \in Threads |-> 0]
  /\ open = [t \in Threads |-> {}]
  /\ decision = [t \in Threads |-> [p \in Posts |-> Undecided]]
  /\ buf = [t \in Threads |-> 0]
  /\ result = [t \in Threads |-> [p \in Posts |-> Pending]]
  /\ disturbed = [t \in Threads |-> FALSE] /\ clean = [t \in Threads |-> {}]
  /\ pairs = [t \in Threads |-> [p \in Posts |-> 0]]

\* The call, up to the assignment to s_exit_flag.
Enter(t) ==
  /\ pc[t] = "idle" /\ n[t] < MaxPosts
  /\ pc' = [pc EXCEPT ![t] = "reset"]
  /\ n' = [n EXCEPT ![t] = @ + 1]
  /\ disturbed' = [s \in Threads |->
       IF s = t THEN open[t] # {} \/ \E u \in Threads \ {t} : Inside(u)
                ELSE disturbed[s] \/ Inside(s)]
  /\ UNCHANGED <<flag, open, decision, buf, result, clean, pairs>>

\* Seeded fault: s_exit_flag is not reset.
BadZero == UNCHANGED flag

Zero == flag' = 0

\* The reset, and a connection with the request.
Reset(t) ==
  /\ pc[t] = "reset"
  /\ pc' = [pc EXCEPT ![t] = "test"]
  /\ Zero
  /\ buf' = [buf EXCEPT ![t] = 0]
  /\ open' = [open EXCEPT ![t] = @ \cup {n[t]}]
  /\ UNCHANGED <<n, decision, result, history>>

\* while (s_exit_flag == 0) mg_mgr_poll(...)
Test(t) ==
  /\ pc[t] = "test"
  /\ pc' = [pc EXCEPT ![t] = IF flag = 0 THEN "poll" ELSE "first"]
  /\ UNCHANGED <<flag, n, open, decision, buf, result, history>>

\* Seeded fault: the assignment that ev_handler has commented out.
BadFlagOf(d) == 1

\* Seeded fault: a failed connect is not reported.
BadFlagSilent(d) == IF d = ConnectFailed THEN flag ELSE d

\* What ev_handler assigns: the status of the reply, or -1.
FlagOf(d) == d

\* An event of one of the handle's connections, in its own thread: a failed
\* connect, or a reply, copied to the buffer of the post in progress.  It may
\* belong to an earlier post that has returned before it came.
Event(t, p) ==
  /\ pc[t] = "poll" /\ p \in open[t] /\ decision[t][p] # Undecided
  /\ flag' = FlagOf(decision[t][p])
  /\ buf' = [buf EXCEPT ![t] = IF decision[t][p] = ConnectFailed THEN @ ELSE p]
  /\ open' = [open EXCEPT ![t] = @ \ {p}]
  /\ UNCHANGED <<pc, n, decision, result, history>>

\* A poll handles all that select has reported.
Polled(t) ==
  /\ pc[t] = "poll" /\ \A p \in open[t] : decision[t][p] = Undecided
  /\ pc' = [pc EXCEPT ![t] = "test"]
  /\ UNCHANGED <<flag, n, open, decision, buf, result, history>>

ReturnWith(t, r) ==
  /\ pc' = [pc EXCEPT ![t] = "idle"]
  /\ result' = [result EXCEPT ![t][n[t]] = r]
  /\ pairs' = [pairs EXCEPT ![t][n[t]] = buf[t]]
  /\ clean' = [clean EXCEPT ![t] = IF disturbed[t] THEN @ ELSE @ \cup {n[t]}]
  /\ UNCHANGED <<flag, n, open, decision, buf, disturbed>>

\* ret = (s_exit_flag == 200) ? 0 : s_exit_flag: the flag is read again unless
\* it was 200, or the value of the first read is used, as the compiler likes.
First(t) ==
  /\ pc[t] = "first"
  /\ \/ ReturnWith(t, IF flag = 200 THEN 0 ELSE flag)
     \/ /\ flag # 200
        /\ pc' = [pc EXCEPT ![t] = "second"]
        /\ UNCHANGED <<flag, n, open, decision, buf, result, history>>

Second(t) == pc[t] = "second" /\ ReturnWith(t, flag)

Decide(t, p) ==
  /\ p \in open[t] /\ decision[t][p] = Undecided
  /\ \E d \in Decisions : decision' = [decision EXCEPT ![t][p] = d]
  /\ UNCHANGED <<flag, pc, n, open, buf, result, history>>

Terminated ==
  /\ \A t \in Threads : pc[t] = "idle" /\ n[t] = MaxPosts
  /\ UNCHANGED vars

Poll(t) == (\E p \in Posts : Event(t, p)) \/ Polled(t)

Inner(t) == Reset(t) \/ Test(t) \/ First(t) \/ Second(t)

Next ==
  \/ \E t \in Threads : Enter(t) \/ Inner(t) \/ Poll(t)
  \/ \E t \in Threads, p \in Posts : Decide(t, p)
  \/ Terminated

Spec == Init /\ [][Next]_vars

\* A thread inside a call goes on, and the servers decide.  Nothing makes a
\* thread begin a post.
FairSpec ==
  /\ Spec
  /\ \A t \in Threads :
       WF_vars(Inner(t) \/ Poll(t)) /\ \A p \in Posts : WF_vars(Decide(t, p))

-----------------------------------------------------------------------------
(* Properties.                                                             *)

TypeOK ==
  /\ flag \in {0} \cup Decisions
  /\ pc \in [Threads -> {"idle", "reset", "test", "poll", "first", "second"}]
  /\ n \in [Threads -> 0..MaxPosts]
  /\ open \in [Threads -> SUBSET Posts]
  /\ decision \in [Threads -> [Posts -> {Undecided} \cup Decisions]]
  /\ buf \in [Threads -> 0..MaxPosts]
  /\ result \in [Threads -> [Posts -> {Pending, 0} \cup Decisions]]
  /\ disturbed \in [Threads -> BOOLEAN] /\ clean \in [Threads -> SUBSET Posts]
  /\ pairs \in [Threads -> [Posts -> 0..MaxPosts]]

Outcome(d) == IF d = 200 THEN 0 ELSE d

\* A post that has the library to itself, and no connection of its handle left over
\* from an earlier one, returns the answer to it and its body, whatever was mixed up
\* before, between the posts or afterwards: of the flag nothing outlives a post.
OwnUnlessDisturbed ==
  \A t \in Threads : \A p \in clean[t] :
    /\ decision[t][p] # Undecided /\ result[t][p] = Outcome(decision[t][p])
    /\ pairs[t][p] = IF decision[t][p] = ConnectFailed THEN 0 ELSE p

\* However the accesses to the flag interleave, an error that is returned is one
\* that some server of the process has answered, or a connect that has failed.
NoThinAir ==
  \A t \in Threads, p \in Posts :
    result[t][p] \notin {Pending, 0} =>
      \E s \in Threads, q \in Posts : decision[s][q] = result[t][p]

\* Every post returns, though another thread may reset the flag between the event of
\* the post and the test of its loop: the post then polls on for an event that has
\* been, until one of the other thread's sets the flag again.  A thread that never
\* stopped posting could starve another one; here each makes MaxPosts posts.
EveryPostReturns == \A t \in Threads : Inside(t) ~> ~Inside(t)

\* A post that returns 0 has been accepted: false with two handles, where the status
\* may be that of the other thread's post.
SuccessMeansOwn ==
  \A t \in Threads, p \in Posts : result[t][p] = 0 => decision[t][p] = 200

\* The thread of a process that has one only, the case of the other models.
Only == CHOOSE t \in Threads : TRUE

RPC == INSTANCE PostRPC WITH
  phase <- IF Inside(Only) THEN "calling" ELSE "idle",
  cur <- n[Only],
  answer <- decision[Only],
  result <- result[Only]

\* Its posts keep what PostRPC promises, from the first to the last: nothing that a
\* post leaves in the flag reaches the next one.
OneImplementsRPC == RPC!Spec

-----------------------------------------------------------------------------
(* The inductive invariant behind them.                                    *)

Decided(d) == \E s \in Threads, q \in Posts : decision[s][q] = d

FlagInv == flag = 0 \/ Decided(flag)

\* A thread inside a post has begun one.
BegunInv == \A t \in Threads : Inside(t) => n[t] \in Posts

\* The answer to post p of thread t is where it belongs.
Answered(t, p, r, b) ==
  /\ decision[t][p] # Undecided /\ r = decision[t][p]
  /\ b = IF decision[t][p] = ConnectFailed THEN 0 ELSE p

\* A thread in an undisturbed post is alone; the flag is zero until the event of the
\* post, and then its answer; no connection is left over, during it or behind it.
AloneInv ==
  \A t \in Threads : ~disturbed[t] =>
    /\ Inside(t) => \A s \in Threads \ {t} : ~Inside(s)
    /\ pc[t] \in {"idle", "reset"} => open[t] = {}
    /\ pc[t] \in {"test", "poll"} =>
         \/ open[t] = {n[t]} /\ flag = 0 /\ buf[t] = 0
         \/ open[t] = {} /\ Answered(t, n[t], flag, buf[t])
    /\ pc[t] \in {"first", "second"} =>
         open[t] = {} /\ Answered(t, n[t], flag, buf[t])

\* An undisturbed thread reads the flag a second time only if it is an error.
SecondInv == \A t \in Threads : ~disturbed[t] /\ pc[t] = "second" => flag # 200

\* The post in progress has no result yet.
PendingInv ==
  \A t \in Threads, p \in Posts :
    p > n[t] \/ (Inside(t) /\ p = n[t]) => result[t][p] = Pending

ThreadsInv ==
  /\ TypeOK /\ FlagInv /\ BegunInv /\ AloneInv /\ SecondInv /\ PendingInv
  /\ OwnUnlessDisturbed /\ NoThinAir
=============================================================================
