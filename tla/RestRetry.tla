----------------------------- MODULE RestRetry -----------------------------
(***************************************************************************)
(* The .NET client RestAPI: every command is one HTTP GET, repeated until  *)
(* an answer comes that is not empty.  A request whose answer did not come *)
(* in time may still be executed, even during a later call, and a repeated *)
(* request may be executed twice.                                          *)
(*                                                                         *)
(* The server keeps snapshots and the paged queries that are open.         *)
(***************************************************************************)
EXTENDS Integers, FiniteSets

CONSTANTS
  Retry,      \* this.retry: five
  Uids,       \* ids of paged queries, each given once
  Refused,    \* ids the server answers for but does not clear
  Snaps,      \* names of snapshots
  MaxCalls,   \* bound: calls of the program
  MaxStrays   \* bound: different requests given up that may still be executed

ASSUME RestAssumption ==
  /\ Retry \in Nat \ {0} /\ MaxCalls \in Nat /\ MaxStrays \in Nat
  /\ Refused \subseteq Uids

VARIABLES
  pc,       \* "idle", "next": before GetHtmlAnswer, "wait": in it
  call,     \* the command that runs, or ran last
  query,    \* the request of the running loop
  number,   \* how many commands have been called
  count,    \* tries of the running loop that failed
  todo,     \* queryClean: ids still to clear, the current one included
  reply,    \* what the server has sent for the request in progress
  pending,  \* the request in progress has not been executed
  ret,      \* what the last call returned
  strays,   \* how many of each request, given up by the client, are under way
  open,     \* the server's open queries
  used,     \* the ids it has given
  snaps,    \* its snapshots
  listed,   \* history: the ids the call of queryClean was told
  failed,   \* history: the call has had a try without an answer
  done      \* history: the calls the server has carried out

server == <<strays, open, used, snaps, done>>
restVars == <<pc, call, query, number, count, todo, reply, pending, ret, listed, failed, server>>

NoArg == "-"
NoId == "no id"   \* Split makes one empty id of an empty list

Texts == [op: {"command", "queryhst"}, arg: {NoArg}]
Snapshots == [op: {"create", "delete", "restore"}, arg: Snaps]
Clean == [op |-> "queryClean", arg |-> NoArg]
List == [op |-> "list", arg |-> NoArg]
Clears == [op: {"clear"}, arg: Uids \cup {NoId}]

\* Requests under way, each with the number of its call.
RestRequests == (Texts \cup Snapshots \cup Clears \cup {List}) \X (1..MaxCalls)

\* Answers: none yet, an empty list, some other text, or the ids of the open queries.
NoReply == [text |-> "none", ids |-> {}]
EmptyList == [text |-> "[]", ids |-> {}]
Other == [text |-> "other", ids |-> {}]

RestInit ==
  /\ pc = "idle" /\ call = Clean /\ query = List /\ number = 0 /\ count = 0
  /\ todo = {} /\ reply = NoReply /\ pending = FALSE /\ ret = "none"
  /\ strays = [r \in RestRequests |-> 0]
  /\ open = {} /\ used = {} /\ snaps = {}
  /\ listed = {} /\ failed = FALSE /\ done = {}

-----------------------------------------------------------------------------
(* The client.                                                             *)

EndCall(value) == pc' = "idle" /\ ret' = value /\ count' = 0 /\ todo' = {}

\* A loop of tries begins.
TryLoop(q) == pc' = "next" /\ query' = q /\ count' = 0

Begin(c) ==
  /\ pc = "idle" /\ number < MaxCalls
  /\ call' = c /\ number' = number + 1
  /\ TryLoop(IF c = Clean THEN List ELSE c)
  /\ ret' = "none" /\ listed' = {} /\ failed' = FALSE
  /\ UNCHANGED <<todo, reply, pending, server>>

\* A variable is set to no value: no request is made.
SetNothing ==
  /\ pc = "idle" /\ number < MaxCalls
  /\ call' \in Texts /\ number' = number + 1
  /\ EndCall("empty") /\ listed' = {} /\ failed' = FALSE
  /\ UNCHANGED <<query, reply, pending, server>>

\* The next try.
Send ==
  /\ pc = "next" /\ count < Retry
  /\ pc' = "wait" /\ pending' = TRUE
  /\ UNCHANGED <<call, query, number, count, todo, reply, ret, listed, failed, server>>

\* Seeded fault: queryClean does not look whether the tries for an id are used up.
BadFailure ==
  IF query.op = "clear" THEN "true"
  ELSE IF call \in Texts THEN "empty" ELSE "false"

Failure == IF call \in Texts THEN "empty" ELSE "false"

\* No tries are left.
GiveUp ==
  /\ pc = "next" /\ count = Retry
  /\ EndCall(Failure)
  /\ UNCHANGED <<call, query, number, reply, pending, listed, failed, server>>

\* Seeded fault: a failed try is not counted.
BadTried == pc' = "next" /\ UNCHANGED count

Tried == pc' = "next" /\ count' = count + 1

\* GetHtmlAnswer gives nothing: the connect, the server or the first read failed,
\* the body was empty, or the timeout passed.  The request may be under way.
Nothing ==
  /\ pc = "wait"
  /\ Tried /\ pending' = FALSE /\ reply' = NoReply /\ failed' = TRUE
  /\ \/ UNCHANGED strays
     \/ /\ pending /\ Cardinality({r \in RestRequests : strays[r] > 0}) < MaxStrays
        /\ strays[<<query, number>>] = 0
        /\ strays' = [strays EXCEPT ![<<query, number>>] = 1]
  /\ UNCHANGED <<call, query, number, todo, ret, listed, open, used, snaps, done>>

\* An answer has come.
Arrived ==
  /\ pc = "wait" /\ reply # NoReply
  /\ reply' = NoReply
  /\ UNCHANGED <<call, number, pending, failed, server>>

\* It breaks off behind its first part; that exception is the caller's.
Torn == Arrived /\ EndCall("thrown") /\ UNCHANGED <<query, listed>>

\* Seeded fault: any answer to a snapshot command is a success.
BadSuccess == IF call \in Texts THEN "answer" ELSE "true"

\* The text itself, or for a snapshot whether it is the empty list; any other text
\* is a failure there, and no reason to try again.
Success ==
  IF call \in Texts THEN "answer" ELSE IF reply = EmptyList THEN "true" ELSE "false"

Answered ==
  /\ Arrived /\ call # Clean
  /\ EndCall(Success) /\ UNCHANGED <<query, listed>>

\* queryClean: a loop of tries for one of the ids.
ClearOne(ids) ==
  todo' = ids /\ \E id \in ids : TryLoop([op |-> "clear", arg |-> id])

Listed ==
  /\ Arrived /\ query = List
  /\ listed' = reply.ids
  /\ ClearOne(IF reply.ids = {} THEN {NoId} ELSE reply.ids)
  /\ UNCHANGED ret

\* Any answer will do for an id.
Cleared ==
  /\ Arrived /\ query.op = "clear"
  /\ \/ todo = {query.arg} /\ EndCall("true") /\ UNCHANGED query
     \/ todo # {query.arg} /\ ClearOne(todo \ {query.arg}) /\ UNCHANGED ret
  /\ UNCHANGED listed

-----------------------------------------------------------------------------
(* The server.                                                             *)

Done(r, really) == done' = IF really THEN done \cup {r[2]} ELSE done

\* What a request makes of the server.
Effect(r) ==
  LET q == r[1]
  IN \/ q.op \in {"command", "list"}
        /\ Done(r, q # List) /\ UNCHANGED <<open, used, snaps>>
     \/ q.op = "queryhst" /\ Done(r, TRUE) /\ UNCHANGED snaps
        /\ \E u \in Uids \ used : used' = used \cup {u} /\ open' = open \cup {u}
     \/ q.op = "clear"
        /\ open' = open \ ({q.arg} \ Refused) /\ UNCHANGED <<used, snaps, done>>
     \/ q.op = "create" /\ snaps' = snaps \cup {q.arg}
        /\ Done(r, q.arg \notin snaps) /\ UNCHANGED <<open, used>>
     \/ q.op = "delete" /\ snaps' = snaps \ {q.arg}
        /\ Done(r, q.arg \in snaps) /\ UNCHANGED <<open, used>>
     \/ q.op = "restore" /\ Done(r, q.arg \in snaps) /\ UNCHANGED <<open, used, snaps>>

\* What it answers.
ServerReply(q) ==
  CASE q = List -> [text |-> "ids", ids |-> open]
    [] q.op = "create" /\ q.arg \notin snaps -> EmptyList
    [] q.op \in {"delete", "restore"} /\ q.arg \in snaps -> EmptyList
    [] OTHER -> Other

Execute ==
  /\ pc = "wait" /\ pending
  /\ Effect(<<query, number>>) /\ reply' = ServerReply(query) /\ pending' = FALSE
  /\ UNCHANGED <<pc, call, query, number, count, todo, ret, strays, listed, failed>>

\* A request that was given up.
ExecuteLate(r) ==
  /\ strays[r] > 0
  /\ Effect(r)
  /\ strays' = [strays EXCEPT ![r] = @ - 1]
  /\ UNCHANGED <<pc, call, query, number, count, todo, reply, pending, ret, listed, failed>>

RestClient == Send \/ GiveUp \/ Nothing \/ Torn \/ Answered \/ Listed \/ Cleared

RestTerminated == pc = "idle" /\ number = MaxCalls /\ UNCHANGED restVars

RestNext ==
  \/ \E c \in Texts \cup Snapshots \cup {Clean} : Begin(c)
  \/ SetNothing \/ RestClient
  \/ Execute \/ \E r \in RestRequests : ExecuteLate(r)
  \/ RestTerminated

RestSpec == RestInit /\ [][RestNext]_restVars

\* The timeout ends every wait; the server may do nothing.
RestFairSpec == RestSpec /\ WF_restVars(RestClient)

-----------------------------------------------------------------------------
(* Properties.                                                             *)

\* queryClean that returns true has had an answer for every id it was told: what
\* is still open of them, the server refused.  Queries opened meanwhile, by a
\* request that was given up, are not among them.
CleanMeansCleared ==
  pc = "idle" /\ call = Clean /\ ret = "true" => listed \cap open \subseteq Refused

\* A text, or a true, comes only from a command the server has carried out for
\* this call, never from one of an earlier call that was late.  Where every try
\* was answered the converse holds too; after a lost answer the repeated snapshot
\* finds the work done and reports a failure.
SuccessMeansDone ==
  pc = "idle" /\ call # Clean =>
    /\ ret \in {"answer", "true"} => number \in done
    /\ ret \in {"empty", "false"} /\ number \in done => failed

\* Every call returns, whatever the server does.
CallReturns == pc # "idle" ~> pc = "idle"

-----------------------------------------------------------------------------
(* The inductive invariant behind CleanMeansCleared and SuccessMeansDone.  *)

RestTypes ==
  /\ pc \in {"idle", "next", "wait"} /\ pending \in BOOLEAN /\ failed \in BOOLEAN
  /\ call \in Texts \cup Snapshots \cup {Clean}
  /\ query \in Texts \cup Snapshots \cup Clears \cup {List}
  /\ number \in 0..MaxCalls /\ count \in 0..Retry /\ todo \subseteq Uids \cup {NoId}
  /\ reply \in {NoReply, EmptyList, Other} \cup [text: {"ids"}, ids: SUBSET Uids]
  /\ strays \in [RestRequests -> Nat]
  /\ open \subseteq used /\ used \subseteq Uids

\* A loop runs for the request of its call, or for one of those of queryClean; a
\* reply is to the request in progress, and a try that failed is remembered.
LoopInv ==
  /\ pc # "idle" => /\ number > 0
                     /\ query \in IF call = Clean THEN Clears \cup {List} ELSE {call}
  /\ pending => pc = "wait" /\ reply = NoReply
  /\ reply # NoReply => pc = "wait"
  /\ count > 0 => failed
  /\ pc = "wait" => count < Retry

\* The ids told are never given again; all but those still to do are cleared, and
\* with its answer the current one is.
CleanInv ==
  /\ listed \subseteq used /\ reply.ids \subseteq used
  /\ pc # "idle" /\ call = Clean /\ query # List =>
       listed \cap open \subseteq
         Refused \cup (IF reply = NoReply THEN todo ELSE todo \ {query.arg})

\* A request under way belongs to an earlier call, or to this one if a try of it
\* has failed; a good answer means done, and done without one means a failed try.
DoneInv ==
  /\ done \subseteq 1..number
  /\ \A r \in RestRequests : strays[r] > 0 => r[2] < number \/ (r[2] = number /\ failed)
  /\ pc # "idle" /\ call # Clean =>
       LET good == reply # NoReply /\ Success \in {"answer", "true"}
       IN  (good => number \in done) /\ (number \in done => good \/ failed)

RestInv ==
  RestTypes /\ LoopInv /\ CleanInv /\ DoneInv /\ CleanMeansCleared /\ SuccessMeansDone
=============================================================================
