---------------------------- MODULE CrestHandle ----------------------------
(***************************************************************************)
(* A handle of chaos_crest.c: its table of control units (CUs), the values *)
(* of their output attributes, the push and registration calls with their  *)
(* loops over the table, the sequence id and the statistics.               *)
(*                                                                         *)
(* The handle is used by one thread.  It reaches the server through        *)
(* http_post, which is taken here as what PostRPC promises of it; the      *)
(* server keeps, per CU, the last body it accepted.                        *)
(*                                                                         *)
(* Operators whose names start with Bad are seeded faults (see README.md). *)
(***************************************************************************)
EXTENDS Integers, Sequences, FiniteSets

CONSTANTS
  MaxCUs,      \* bound on the CUs added to the handle
  Kinds,       \* datasets a CU may have: [outs: number, ins: any inputs?]
  Data,        \* values an application writes to an attribute
  MaxPosts,    \* bound on the posts made through the handle
  Codes,       \* HTTP status codes the server answers with
  Times,       \* durations of a post, in ms
  Leftover,    \* signs an uninitialised int may have: subset of {-1, 0, 1}
  HeadLen,     \* characters of the body before the first attribute
  AttrLen,     \* characters of an attribute, name and value
  AllocSize    \* alloc_size of a scalar attribute

ASSUME HandleAssumption ==
  /\ MaxCUs \in Nat \ {0} /\ MaxPosts \in Nat
  /\ Kinds \subseteq [outs: Nat \ {0}, ins: BOOLEAN]
  /\ Codes \subseteq 100..599
  /\ Times \subseteq Nat
  /\ Leftover \subseteq {-1, 0, 1} /\ Leftover # {}
  /\ HeadLen \in Nat /\ AttrLen \in Nat /\ AllocSize \in Nat
  /\ Data \cap {"unset", "default"} = {}

UIDs == 1..MaxCUs
Values == Data \cup {"unset", "default"}

VARIABLES
  pc,       \* "idle", "send", "post", "back", "closed", "crashed"
  op,       \* the call in progress: see Ops
  ncus,     \* number of CUs in the table
  cus,      \* the table
  npush, totPush, maxPush, minPush,   \* as in the handle
  body,     \* what the current post carries
  store,    \* the last body the server accepted from each CU
  \* the transport
  phase, cur, answer, result,
  \* history
  acked,    \* acknowledged posts since npush was last reset
  last      \* what the last call returned

RPC == INSTANCE PostRPC

transport == <<phase, cur, answer, result>>
stats == <<npush, totPush, maxPush, minPush, acked>>
vars == <<pc, op, ncus, cus, stats, body, store, transport, last>>

BadId == -8
BadAttr == {-7, -9}   \* a wrong position, an unknown name
PostFailed == -9

Calls == {"push", "register"}

\* cu_t: data holds the texts of the output attributes (ds_t.data), nin the
\* sign of the number of inputs, ins whether the dataset really has inputs.
CU == [data: Seq(Values), nin: {-1, 0, 1}, ins: BOOLEAN]

NoCU == [data |-> <<>>, nin |-> 0, ins |-> FALSE]

\* uid is the caller's argument (0: all), u the CU being handled, part the
\* dataset sent (datasetType 0 or 1), acc the return values added up so far.
Ops == [call: Calls, uid: 0..MaxCUs, u: UIDs, part: {"out", "in"}, acc: Int]

Bodies == [ok: BOOLEAN, call: Calls, seq: Nat, vals: Seq(Values)]

NoBody == [ok |-> FALSE, call |-> "push", seq |-> 0, vals |-> <<>>]

-----------------------------------------------------------------------------
Init ==
  /\ pc = "idle"
  /\ op = [call |-> "push", uid |-> 0, u |-> 1, part |-> "out", acc |-> 0]
  /\ ncus = 0 /\ cus = [u \in UIDs |-> NoCU]
  /\ npush = 0 /\ totPush = 0 /\ maxPush = 0 /\ minPush = 0
  /\ body = NoBody
  /\ store = [u \in UIDs |-> NoBody]
  /\ acked = <<>>
  /\ last = [call |-> "none", uid |-> 0, ret |-> 0]
  /\ RPC!Init

Return(call, uid, ret) == last' = [call |-> call, uid |-> uid, ret |-> ret]

-----------------------------------------------------------------------------
(* Calls that touch the table only.                                        *)

\* chaos_crest_add_cu.  nin is assigned only if the dataset has inputs; the
\* record comes from realloc, so otherwise it keeps what was in memory.
AddCU(k) ==
  /\ pc = "idle" /\ ncus < MaxCUs
  /\ ncus' = ncus + 1
  /\ \E n \in (IF k.ins THEN {1} ELSE Leftover) :
       cus' = [cus EXCEPT ![ncus + 1] =
                [data |-> [a \in 1..k.outs |-> "unset"], nin |-> n, ins |-> k.ins]]
  /\ Return("add", ncus + 1, 0)
  /\ UNCHANGED <<pc, op, stats, body, store, transport>>

\* chaos_crest_update, by position; chaos_crest_update_by_name finds the
\* position first.
Update(u, a, v) ==
  /\ pc = "idle" /\ u <= ncus /\ a \in DOMAIN cus[u].data
  /\ cus' = [cus EXCEPT ![u].data = [@ EXCEPT ![a] = v]]
  /\ Return("update", u, 0)
  /\ UNCHANGED <<pc, op, ncus, stats, body, store, transport>>

\* A wrong uid, position or name is told and changes nothing.
UpdateFails(uid) ==
  /\ pc = "idle"
  /\ \E ret \in (IF uid \in 1..ncus THEN BadAttr ELSE {BadId}) : Return("update", uid, ret)
  /\ UNCHANGED <<pc, op, ncus, cus, stats, body, store, transport>>

\* chaos_crest_cu_cmd formats a command it does not send: the variable it
\* returns is assigned only in the build without mongoose.
CuCmd ==
  /\ pc = "idle"
  /\ \E ret \in {0, PostFailed} : Return("cmd", 0, ret)
  /\ UNCHANGED <<pc, op, ncus, cus, stats, body, store, transport>>

-----------------------------------------------------------------------------
(* chaos_crest_push and chaos_crest_register.                              *)

BadUid(call, uid) ==
  /\ pc = "idle" /\ uid > ncus
  /\ Return(call, uid, BadId)
  /\ UNCHANGED <<pc, op, ncus, cus, stats, body, store, transport>>

NothingToDo(call) ==
  /\ pc = "idle" /\ ncus = 0
  /\ Return(call, 0, 0)
  /\ UNCHANGED <<pc, op, ncus, cus, stats, body, store, transport>>

Begin(call, uid, part) ==
  /\ pc = "idle" /\ uid <= ncus /\ ncus > 0 /\ cur < MaxPosts
  /\ call = "register" => part = "out"
  /\ pc' = "send"
  /\ op' = [call |-> call, uid |-> uid, u |-> IF uid = 0 THEN 1 ELSE uid,
            part |-> part, acc |-> 0]
  /\ UNCHANGED <<ncus, cus, stats, body, store, transport, last>>

\* inds is NULL, but nin says there are inputs: the loops over them follow it.
Dangling(u) == cus[u].nin > 0 /\ ~cus[u].ins

\* Real inputs have no text and no alloc_size: they are written into a buffer of
\* size 0 with a negative bound, which the heap survives or not.
Crash ==
  /\ pc = "send" /\ op.part = "in" /\ cus[op.u].nin > 0
  /\ pc' = "crashed"
  /\ UNCHANGED <<op, ncus, cus, stats, body, store, transport, last>>

\* push_cu_int allocates the sum of the attributes' alloc_size, and puts the
\* header, the attributes and the commas between them into it.
Fits(n) == HeadLen + n * AttrLen + (n - 1) < n * AllocSize

\* The body built from the output values vals.  Input attributes have neither
\* text nor alloc_size: what is sent of them is no JSON document.
BuildBody(call, seq, vals, part) ==
  [ok |-> /\ part = "out"
          /\ Fits(Len(vals))
          /\ \A a \in DOMAIN vals : vals[a] # "unset",
   call |-> call, seq |-> seq, vals |-> vals]

\* A registration restarts the sequence id of the handle.
ResetSeq == npush' = 0 /\ acked' = <<>>

\* register_cu puts default values into the outputs first.
Defaults(u) == [cus[u] EXCEPT !.data = [a \in DOMAIN @ |-> "default"]]

\* push_cu_int up to http_post.
Send ==
  /\ pc = "send" /\ ~(op.part = "in" /\ Dangling(op.u))
  /\ RPC!Call
  /\ pc' = "post"
  /\ \/ /\ op.call = "push"
        /\ UNCHANGED <<cus, npush, acked>>
     \/ /\ op.call = "register"
        /\ ResetSeq
        /\ cus' = IF op.part = "out"
                    THEN [cus EXCEPT ![op.u] = Defaults(op.u)] ELSE cus
  /\ body' = BuildBody(op.call, npush', cus'[op.u].data, op.part)
  /\ UNCHANGED <<op, ncus, totPush, maxPush, minPush, store, last>>

\* The server decides the post.  It answers 200 to nothing but a body it has
\* accepted; an error may come before or after it accepted one.
Decide ==
  /\ pc = "post" /\ RPC!Decide
  /\ \/ /\ body.ok /\ answer'[cur] # RPC!ConnectFailed
        /\ store' = [store EXCEPT ![op.u] = body]
     \/ answer'[cur] # 200 /\ UNCHANGED store
  /\ UNCHANGED <<pc, op, ncus, cus, stats, body, last>>

\* push_cu_int after http_post returned 0, t milliseconds later.
Acknowledged(t) ==
  /\ npush' = npush + 1
  /\ totPush' = totPush + t
  /\ maxPush' = IF t > maxPush THEN t ELSE maxPush
  /\ minPush' = IF t < minPush /\ t > 0 THEN t ELSE minPush
  /\ acked' = Append(acked, [u |-> op.u, seq |-> body.seq])
  /\ op' = op

\* Seeded faults: the error is lost; a failed post counts as well.
BadFailedLost == UNCHANGED <<op, stats>>

BadFailedCounts ==
  /\ op' = [op EXCEPT !.acc = @ + PostFailed]
  /\ npush' = npush + 1
  /\ UNCHANGED <<totPush, maxPush, minPush, acked>>

Failed == op' = [op EXCEPT !.acc = @ + PostFailed] /\ UNCHANGED stats

PostReturns ==
  /\ pc = "post" /\ RPC!Return
  /\ pc' = "back"
  /\ \/ result'[cur] = 0 /\ \E t \in Times : Acknowledged(t)
     \/ result'[cur] # 0 /\ Failed
  /\ UNCHANGED <<ncus, cus, body, store, last>>

\* register_cu goes on to the inputs whatever the first post returned.
Inputs ==
  /\ pc = "back" /\ op.call = "register" /\ op.part = "out" /\ cus[op.u].nin # 0
  /\ pc' = "send"
  /\ op' = [op EXCEPT !.part = "in"]
  /\ UNCHANGED <<ncus, cus, stats, body, store, transport, last>>

CUDone == pc = "back" /\ ~(op.call = "register" /\ op.part = "out" /\ cus[op.u].nin # 0)

\* Seeded fault: the walk does not stop at an error.
BadMoreCUsOnError == op.uid = 0 /\ op.u < ncus

\* With uid 0 the table is walked up to the first error.
MoreCUs == op.acc = 0 /\ op.uid = 0 /\ op.u < ncus

NextCU ==
  /\ CUDone /\ MoreCUs
  /\ pc' = "send"
  /\ op' = [op EXCEPT !.u = @ + 1,
                      !.part = IF op.call = "register" THEN "out" ELSE @]
  /\ UNCHANGED <<ncus, cus, stats, body, store, transport, last>>

Finish ==
  /\ CUDone /\ ~MoreCUs
  /\ pc' = "idle"
  /\ Return(op.call, op.uid, op.acc)
  /\ UNCHANGED <<op, ncus, cus, stats, body, store, transport>>

\* chaos_crest_close frees the attributes of every CU, counted by nin.
Close ==
  /\ pc = "idle"
  /\ RPC!Close
  /\ pc' = IF \E u \in 1..ncus : Dangling(u) THEN "crashed" ELSE "closed"
  /\ Return("close", 0, 0)
  /\ UNCHANGED <<op, ncus, cus, stats, body, store>>

\* The handle is gone, or the bound on the posts is reached inside a call.
Terminated ==
  /\ pc \in {"closed", "crashed"} \/ (pc = "send" /\ cur = MaxPosts)
  /\ UNCHANGED vars

-----------------------------------------------------------------------------
Next ==
  \/ \E k \in Kinds : AddCU(k)
  \/ \E u \in UIDs : \E a \in DOMAIN cus[u].data : \E v \in Data : Update(u, a, v)
  \/ \E uid \in 0..MaxCUs : UpdateFails(uid)
  \/ CuCmd
  \/ \E call \in Calls, uid \in 0..MaxCUs : \/ BadUid(call, uid)
                                            \/ \E part \in {"out", "in"} : Begin(call, uid, part)
  \/ \E call \in Calls : NothingToDo(call)
  \/ Crash \/ Send \/ Decide \/ PostReturns \/ Inputs \/ NextCU \/ Finish
  \/ Close \/ Terminated

Spec == Init /\ [][Next]_vars

-----------------------------------------------------------------------------
(* Properties.                                                             *)

TypeOK ==
  /\ pc \in {"idle", "send", "post", "back", "closed", "crashed"}
  /\ op \in Ops
  /\ ncus \in 0..MaxCUs /\ cus \in [UIDs -> CU]
  /\ body \in Bodies /\ store \in [UIDs -> Bodies]
  /\ npush \in Nat /\ totPush \in Nat /\ maxPush \in Nat /\ minPush \in Nat
  /\ acked \in Seq([u: UIDs, seq: Nat])
  /\ last \in [call: Calls \cup {"none", "add", "update", "cmd", "close"},
               uid: 0..MaxCUs, ret: Int]

\* The CUs a call with argument uid is about.
Covered(uid) == IF uid = 0 THEN 1..ncus ELSE {uid}

Holds(u, call) == store[u].ok /\ store[u].call = call /\ store[u].vals = cus[u].data

\* When chaos_crest_push or chaos_crest_register has returned 0, the server
\* holds the present values of every CU the call was about, received with that
\* kind of call, however many posts it took.
SuccessMeansStored ==
  (pc = "idle" /\ last.call \in Calls /\ last.ret = 0) =>
    \A u \in Covered(last.uid) : Holds(u, last.call)

\* Sequence ids: the acknowledged posts since the last registration carry 0, 1,
\* 2, ... whatever failed in between, so no two of them carry the same one.
SeqCountsAcks ==
  /\ npush = Len(acked)
  /\ \A i \in DOMAIN acked : acked[i].seq = i - 1

\* A walk over the table that has come to CU u has stored every CU before u: a
\* failure leaves a prefix of the table published, and nothing in between.
PrefixStored ==
  (pc \in {"send", "post", "back"} /\ op.uid = 0) =>
    \A u \in 1..(op.u - 1) : Holds(u, op.call)

-----------------------------------------------------------------------------
(* What the header promises and the code does not do.                      *)

\* No call of the API, used as documented, follows a pointer nobody assigned.
NoCrash == pc # "crashed"

-----------------------------------------------------------------------------
(* The inductive invariant behind SuccessMeansStored and SeqCountsAcks.    *)

Busy == pc \in {"send", "post", "back"}

TransportInv ==
  /\ cur \in 0..MaxPosts
  /\ phase \in {"idle", "calling", "closed"}
  /\ answer \in [RPC!Posts -> Codes \cup {RPC!Undecided, RPC!ConnectFailed}]
  /\ result \in [RPC!Posts -> Int]
  /\ phase = "calling" => cur > 0
  /\ \A p \in RPC!Posts : p > cur => answer[p] = RPC!Undecided
  /\ pc = "post" <=> phase = "calling"

\* The CU in progress is in the table.
WalkInv ==
  Busy => /\ op.u <= ncus /\ op.uid <= ncus /\ op.acc <= 0
          /\ op.uid # 0 => op.u = op.uid
          /\ op.acc # 0 => pc = "back" \/ op.part = "in"

\* A post in flight carries the present values; it is answered 200 only when
\* the server holds them.  A CU handled without an error is stored.
FlightInv ==
  /\ pc = "post" =>
       /\ body = BuildBody(op.call, npush, cus[op.u].data, op.part)
       /\ answer[cur] = 200 => body.ok /\ store[op.u] = body
  /\ pc = "back" /\ op.acc = 0 => Holds(op.u, op.call)

HInv ==
  /\ TypeOK /\ TransportInv /\ WalkInv /\ FlightInv
  /\ PrefixStored /\ SuccessMeansStored /\ SeqCountsAcks
=============================================================================
