------------------------- MODULE CrestHandle_proofs -------------------------
(***************************************************************************)
(* What a successful push or registration of CrestHandle guarantees, for   *)
(* any table of CUs, any number of posts and any server that answers 200   *)
(* only to what it has stored.  HInv is the inductive invariant: the body  *)
(* in flight carries the present values (FlightInv), and a walk over the   *)
(* table leaves stored CUs behind (PrefixStored).                          *)
(***************************************************************************)
EXTENDS CrestHandle, SequenceTheorems, TLAPS

LEMMA Bounds ==
  /\ MaxCUs \in Nat \ {0} /\ MaxPosts \in Nat
  /\ HeadLen \in Nat /\ AttrLen \in Nat /\ AllocSize \in Nat
  /\ Times \subseteq Nat /\ Leftover \subseteq {-1, 0, 1}
  /\ \A c \in Codes : c \in Nat /\ c # 0
  /\ \A k \in Kinds : k.outs \in Nat /\ k.outs > 0 /\ k.ins \in BOOLEAN
  BY HandleAssumption DEF HandleAssumption

LEMMA InitHInv == Init => HInv
<1>. SUFFICES ASSUME Init PROVE HInv
  OBVIOUS
<1>1. NoCU \in CU /\ NoBody \in Bodies
  BY DEF NoCU, CU, NoBody, Bodies, Calls, Values
<1>2. TypeOK
  BY <1>1, Bounds DEF Init, TypeOK, Ops, Calls, UIDs
<1>3. TransportInv
  BY Bounds DEF Init, TransportInv, RPC!Init, RPC!Undecided, RPC!Pending
<1>. QED BY <1>2, <1>3 DEF Init, HInv, WalkInv, Busy, FlightInv, PrefixStored,
            SuccessMeansStored, SeqCountsAcks, Calls

-----------------------------------------------------------------------------
(* Steps between two calls.                                                *)

\* A step that leaves the handle idle and its statistics alone.
LEMMA IdleStep ==
  ASSUME HInv, pc = "idle", pc' = "idle", UNCHANGED <<op, stats, body, store, transport>>,
         TypeOK', SuccessMeansStored'
  PROVE  HInv'
  BY DEF HInv, TransportInv, WalkInv, Busy, FlightInv, PrefixStored, SeqCountsAcks,
         stats, transport

LEMMA AddCUInv == ASSUME HInv, NEW k \in Kinds, AddCU(k) PROVE HInv'
<1>0. TypeOK /\ ncus + 1 \in UIDs /\ ncus \in Nat
  BY Bounds DEF HInv, TypeOK, AddCU, UIDs
<1>1. PICK n \in {-1, 0, 1} :
        cus' = [cus EXCEPT ![ncus + 1] =
                 [data |-> [a \in 1..k.outs |-> "unset"], nin |-> n, ins |-> k.ins]]
  BY Bounds DEF AddCU
<1>2. [data |-> [a \in 1..k.outs |-> "unset"], nin |-> n, ins |-> k.ins] \in CU
  <2>1. k.outs \in Nat /\ k.ins \in BOOLEAN
    BY Bounds
  <2>2. [a \in 1..k.outs |-> "unset"] \in Seq(Values)
    BY <2>1 DEF Values
  <2>. QED BY <2>1, <2>2 DEF CU
<1>3. TypeOK'
  BY <1>0, <1>1, <1>2, Bounds DEF AddCU, Return, TypeOK, stats, UIDs
<1>4. SuccessMeansStored'
  BY DEF AddCU, Return, SuccessMeansStored, Calls
<1>. QED BY <1>3, <1>4, IdleStep DEF AddCU

LEMMA UpdateInv ==
  ASSUME HInv, NEW u \in UIDs, NEW a \in DOMAIN cus[u].data, NEW v \in Data, Update(u, a, v)
  PROVE  HInv'
<1>0. TypeOK /\ cus \in [UIDs -> CU] /\ cus[u].data \in Seq(Values)
  BY DEF HInv, TypeOK, CU
<1>1. [cus[u].data EXCEPT ![a] = v] \in Seq(Values)
  BY <1>0 DEF Values
<1>2. TypeOK'
  <2>1. cus' \in [UIDs -> CU]
    <3>1. cus' = [cus EXCEPT ![u].data = [cus[u].data EXCEPT ![a] = v]]
      BY DEF Update
    <3>2. [cus[u] EXCEPT !.data = [cus[u].data EXCEPT ![a] = v]] \in CU
      BY <1>0, <1>1 DEF CU
    <3>. QED BY <1>0, <3>1, <3>2
  <2>2. last' = [call |-> "update", uid |-> u, ret |-> 0]
    BY DEF Update, Return
  <2>3. UNCHANGED <<pc, op, ncus, stats, body, store, acked>>
    BY DEF Update, stats
  <2>4. last' \in [call: Calls \cup {"none", "add", "update", "cmd", "close"},
                   uid: 0..MaxCUs, ret: Int]
    <3>1. u \in 0..MaxCUs
      BY Bounds DEF UIDs
    <3>. QED BY <2>2, <3>1
  <2>. QED BY <1>0, <2>1, <2>3, <2>4 DEF TypeOK, stats
<1>3. SuccessMeansStored'
  BY DEF Update, Return, SuccessMeansStored, Calls
<1>. QED BY <1>2, <1>3, IdleStep DEF Update

LEMMA QuickCallInv ==
  ASSUME HInv,
         \/ CuCmd
         \/ \E uid \in 0..MaxCUs : UpdateFails(uid)
         \/ \E call \in Calls, uid \in 0..MaxCUs : BadUid(call, uid)
         \/ \E call \in Calls : NothingToDo(call)
  PROVE  HInv'
<1>1. /\ pc = "idle" /\ UNCHANGED <<pc, op, ncus, cus, stats, body, store, transport>>
      /\ \/ last'.call \in {"cmd", "update"} \/ last'.ret = BadId
         \/ ncus = 0 /\ last'.uid = 0
      /\ last' \in [call: Calls \cup {"none", "add", "update", "cmd", "close"},
                    uid: 0..MaxCUs, ret: Int]
  BY Bounds DEF CuCmd, UpdateFails, BadAttr, BadUid, NothingToDo, Return, PostFailed, BadId, HInv, TypeOK
<1>2. TypeOK'
  BY <1>1 DEF HInv, TypeOK, stats
<1>3. SuccessMeansStored'
  BY <1>1 DEF SuccessMeansStored, Calls, BadId, Covered
<1>. QED BY <1>1, <1>2, <1>3, IdleStep

LEMMA BeginInv ==
  ASSUME HInv, NEW call \in Calls, NEW uid \in 0..MaxCUs, NEW part \in {"out", "in"},
         Begin(call, uid, part)
  PROVE  HInv'
<1>0. TypeOK /\ ncus \in 1..MaxCUs
  BY Bounds DEF HInv, TypeOK, Begin
<1>1. op' \in Ops
  BY <1>0, Bounds DEF Begin, Ops, UIDs
<1>2. TypeOK'
  BY <1>0, <1>1 DEF Begin, TypeOK, stats
<1>3. TransportInv' /\ SeqCountsAcks'
  BY DEF HInv, Begin, TransportInv, SeqCountsAcks, stats, transport
<1>4. WalkInv' /\ PrefixStored'
  BY <1>0, Bounds DEF Begin, WalkInv, PrefixStored, Busy
<1>5. FlightInv' /\ SuccessMeansStored'
  BY DEF Begin, FlightInv, SuccessMeansStored
<1>. QED BY <1>2, <1>3, <1>4, <1>5 DEF HInv

-----------------------------------------------------------------------------
(* Steps of a call.                                                        *)

LEMMA DefaultsType ==
  ASSUME TypeOK, NEW u \in UIDs PROVE Defaults(u) \in CU
<1>1. cus[u] \in CU /\ Len(cus[u].data) \in Nat
  BY DEF TypeOK, CU
<1>2. [a \in DOMAIN cus[u].data |-> "default"] \in Seq(Values)
  BY <1>1 DEF CU, Values
<1>. QED BY <1>1, <1>2 DEF Defaults, CU

LEMMA BuildBodyType ==
  ASSUME NEW call \in Calls, NEW seq \in Nat, NEW vals \in Seq(Values), NEW part
  PROVE  BuildBody(call, seq, vals, part) \in Bodies
<1>1. (/\ part = "out" /\ Fits(Len(vals))
       /\ \A a \in DOMAIN vals : vals[a] # "unset") \in BOOLEAN
  OBVIOUS
<1>. QED BY <1>1 DEF BuildBody, Bodies

LEMMA SendInv == ASSUME HInv, Send PROVE HInv'
<1>0. /\ TypeOK /\ TransportInv /\ WalkInv /\ pc = "send" /\ pc' = "post" /\ op' = op
      /\ op.u \in UIDs /\ op.call \in Calls
      /\ UNCHANGED <<ncus, totPush, maxPush, minPush, store, last>>
  BY DEF HInv, Send, TypeOK, Ops
<1>1. cus' \in [UIDs -> CU] /\ \A v \in UIDs : v # op.u => cus'[v] = cus[v]
  <2>1. cus' = cus \/ cus' = [cus EXCEPT ![op.u] = Defaults(op.u)]
    BY DEF Send
  <2>2. cus \in [UIDs -> CU]
    BY <1>0 DEF TypeOK
  <2>. QED BY <1>0, <2>1, <2>2, DefaultsType
<1>2. /\ \/ npush' = npush /\ acked' = acked
         \/ npush' = 0 /\ acked' = <<>>
      /\ npush' \in Nat /\ acked' \in Seq([u: UIDs, seq: Nat])
  <2>1. \/ npush' = npush /\ acked' = acked
        \/ npush' = 0 /\ acked' = <<>>
    BY DEF Send, ResetSeq
  <2>2. npush \in Nat /\ acked \in Seq([u: UIDs, seq: Nat])
    BY <1>0 DEF TypeOK
  <2>3. 0 \in Nat /\ <<>> \in Seq([u: UIDs, seq: Nat])
    OBVIOUS
  <2>4. CASE npush' = npush /\ acked' = acked
    BY <2>2, <2>4, Zenon
  <2>5. CASE npush' = 0 /\ acked' = <<>>
    BY <2>3, <2>5, Zenon
  <2>. QED BY <2>1, <2>4, <2>5, Zenon
<1>3. body' = BuildBody(op.call, npush', cus'[op.u].data, op.part) /\ body' \in Bodies
  <2>1. cus'[op.u].data \in Seq(Values)
    BY <1>0, <1>1 DEF CU
  <2>. QED BY <1>0, <1>2, <2>1, BuildBodyType DEF Send
<1>4. TypeOK'
  BY <1>0, <1>1, <1>2, <1>3 DEF TypeOK
<1>5. /\ phase = "idle" /\ phase' = "calling" /\ cur' = cur + 1 /\ cur' \in 1..MaxPosts
      /\ answer' = answer /\ result' = result
  BY <1>0, Bounds DEF Send, RPC!Call, TransportInv
<1>6. TransportInv'
  BY <1>0, <1>5, Bounds DEF TransportInv, RPC!Posts
<1>7. WalkInv'
  BY <1>0 DEF WalkInv, Busy
<1>8. SeqCountsAcks' 
  BY <1>2 DEF HInv, SeqCountsAcks
<1>9. PrefixStored'
  <2>. SUFFICES ASSUME op.uid = 0, NEW v \in 1..(op.u - 1) PROVE Holds(v, op.call)'
    BY <1>0 DEF PrefixStored
  <2>1. Holds(v, op.call) /\ v \in UIDs /\ v # op.u
    BY <1>0, Bounds DEF HInv, PrefixStored, UIDs
  <2>. QED BY <1>0, <1>1, <2>1 DEF Holds
<1>10. SuccessMeansStored'
  BY <1>0 DEF SuccessMeansStored
<1>11. FlightInv'
  <2>1. answer'[cur'] = 0
    BY <1>0, <1>5 DEF TransportInv, RPC!Posts, RPC!Undecided
  <2>. QED BY <1>0, <1>3, <2>1 DEF FlightInv
<1>. QED BY <1>4, <1>6, <1>7, <1>8, <1>9, <1>10, <1>11 DEF HInv

LEMMA DecideInv == ASSUME HInv, Decide PROVE HInv'
<1>0. /\ TypeOK /\ TransportInv /\ WalkInv /\ FlightInv /\ pc = "post" /\ pc' = "post"
      /\ op.u \in UIDs /\ body \in Bodies
      /\ UNCHANGED <<op, ncus, cus, npush, acked, totPush, maxPush, minPush,
                     body, last>>
  BY DEF HInv, Decide, TypeOK, Ops, stats
<1>1. /\ store' \in [UIDs -> Bodies]
      /\ \A v \in UIDs : v # op.u => store'[v] = store[v]
      /\ answer'[cur] = 200 => body.ok /\ store'[op.u] = body
  BY <1>0 DEF Decide, TypeOK
<1>2. TypeOK'
  BY <1>0, <1>1 DEF TypeOK
<1>3. /\ phase = "calling" /\ phase' = "calling" /\ cur' = cur /\ result' = result
      /\ \E a \in Codes \cup {RPC!ConnectFailed} : answer' = [answer EXCEPT ![cur] = a]
  BY DEF Decide, RPC!Decide
<1>4. TransportInv'
  BY <1>0, <1>3, Bounds DEF TransportInv, RPC!Posts
<1>5. WalkInv' /\ SuccessMeansStored'
  BY <1>0 DEF WalkInv, Busy, SuccessMeansStored
<1>6. SeqCountsAcks'
  BY <1>0 DEF HInv, SeqCountsAcks
<1>7. FlightInv'
  BY <1>0, <1>1, <1>3 DEF FlightInv
<1>8. PrefixStored'
  <2>. SUFFICES ASSUME op.uid = 0, NEW v \in 1..(op.u - 1) PROVE Holds(v, op.call)'
    BY <1>0 DEF PrefixStored
  <2>1. Holds(v, op.call) /\ v \in UIDs /\ v # op.u
    BY <1>0, Bounds DEF HInv, PrefixStored, UIDs
  <2>. QED BY <1>0, <1>1, <2>1 DEF Holds
<1>. QED BY <1>2, <1>4, <1>5, <1>6, <1>7, <1>8 DEF HInv

\* The transport after http_post has returned.
LEMMA ReturnTransport ==
  ASSUME TransportInv, pc = "post", pc' = "back", RPC!Return
  PROVE  /\ TransportInv'
         /\ cur \in RPC!Posts
         /\ answer' = answer /\ cur' = cur
         /\ result'[cur] = 0 => answer[cur] = 200
<1>1. cur \in RPC!Posts /\ answer[cur] \in Int /\ answer[cur] # 0
  BY Bounds DEF TransportInv, RPC!Return, RPC!Posts, RPC!Undecided, RPC!ConnectFailed
<1>2. result' = [result EXCEPT ![cur] = IF answer[cur] = 200 THEN 0 ELSE answer[cur]]
  BY DEF RPC!Return, RPC!Outcome
<1>3. result' \in [RPC!Posts -> Int] /\ (result'[cur] = 0 => answer[cur] = 200)
  BY <1>1, <1>2 DEF TransportInv
<1>. QED BY <1>1, <1>3 DEF TransportInv, RPC!Return

LEMMA PostReturnsInv == ASSUME HInv, PostReturns PROVE HInv'
<1>0. /\ TypeOK /\ TransportInv /\ WalkInv /\ FlightInv /\ PrefixStored /\ SeqCountsAcks
      /\ pc = "post" /\ pc' = "back"
      /\ op \in Ops /\ op.u \in UIDs /\ op.acc \in Int /\ op.acc <= 0
      /\ UNCHANGED <<ncus, cus, body, store, last>>
  BY DEF HInv, PostReturns, TypeOK, Ops, WalkInv, Busy
<1>1. /\ TransportInv' /\ (result'[cur] = 0 => answer[cur] = 200)
  BY <1>0, ReturnTransport DEF PostReturns
<1>2. SuccessMeansStored'
  BY <1>0 DEF SuccessMeansStored
<1>3. CASE result'[cur] = 0 /\ \E t \in Times : Acknowledged(t)
  <2>1. PICK t \in Nat : t \in Times /\ Acknowledged(t)
    BY <1>3, Bounds
  <2>2. op' = op /\ body.ok /\ store[op.u] = body
        /\ body = BuildBody(op.call, npush, cus[op.u].data, op.part)
    BY <1>0, <1>1, <1>3, <2>1 DEF FlightInv, Acknowledged
  <2>3. Holds(op.u, op.call) /\ op.part = "out" /\ body.seq = npush
    BY <2>2 DEF Holds, BuildBody
  <2>4. FlightInv'
    BY <1>0, <2>2, <2>3 DEF FlightInv, Holds
  <2>5. WalkInv' /\ PrefixStored'
    BY <1>0, <2>2 DEF WalkInv, Busy, PrefixStored, Holds
  <2>6. acked' = Append(acked, [u |-> op.u, seq |-> npush]) /\ npush' = npush + 1
    BY <2>1, <2>3 DEF Acknowledged
  <2>7. acked \in Seq([u: UIDs, seq: Nat]) /\ npush \in Nat
        /\ [u |-> op.u, seq |-> npush] \in [u: UIDs, seq: Nat]
    BY <1>0 DEF TypeOK
  <2>8. SeqCountsAcks'
    <3>1. Len(acked') = Len(acked) + 1
      BY <2>6, <2>7
    <3>2. \A i \in DOMAIN acked' : acked'[i].seq = i - 1
      <4>. TAKE i \in DOMAIN acked'
      <4>1. CASE i = Len(acked) + 1
        BY <1>0, <2>6, <2>7, <4>1 DEF SeqCountsAcks
      <4>2. CASE i # Len(acked) + 1
        <5>1. i \in DOMAIN acked /\ acked'[i] = acked[i]
          BY <2>6, <2>7, <4>2
        <5>. QED BY <1>0, <5>1 DEF SeqCountsAcks
      <4>. QED BY <4>1, <4>2
    <3>. QED BY <1>0, <2>6, <3>1, <3>2 DEF SeqCountsAcks
  <2>9. TypeOK'
    <3>1. acked' \in Seq([u: UIDs, seq: Nat]) /\ npush' \in Nat
      BY <2>6, <2>7
    <3>2. totPush' \in Nat /\ maxPush' \in Nat /\ minPush' \in Nat
      BY <1>0, <2>1 DEF Acknowledged, TypeOK
    <3>. QED BY <1>0, <2>2, <3>1, <3>2 DEF TypeOK
  <2>. QED BY <1>1, <1>2, <2>4, <2>5, <2>8, <2>9 DEF HInv
<1>4. CASE result'[cur] # 0 /\ Failed
  <2>1. op' = [op EXCEPT !.acc = op.acc - 9] /\ UNCHANGED stats
    BY <1>0, <1>4 DEF Failed, PostFailed
  <2>2. /\ op' \in Ops /\ op'.acc = op.acc - 9 /\ op'.u = op.u /\ op'.uid = op.uid
        /\ op'.call = op.call /\ op'.part = op.part
    BY <1>0, <2>1 DEF Ops
  <2>3. TypeOK'
    BY <1>0, <2>1, <2>2 DEF TypeOK, stats
  <2>4. WalkInv' /\ FlightInv'
    BY <1>0, <2>2 DEF WalkInv, Busy, FlightInv
  <2>5. PrefixStored' /\ SeqCountsAcks'
    BY <1>0, <2>1, <2>2 DEF PrefixStored, Holds, SeqCountsAcks, stats
  <2>. QED BY <1>1, <1>2, <2>3, <2>4, <2>5 DEF HInv
<1>. QED BY <1>3, <1>4 DEF PostReturns

\* Steps from one post of a call to the next, and the end of a call.
LEMMA InputsInv == ASSUME HInv, Inputs PROVE HInv'
<1>0. /\ TypeOK /\ WalkInv /\ PrefixStored /\ SeqCountsAcks /\ TransportInv
      /\ pc = "back" /\ pc' = "send" /\ op \in Ops
      /\ UNCHANGED <<ncus, cus, stats, body, store, transport, last>>
      /\ op' = [op EXCEPT !.part = "in"]
  BY DEF HInv, Inputs, TypeOK
<1>1. /\ op' \in Ops /\ op'.acc = op.acc /\ op'.u = op.u /\ op'.uid = op.uid
      /\ op'.call = op.call /\ op'.part = "in"
  BY <1>0 DEF Ops
<1>2. TypeOK' /\ SeqCountsAcks' /\ TransportInv'
  BY <1>0, <1>1 DEF TypeOK, SeqCountsAcks, TransportInv, stats, transport
<1>3. WalkInv' /\ FlightInv' /\ PrefixStored' /\ SuccessMeansStored'
  BY <1>0, <1>1 DEF WalkInv, Busy, FlightInv, PrefixStored, Holds, SuccessMeansStored
<1>. QED BY <1>2, <1>3 DEF HInv

LEMMA NextCUInv == ASSUME HInv, NextCU PROVE HInv'
<1>0. /\ TypeOK /\ WalkInv /\ PrefixStored /\ SeqCountsAcks /\ TransportInv /\ FlightInv
      /\ pc = "back" /\ pc' = "send" /\ op \in Ops
      /\ op.acc = 0 /\ op.uid = 0 /\ op.u < ncus /\ ncus \in 0..MaxCUs /\ op.u \in UIDs
      /\ UNCHANGED <<ncus, cus, stats, body, store, transport, last>>
  BY DEF HInv, NextCU, CUDone, MoreCUs, TypeOK, Ops
<1>1. PICK part \in {"out", "in"} : op' = [op EXCEPT !.u = op.u + 1, !.part = part]
  BY <1>0 DEF NextCU, Ops
<1>2. op.u + 1 \in UIDs /\ op.u \in Nat /\ ncus \in Nat
  BY <1>0, Bounds DEF UIDs
<1>3. /\ op' \in Ops /\ op'.acc = 0 /\ op'.u = op.u + 1 /\ op'.uid = 0 /\ op'.call = op.call
  BY <1>0, <1>1, <1>2 DEF Ops
<1>4. TypeOK' /\ SeqCountsAcks' /\ TransportInv'
  BY <1>0, <1>3 DEF TypeOK, SeqCountsAcks, TransportInv, stats, transport
<1>5. WalkInv' /\ FlightInv' /\ SuccessMeansStored'
  BY <1>0, <1>2, <1>3 DEF WalkInv, Busy, FlightInv, SuccessMeansStored
<1>6. \A v \in 1..op.u : Holds(v, op.call)
  BY <1>0, <1>2 DEF PrefixStored, FlightInv
<1>7. PrefixStored'
  BY <1>0, <1>2, <1>3, <1>6 DEF PrefixStored, Holds
<1>. QED BY <1>4, <1>5, <1>7 DEF HInv

LEMMA FinishInv == ASSUME HInv, Finish PROVE HInv'
<1>0. /\ TypeOK /\ WalkInv /\ PrefixStored /\ SeqCountsAcks /\ TransportInv /\ FlightInv
      /\ pc = "back" /\ pc' = "idle" /\ op \in Ops
      /\ last' = [call |-> op.call, uid |-> op.uid, ret |-> op.acc]
      /\ op.acc = 0 /\ op.uid = 0 => ~(op.u < ncus)
      /\ UNCHANGED <<op, ncus, cus, stats, body, store, transport>>
  BY DEF HInv, Finish, CUDone, MoreCUs, Return, TypeOK
<1>1. /\ op.u \in Nat /\ op.u <= ncus /\ ncus \in Nat /\ op.uid \in 0..MaxCUs
      /\ op.call \in Calls /\ op.acc \in Int
  BY <1>0, Bounds DEF WalkInv, Busy, Ops, UIDs, TypeOK
<1>2. TypeOK' /\ SeqCountsAcks' /\ TransportInv' /\ WalkInv' /\ FlightInv' /\ PrefixStored'
  BY <1>0, <1>1 DEF TypeOK, SeqCountsAcks, TransportInv, stats, transport, WalkInv, Busy,
                    FlightInv, PrefixStored
<1>3. SuccessMeansStored'
  <2>. SUFFICES ASSUME op.acc = 0, NEW v \in Covered(op.uid) PROVE Holds(v, op.call)
    BY <1>0 DEF SuccessMeansStored, Covered, Holds
  <2>1. Holds(op.u, op.call)
    BY <1>0 DEF FlightInv
  <2>2. CASE op.uid = 0
    BY <1>0, <1>1, <2>1, <2>2 DEF PrefixStored, Covered
  <2>3. CASE op.uid # 0
    BY <1>0, <2>1, <2>3 DEF WalkInv, Busy, Covered
  <2>. QED BY <2>2, <2>3
<1>. QED BY <1>2, <1>3 DEF HInv

LEMMA EndInv == ASSUME HInv, Crash \/ Close \/ UNCHANGED vars PROVE HInv'
<1>1. CASE Crash
  BY <1>1 DEF Crash, HInv, TypeOK, TransportInv, WalkInv, Busy, FlightInv, PrefixStored,
              SuccessMeansStored, SeqCountsAcks, stats, transport
<1>2. CASE Close
  <2>1. /\ TypeOK /\ TransportInv /\ SeqCountsAcks /\ pc = "idle" /\ pc' \in {"closed", "crashed"}
        /\ UNCHANGED <<op, ncus, cus, stats, body, store, cur, answer, result>>
        /\ phase' = "closed" /\ last' = [call |-> "close", uid |-> 0, ret |-> 0]
    BY <1>2 DEF HInv, Close, RPC!Close, Return
  <2>. QED BY <2>1, Bounds DEF HInv, TypeOK, TransportInv, WalkInv, Busy, FlightInv,
              PrefixStored, SuccessMeansStored, SeqCountsAcks, stats, Calls
<1>3. CASE UNCHANGED vars
  <2>1. UNCHANGED <<pc, op, ncus, cus, stats, body, store, transport, last>>
    BY <1>3 DEF vars
  <2>2. TypeOK' /\ TransportInv' /\ SeqCountsAcks'
    BY <2>1 DEF HInv, TypeOK, TransportInv, SeqCountsAcks, stats, transport
  <2>3. WalkInv' /\ FlightInv'
    BY <2>1 DEF HInv, WalkInv, Busy, FlightInv, Holds, BuildBody, Fits, stats, transport
  <2>4. PrefixStored' /\ SuccessMeansStored'
    BY <2>1 DEF HInv, PrefixStored, SuccessMeansStored, Holds, Covered
  <2>. QED BY <2>2, <2>3, <2>4 DEF HInv
<1>. QED BY <1>1, <1>2, <1>3

-----------------------------------------------------------------------------
(* Theorems.                                                               *)

THEOREM HandleInvariance == Spec => []HInv
<1>1. HInv /\ [Next]_vars => HInv'
  BY AddCUInv, UpdateInv, QuickCallInv, BeginInv, SendInv, DecideInv, PostReturnsInv,
     InputsInv, NextCUInv, FinishInv, EndInv
     DEF Next, Terminated
<1>. QED BY InitHInv, <1>1, PTL DEF Spec

\* Types of the handle's state.
THEOREM HandleTypes == Spec => []TypeOK
<1>1. HInv => TypeOK
  BY DEF HInv
<1>. QED BY <1>1, HandleInvariance, PTL

\* chaos_crest_push and chaos_crest_register return 0 only when the server
\* holds the present values of every CU they were called for.
THEOREM SuccessMeansStoredHolds == Spec => []SuccessMeansStored
<1>1. HInv => SuccessMeansStored
  BY DEF HInv
<1>. QED BY <1>1, HandleInvariance, PTL

\* A call over the whole table that fails at a CU has stored those before it.
THEOREM PrefixStoredHolds == Spec => []PrefixStored
<1>1. HInv => PrefixStored
  BY DEF HInv
<1>. QED BY <1>1, HandleInvariance, PTL

\* The acknowledged posts since the last registration carry 0, 1, 2, ...
THEOREM SeqCountsAcksHolds == Spec => []SeqCountsAcks
<1>1. HInv => SeqCountsAcks
  BY DEF HInv
<1>. QED BY <1>1, HandleInvariance, PTL
=============================================================================
