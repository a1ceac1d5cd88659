------------------------ MODULE CrestThreads_proofs ------------------------
(***************************************************************************)
(* Proofs about CrestThreads, for every set of threads, number of posts    *)
(* and set of status codes.                                                *)
(***************************************************************************)
EXTENDS CrestThreads, TLAPS

LEMMA ThreadsConstants ==
  /\ MaxPosts \in Nat /\ 0 \notin Decisions /\ Undecided \notin Decisions
  /\ Decisions \subseteq Int /\ ConnectFailed \in Decisions
  /\ Pending \notin Decisions /\ Pending # 0
BY ThreadsAssumption DEF ThreadsAssumption, Decisions, ConnectFailed, Undecided, Pending

LEMMA ThreadsInit == ASSUME Init PROVE ThreadsInv
<1>1. TypeOK
  BY ThreadsConstants DEF Init, TypeOK
<1>. QED BY <1>1 DEF Init, ThreadsInv, FlagInv, BegunInv, AloneInv, SecondInv, PendingInv,
                 OwnUnlessDisturbed, NoThinAir, Inside

-----------------------------------------------------------------------------
(* Each step keeps the invariant.                                          *)

LEMMA EnterKeeps ==
  ASSUME ThreadsInv, NEW t \in Threads, Enter(t) PROVE ThreadsInv'
<1>. USE DEF ThreadsInv
<1>1. /\ TypeOK /\ pc[t] = "idle" /\ n[t] \in Nat /\ n[t] < MaxPosts
      /\ pc' = [pc EXCEPT ![t] = "reset"] /\ n' = [n EXCEPT ![t] = @ + 1]
      /\ UNCHANGED <<flag, open, decision, buf, result, clean, pairs>>
  BY DEF Enter, TypeOK
<1>2. /\ \A s \in Threads : pc'[s] = IF s = t THEN "reset" ELSE pc[s]
      /\ \A s \in Threads : n'[s] = IF s = t THEN n[t] + 1 ELSE n[s]
      /\ \A s \in Threads : disturbed'[s] =
           (IF s = t THEN open[t] # {} \/ \E u \in Threads \ {t} : Inside(u)
                     ELSE disturbed[s] \/ Inside(s))
  BY <1>1 DEF Enter, TypeOK
<1>3. TypeOK'
  <2>1. n[t] + 1 \in 0..MaxPosts
    BY <1>1, ThreadsConstants
  <2>2. disturbed' \in [Threads -> BOOLEAN]
    BY <1>1 DEF Enter, TypeOK
  <2>. QED BY <1>1, <2>1, <2>2 DEF TypeOK
<1>4. \A s \in Threads : Inside(s)' <=> s = t \/ Inside(s)
  BY <1>1, <1>2 DEF Inside
<1>5. AloneInv'
  <2>1. SUFFICES ASSUME NEW s \in Threads, ~disturbed'[s]
                 PROVE  /\ Inside(s)' => \A u \in Threads \ {s} : ~Inside(u)'
                        /\ pc'[s] \in {"idle", "reset"} => open'[s] = {}
                        /\ pc'[s] \in {"test", "poll"} =>
                             \/ open'[s] = {n'[s]} /\ flag' = 0 /\ buf'[s] = 0
                             \/ open'[s] = {} /\ Answered(s, n[s], flag, buf[s])'
                        /\ pc'[s] \in {"first", "second"} =>
                             open'[s] = {} /\ Answered(s, n[s], flag, buf[s])'
    BY DEF AloneInv
  <2>2. CASE s = t
    <3>1. open[t] = {} /\ \A u \in Threads \ {t} : ~Inside(u)
      BY <1>2, <2>1, <2>2
    <3>. QED BY <1>1, <1>2, <1>4, <2>2, <3>1
  <2>3. CASE s # t
    <3>1. ~disturbed[s] /\ ~Inside(s) /\ pc[s] = "idle"
      BY <1>2, <2>1, <2>3 DEF Inside
    <3>2. open[s] = {}
      BY <3>1 DEF AloneInv
    <3>. QED BY <1>1, <1>2, <1>4, <2>3, <3>1, <3>2
  <2>. QED BY <2>2, <2>3
<1>6. BegunInv'
  <2>1. n[t] + 1 \in Posts
    BY <1>1, ThreadsConstants DEF Posts
  <2>. QED BY <1>2, <1>4, <2>1 DEF BegunInv
<1>7. PendingInv'
  <2>1. SUFFICES ASSUME NEW s \in Threads, NEW p \in Posts,
                        p > n'[s] \/ (Inside(s)' /\ p = n'[s])
                 PROVE  result'[s][p] = Pending
    BY DEF PendingInv
  <2>2. p > n[s] \/ (Inside(s) /\ p = n[s])
    BY <1>1, <1>2, <1>4, <2>1 DEF Posts
  <2>. QED BY <1>1, <2>2 DEF PendingInv
<1>8. FlagInv' /\ NoThinAir'
  BY <1>1 DEF FlagInv, Decided, NoThinAir
<1>9. OwnUnlessDisturbed'
  BY <1>1, <1>2 DEF OwnUnlessDisturbed
<1>10. SecondInv'
  <2>1. SUFFICES ASSUME NEW s \in Threads, ~disturbed'[s], pc'[s] = "second" PROVE flag' # 200
    BY DEF SecondInv
  <2>2. s # t /\ ~disturbed[s] /\ pc[s] = "second"
    BY <1>2, <2>1
  <2>. QED BY <1>1, <2>2 DEF SecondInv
<1>. QED BY <1>3, <1>5, <1>6, <1>7, <1>8, <1>9, <1>10

LEMMA ResetKeeps ==
  ASSUME ThreadsInv, NEW t \in Threads, Reset(t) PROVE ThreadsInv'
<1>. USE DEF ThreadsInv
<1>1. /\ TypeOK /\ pc[t] = "reset" /\ flag' = 0 /\ n[t] \in Posts
      /\ pc' = [pc EXCEPT ![t] = "test"] /\ buf' = [buf EXCEPT ![t] = 0]
      /\ open' = [open EXCEPT ![t] = @ \cup {n[t]}]
      /\ UNCHANGED <<n, decision, result, disturbed, clean, pairs>>
  BY DEF Reset, history, Zero, BegunInv, Inside
<1>2. /\ \A s \in Threads : pc'[s] = IF s = t THEN "test" ELSE pc[s]
      /\ \A s \in Threads : buf'[s] = IF s = t THEN 0 ELSE buf[s]
      /\ \A s \in Threads : open'[s] = IF s = t THEN open[t] \cup {n[t]} ELSE open[s]
  BY <1>1 DEF TypeOK
<1>3. TypeOK'
  <2>1. open' \in [Threads -> SUBSET Posts]
    BY <1>1 DEF TypeOK
  <2>2. buf' \in [Threads -> 0..MaxPosts]
    BY <1>1, ThreadsConstants DEF TypeOK
  <2>. QED BY <1>1, <2>1, <2>2 DEF TypeOK
<1>4. \A s \in Threads : Inside(s)' <=> Inside(s)
  BY <1>1, <1>2 DEF Inside
<1>5. AloneInv'
  <2>1. SUFFICES ASSUME NEW s \in Threads, ~disturbed[s]
                 PROVE  /\ Inside(s)' => \A u \in Threads \ {s} : ~Inside(u)'
                        /\ pc'[s] \in {"idle", "reset"} => open'[s] = {}
                        /\ pc'[s] \in {"test", "poll"} =>
                             \/ open'[s] = {n'[s]} /\ flag' = 0 /\ buf'[s] = 0
                             \/ open'[s] = {} /\ Answered(s, n[s], flag, buf[s])'
                        /\ pc'[s] \in {"first", "second"} =>
                             open'[s] = {} /\ Answered(s, n[s], flag, buf[s])'
    BY <1>1 DEF AloneInv
  <2>2. Inside(s)' => \A u \in Threads \ {s} : ~Inside(u)'
    BY <1>4, <2>1 DEF AloneInv
  <2>3. CASE s = t
    <3>1. open[t] = {}
      BY <1>1, <2>1, <2>3 DEF AloneInv
    <3>. QED BY <1>1, <1>2, <2>2, <2>3, <3>1
  <2>4. CASE s # t
    <3>1. ~Inside(s)
      <4>1. Inside(t)
        BY <1>1 DEF Inside
      <4>. QED BY <2>1, <2>4, <4>1 DEF AloneInv
    <3>2. pc[s] = "idle" /\ open[s] = {}
      BY <2>1, <3>1 DEF AloneInv, Inside
    <3>. QED BY <1>1, <1>2, <2>2, <2>4, <3>2
  <2>. QED BY <2>3, <2>4
<1>6. BegunInv' /\ PendingInv'
  BY <1>1, <1>4 DEF BegunInv, PendingInv
<1>7. FlagInv' /\ NoThinAir' /\ OwnUnlessDisturbed'
  BY <1>1 DEF FlagInv, NoThinAir, OwnUnlessDisturbed
<1>8. SecondInv'
  BY <1>1, <1>2 DEF SecondInv, Inside
<1>. QED BY <1>3, <1>5, <1>6, <1>7, <1>8

\* Test, Polled, and a first read that is followed by another.
LEMMA MoveKeeps ==
  ASSUME ThreadsInv, NEW t \in Threads, NEW q,
         pc' = [pc EXCEPT ![t] = q],
         UNCHANGED <<flag, n, open, decision, buf, result, history>>,
         \/ pc[t] = "test" /\ q = IF flag = 0 THEN "poll" ELSE "first"
         \/ pc[t] = "poll" /\ q = "test"
         \/ pc[t] = "first" /\ q = "second" /\ flag # 200
  PROVE  ThreadsInv'
<1>. USE DEF ThreadsInv, history
<1>1. TypeOK /\ q \in {"poll", "first", "test", "second"} /\ pc[t] # "idle"
  OBVIOUS
<1>2. \A s \in Threads : pc'[s] = IF s = t THEN q ELSE pc[s]
  BY <1>1 DEF TypeOK
<1>3. TypeOK'
  BY <1>1 DEF TypeOK
<1>4. \A s \in Threads : Inside(s)' <=> Inside(s)
  BY <1>1, <1>2 DEF Inside
<1>5. AloneInv'
  <2>1. SUFFICES ASSUME NEW s \in Threads, ~disturbed[s]
                 PROVE  /\ Inside(s)' => \A u \in Threads \ {s} : ~Inside(u)'
                        /\ pc'[s] \in {"idle", "reset"} => open[s] = {}
                        /\ pc'[s] \in {"test", "poll"} =>
                             \/ open[s] = {n[s]} /\ flag = 0 /\ buf[s] = 0
                             \/ open[s] = {} /\ Answered(s, n[s], flag, buf[s])
                        /\ pc'[s] \in {"first", "second"} =>
                             open[s] = {} /\ Answered(s, n[s], flag, buf[s])
    BY DEF AloneInv, Answered
  <2>2. Inside(s)' => \A u \in Threads \ {s} : ~Inside(u)'
    BY <1>4, <2>1 DEF AloneInv
  <2>3. CASE s = t
    BY <1>1, <1>2, <2>1, <2>2, <2>3 DEF AloneInv
  <2>4. CASE s # t
    BY <1>2, <2>1, <2>2, <2>4 DEF AloneInv
  <2>. QED BY <2>3, <2>4
<1>6. BegunInv' /\ PendingInv'
  BY <1>4 DEF BegunInv, PendingInv
<1>7. FlagInv' /\ NoThinAir' /\ OwnUnlessDisturbed'
  BY DEF FlagInv, Decided, NoThinAir, OwnUnlessDisturbed
<1>8. SecondInv'
  BY <1>1, <1>2 DEF SecondInv
<1>. QED BY <1>3, <1>5, <1>6, <1>7, <1>8

LEMMA EventKeeps ==
  ASSUME ThreadsInv, NEW t \in Threads, NEW p \in Posts, Event(t, p) PROVE ThreadsInv'
<1>. USE DEF ThreadsInv
<1>1. /\ TypeOK /\ pc[t] = "poll" /\ p \in open[t] /\ decision[t][p] # Undecided
      /\ flag' = decision[t][p]
      /\ buf' = [buf EXCEPT ![t] = IF decision[t][p] = ConnectFailed THEN @ ELSE p]
      /\ open' = [open EXCEPT ![t] = @ \ {p}]
      /\ UNCHANGED <<pc, n, decision, result, disturbed, clean, pairs>>
  BY DEF Event, FlagOf, history
<1>2. decision[t][p] \in Decisions
  BY <1>1 DEF TypeOK
<1>3. /\ \A s \in Threads : open'[s] = IF s = t THEN open[t] \ {p} ELSE open[s]
      /\ \A s \in Threads : buf'[s] = IF s # t \/ decision[t][p] = ConnectFailed
                                        THEN buf[s] ELSE p
  BY <1>1 DEF TypeOK
<1>4. TypeOK'
  <2>1. open' \in [Threads -> SUBSET Posts]
    BY <1>1 DEF TypeOK
  <2>2. buf' \in [Threads -> 0..MaxPosts]
    <3>1. p \in 0..MaxPosts
      BY ThreadsConstants DEF Posts
    <3>. QED BY <1>1, <3>1 DEF TypeOK
  <2>. QED BY <1>1, <1>2, <2>1, <2>2 DEF TypeOK
<1>5. AloneInv'
  <2>1. SUFFICES ASSUME NEW s \in Threads, ~disturbed[s]
                 PROVE  /\ Inside(s)' => \A u \in Threads \ {s} : ~Inside(u)'
                        /\ pc[s] \in {"idle", "reset"} => open'[s] = {}
                        /\ pc[s] \in {"test", "poll"} =>
                             \/ open'[s] = {n[s]} /\ flag' = 0 /\ buf'[s] = 0
                             \/ open'[s] = {} /\ Answered(s, n[s], flag, buf[s])'
                        /\ pc[s] \in {"first", "second"} =>
                             open'[s] = {} /\ Answered(s, n[s], flag, buf[s])'
    BY <1>1 DEF AloneInv
  <2>2. Inside(s)' => \A u \in Threads \ {s} : ~Inside(u)'
    BY <1>1, <2>1 DEF AloneInv, Inside
  <2>3. CASE s = t
    <3>1. open[t] = {n[t]} /\ buf[t] = 0 /\ p = n[t]
      BY <1>1, <2>1, <2>3 DEF AloneInv
    <3>2. open'[t] = {}
      BY <1>3, <3>1
    <3>3. Answered(t, n[t], flag, buf[t])'
      BY <1>1, <1>3, <3>1 DEF Answered
    <3>. QED BY <1>1, <2>2, <2>3, <3>2, <3>3
  <2>4. CASE s # t
    <3>1. ~Inside(s)
      BY <1>1, <2>1, <2>4 DEF AloneInv, Inside
    <3>2. pc[s] = "idle" /\ open[s] = {}
      BY <2>1, <3>1 DEF AloneInv, Inside
    <3>. QED BY <1>3, <2>2, <2>4, <3>2
  <2>. QED BY <2>3, <2>4
<1>6. FlagInv'
  BY <1>1 DEF FlagInv, Decided
<1>7. BegunInv' /\ PendingInv' /\ NoThinAir' /\ OwnUnlessDisturbed'
  BY <1>1 DEF BegunInv, PendingInv, Inside, NoThinAir, OwnUnlessDisturbed
<1>8. SecondInv'
  BY <1>1 DEF SecondInv, AloneInv, Inside
<1>. QED BY <1>4, <1>5, <1>6, <1>7, <1>8

\* The second read returns whatever the flag is by then.
LEMMA ReturnKeeps ==
  ASSUME ThreadsInv, NEW t \in Threads, NEW r, pc[t] \in {"first", "second"},
         r = flag \/ (r = 0 /\ flag = 200), flag = 200 => r = 0 \/ pc[t] = "second",
         ~disturbed[t] => r = Outcome(flag), ReturnWith(t, r)
  PROVE  ThreadsInv'
<1>. USE DEF ThreadsInv
<1>1. /\ TypeOK /\ n[t] \in Posts
      /\ pc' = [pc EXCEPT ![t] = "idle"]
      /\ result' = [result EXCEPT ![t][n[t]] = r]
      /\ pairs' = [pairs EXCEPT ![t][n[t]] = buf[t]]
      /\ clean' = [clean EXCEPT ![t] = IF disturbed[t] THEN @ ELSE @ \cup {n[t]}]
      /\ UNCHANGED <<flag, n, open, decision, buf, disturbed>>
  BY DEF ReturnWith, BegunInv, Inside
<1>2. /\ \A s \in Threads : pc'[s] = IF s = t THEN "idle" ELSE pc[s]
      /\ \A s \in Threads, p \in Posts :
           /\ result'[s][p] = IF s = t /\ p = n[t] THEN r ELSE result[s][p]
           /\ pairs'[s][p] = IF s = t /\ p = n[t] THEN buf[t] ELSE pairs[s][p]
           /\ p \in clean'[s] <=> p \in clean[s] \/ (s = t /\ p = n[t] /\ ~disturbed[t])
  BY <1>1 DEF TypeOK
<1>3. r \in {0} \cup Decisions
  BY <1>1 DEF TypeOK
<1>4. TypeOK'
  <2>1. [result[t] EXCEPT ![n[t]] = r] \in [Posts -> {Pending, 0} \cup Decisions]
    BY <1>1, <1>3 DEF TypeOK
  <2>2. [pairs[t] EXCEPT ![n[t]] = buf[t]] \in [Posts -> 0..MaxPosts]
    BY <1>1 DEF TypeOK
  <2>3. clean' \in [Threads -> SUBSET Posts]
    BY <1>1 DEF TypeOK
  <2>. QED BY <1>1, <2>1, <2>2, <2>3 DEF TypeOK
<1>5. \A s \in Threads : Inside(s)' <=> s # t /\ Inside(s)
  BY <1>1, <1>2 DEF Inside
<1>6. AloneInv'
  <2>1. SUFFICES ASSUME NEW s \in Threads, ~disturbed[s]
                 PROVE  /\ Inside(s)' => \A u \in Threads \ {s} : ~Inside(u)'
                        /\ pc'[s] \in {"idle", "reset"} => open[s] = {}
                        /\ pc'[s] \in {"test", "poll"} =>
                             \/ open[s] = {n[s]} /\ flag = 0 /\ buf[s] = 0
                             \/ open[s] = {} /\ Answered(s, n[s], flag, buf[s])
                        /\ pc'[s] \in {"first", "second"} =>
                             open[s] = {} /\ Answered(s, n[s], flag, buf[s])
    BY <1>1 DEF AloneInv, Answered
  <2>2. Inside(s)' => \A u \in Threads \ {s} : ~Inside(u)'
    BY <1>5, <2>1 DEF AloneInv
  <2>. QED BY <1>2, <2>1, <2>2 DEF AloneInv
<1>7. OwnUnlessDisturbed'
  <2>1. SUFFICES ASSUME NEW s \in Threads, NEW p \in Posts, p \in clean'[s]
                 PROVE  /\ decision[s][p] # Undecided
                        /\ result'[s][p] = Outcome(decision[s][p])
                        /\ pairs'[s][p] = IF decision[s][p] = ConnectFailed THEN 0 ELSE p
    BY <1>1, <1>4 DEF OwnUnlessDisturbed, TypeOK
  <2>2. CASE s = t /\ p = n[t] /\ ~disturbed[t]
    <3>1. Answered(t, n[t], flag, buf[t])
      BY <2>2 DEF AloneInv
    <3>. QED BY <1>2, <2>2, <3>1 DEF Answered
  <2>3. CASE ~(s = t /\ p = n[t] /\ ~disturbed[t])
    <3>1. p \in clean[s]
      BY <1>2, <2>1, <2>3
    <3>2. decision[s][p] \in Decisions /\ result[s][p] = Outcome(decision[s][p])
      BY <1>1, <3>1 DEF OwnUnlessDisturbed, TypeOK
    <3>3. result[s][p] # Pending
      BY <3>2, ThreadsConstants DEF Outcome
    <3>4. ~(s = t /\ p = n[t])
      BY <1>1, <3>3 DEF PendingInv, Inside
    <3>. QED BY <1>2, <3>1, <3>4 DEF OwnUnlessDisturbed
  <2>. QED BY <2>2, <2>3
<1>8. NoThinAir'
  <2>1. SUFFICES ASSUME NEW s \in Threads, NEW p \in Posts,
                        result'[s][p] \notin {Pending, 0}
                 PROVE  Decided(result'[s][p])
    BY <1>1 DEF NoThinAir, Decided
  <2>. QED BY <1>2, <2>1 DEF FlagInv, NoThinAir, Decided
<1>9. PendingInv'
  <2>1. SUFFICES ASSUME NEW s \in Threads, NEW p \in Posts,
                        p > n[s] \/ (Inside(s)' /\ p = n[s])
                 PROVE  result'[s][p] = Pending
    BY <1>1 DEF PendingInv
  <2>2. ~(s = t /\ p = n[t])
    BY <1>1, <1>5, <2>1, ThreadsConstants DEF Posts
  <2>. QED BY <1>2, <1>5, <2>1, <2>2 DEF PendingInv
<1>10. BegunInv' /\ FlagInv'
  BY <1>1, <1>5 DEF BegunInv, FlagInv, Decided
<1>11. SecondInv'
  BY <1>1, <1>2 DEF SecondInv
<1>. QED BY <1>4, <1>6, <1>7, <1>8, <1>9, <1>10, <1>11

LEMMA DecideKeeps ==
  ASSUME ThreadsInv, NEW t \in Threads, NEW p \in Posts, Decide(t, p) PROVE ThreadsInv'
<1>. USE DEF ThreadsInv, history
<1>1. PICK d \in Decisions : decision' = [decision EXCEPT ![t][p] = d]
  BY DEF Decide
<1>2. /\ TypeOK /\ p \in open[t] /\ decision[t][p] = Undecided
      /\ UNCHANGED <<flag, pc, n, open, buf, result, history>>
  BY DEF Decide
<1>3. \A s \in Threads, q \in Posts :
        decision'[s][q] = IF s = t /\ q = p THEN d ELSE decision[s][q]
  BY <1>1, <1>2 DEF TypeOK
<1>4. TypeOK'
  <2>1. [decision[t] EXCEPT ![p] = d] \in [Posts -> {Undecided} \cup Decisions]
    BY <1>2 DEF TypeOK
  <2>. QED BY <1>1, <1>2, <2>1 DEF TypeOK
<1>5. \A e : e # Undecided /\ Decided(e) => Decided(e)'
  BY <1>2, <1>3 DEF Decided
<1>6. FlagInv' /\ NoThinAir'
  <2>1. FlagInv'
    BY <1>2, <1>5 DEF FlagInv, Undecided
  <2>2. NoThinAir'
    <3>1. SUFFICES ASSUME NEW s \in Threads, NEW q \in Posts, result[s][q] \notin {Pending, 0}
                   PROVE  \E u \in Threads, v \in Posts : decision'[u][v] = result[s][q]
      BY <1>2 DEF NoThinAir
    <3>2. PICK u \in Threads, v \in Posts : decision[u][v] = result[s][q]
      BY <3>1 DEF NoThinAir
    <3>3. decision[u][v] # Undecided
      BY <3>1, <3>2 DEF Undecided
    <3>4. decision'[u][v] = decision[u][v]
      BY <1>2, <1>3, <3>3
    <3>. QED BY <3>2, <3>4
  <2>. QED BY <2>1, <2>2
<1>7. OwnUnlessDisturbed'
  <2>1. p \notin clean[t]
    BY <1>2 DEF OwnUnlessDisturbed
  <2>. QED BY <1>2, <1>3, <2>1 DEF OwnUnlessDisturbed, TypeOK
<1>8. AloneInv'
  <2>1. SUFFICES ASSUME NEW s \in Threads, ~disturbed[s]
                 PROVE  /\ Inside(s) => \A u \in Threads \ {s} : ~Inside(u)
                        /\ pc[s] \in {"idle", "reset"} => open[s] = {}
                        /\ pc[s] \in {"test", "poll"} =>
                             \/ open[s] = {n[s]} /\ flag = 0 /\ buf[s] = 0
                             \/ open[s] = {} /\ Answered(s, n[s], flag, buf[s])'
                        /\ pc[s] \in {"first", "second"} =>
                             open[s] = {} /\ Answered(s, n[s], flag, buf[s])'
    BY <1>2 DEF AloneInv, Inside
  <2>2. ASSUME open[s] = {}, Inside(s), Answered(s, n[s], flag, buf[s])
        PROVE  Answered(s, n[s], flag, buf[s])'
    <3>1. s # t
      BY <1>2, <2>2
    <3>2. n[s] \in Posts
      BY <2>2 DEF BegunInv
    <3>3. decision'[s][n[s]] = decision[s][n[s]]
      BY <1>3, <3>1, <3>2
    <3>. QED BY <1>2, <2>2, <3>3 DEF Answered
  <2>. QED BY <2>1, <2>2 DEF AloneInv, Inside
<1>9. BegunInv' /\ PendingInv'
  BY <1>2 DEF BegunInv, PendingInv, Inside
<1>10. SecondInv'
  BY <1>2 DEF SecondInv
<1>. QED BY <1>4, <1>6, <1>7, <1>8, <1>9, <1>10

LEMMA StutterKeeps == ASSUME ThreadsInv, UNCHANGED vars PROVE ThreadsInv'
<1>. USE DEF ThreadsInv, vars, history
<1>1. TypeOK'
  BY DEF TypeOK
<1>2. AloneInv' /\ SecondInv'
  BY DEF AloneInv, Inside, Answered, SecondInv
<1>3. FlagInv' /\ NoThinAir'
  BY DEF FlagInv, NoThinAir, Decided
<1>4. BegunInv' /\ PendingInv' /\ OwnUnlessDisturbed'
  BY DEF BegunInv, PendingInv, OwnUnlessDisturbed, Inside
<1>. QED BY <1>1, <1>2, <1>3, <1>4

-----------------------------------------------------------------------------
(* The theorems.                                                           *)

\* The invariant of the threads, at every access to the flag.
THEOREM ThreadsInvariance == Spec => []ThreadsInv
<1>1. Init => ThreadsInv
  BY ThreadsInit
<1>2. ThreadsInv /\ [Next]_vars => ThreadsInv'
  <2>1. SUFFICES ASSUME ThreadsInv, [Next]_vars PROVE ThreadsInv'
    OBVIOUS
  <2>2. ASSUME NEW t \in Threads, Enter(t) PROVE ThreadsInv'
    BY <2>1, <2>2, EnterKeeps
  <2>3. ASSUME NEW t \in Threads, Reset(t) PROVE ThreadsInv'
    BY <2>1, <2>3, ResetKeeps
  <2>4. ASSUME NEW t \in Threads, Test(t) PROVE ThreadsInv'
    BY <2>1, <2>4, MoveKeeps DEF Test
  <2>5. ASSUME NEW t \in Threads, Poll(t) PROVE ThreadsInv'
    BY <2>1, <2>5, EventKeeps, MoveKeeps DEF Poll, Polled
  <2>6. ASSUME NEW t \in Threads, First(t) PROVE ThreadsInv'
    <3>1. CASE ReturnWith(t, IF flag = 200 THEN 0 ELSE flag)
      <4> DEFINE r == IF flag = 200 THEN 0 ELSE flag
      <4>1. /\ r = flag \/ (r = 0 /\ flag = 200)
            /\ flag = 200 => r = 0
            /\ r = Outcome(flag) /\ ReturnWith(t, r) /\ pc[t] = "first"
        BY <2>6, <3>1 DEF First, Outcome
      <4>. HIDE DEF r
      <4>. QED BY <2>1, <4>1, ReturnKeeps
    <3>2. CASE /\ pc' = [pc EXCEPT ![t] = "second"] /\ pc[t] = "first" /\ flag # 200
               /\ UNCHANGED <<flag, n, open, decision, buf, result, history>>
      BY <2>1, <3>2, MoveKeeps
    <3>. QED BY <2>6, <3>1, <3>2 DEF First
  <2>7. ASSUME NEW t \in Threads, Second(t) PROVE ThreadsInv'
    <3>1. pc[t] = "second" /\ ReturnWith(t, flag)
      BY <2>7 DEF Second
    <3>2. ~disturbed[t] => flag = Outcome(flag)
      BY <2>1, <3>1 DEF ThreadsInv, SecondInv, Outcome
    <3>. QED BY <2>1, <3>1, <3>2, ReturnKeeps
  <2>8. ASSUME NEW t \in Threads, NEW p \in Posts, Decide(t, p) PROVE ThreadsInv'
    BY <2>1, <2>8, DecideKeeps
  <2>9. CASE UNCHANGED vars
    BY <2>1, <2>9, StutterKeeps
  <2>. QED BY <2>1, <2>2, <2>3, <2>4, <2>5, <2>6, <2>7, <2>8, <2>9
           DEF Next, Inner, Terminated
<1>. QED BY <1>1, <1>2, PTL DEF Spec

\* TypeOK holds for every set of threads and of codes and every number of posts.
THEOREM ThreadsTypes == Spec => []TypeOK
<1>1. ThreadsInv => TypeOK
  BY DEF ThreadsInv
<1>. QED BY <1>1, ThreadsInvariance, PTL

\* An undisturbed post is told its own answer, with however many others before it.
THEOREM OwnUnlessDisturbedHolds == Spec => []OwnUnlessDisturbed
<1>1. ThreadsInv => OwnUnlessDisturbed
  BY DEF ThreadsInv
<1>. QED BY <1>1, ThreadsInvariance, PTL

\* No returned error is made up, however the accesses to the flag interleave.
THEOREM NoThinAirHolds == Spec => []NoThinAir
<1>1. ThreadsInv => NoThinAir
  BY DEF ThreadsInv
<1>. QED BY <1>1, ThreadsInvariance, PTL

-----------------------------------------------------------------------------
(* One thread only.                                                        *)

\* There is a thread, and no other.
Single == \E t \in Threads : Threads = {t}

\* The thread is the one that Only names.
LEMMA SingleOnly == ASSUME Single PROVE Threads = {Only}
  BY DEF Single, Only

\* A single thread is never disturbed.
LEMMA SingleUndisturbed ==
  ASSUME Single, ThreadsInv, ~disturbed[Only], [Next]_vars
  PROVE  ~disturbed'[Only]
<1>1. Threads = {Only}
  BY SingleOnly
<1>2. CASE Enter(Only)
  <2>1. open[Only] = {}
    BY <1>1, <1>2 DEF Enter, ThreadsInv, AloneInv
  <2>. QED BY <1>1, <1>2, <2>1 DEF Enter
<1>3. CASE UNCHANGED disturbed
  BY <1>3
<1>. QED BY <1>1, <1>2, <1>3 DEF Next, Inner, Poll, Reset, Test, Event, Polled, First, Second,
            ReturnWith, Decide, Terminated, vars, history

\* What AloneInv says of the single thread.
LEMMA SingleAlone ==
  ASSUME Single, ThreadsInv, ~disturbed[Only]
  PROVE  /\ Only \in Threads /\ Threads = {Only}
         /\ n[Only] \in 0..MaxPosts /\ (Inside(Only) => n[Only] \in Posts)
         /\ decision[Only] \in [Posts -> {Undecided} \cup Decisions]
         /\ result[Only] \in [Posts -> {Pending, 0} \cup Decisions]
         /\ \A p \in open[Only] : p = n[Only] /\ pc[Only] \in {"test", "poll"}
         /\ pc[Only] \in {"first", "second"} =>
              decision[Only][n[Only]] # Undecided /\ flag = decision[Only][n[Only]]
         /\ pc[Only] = "second" => flag # 200
<1>1. Only \in Threads /\ Threads = {Only}
  BY SingleOnly
<1>2. /\ pc[Only] \in {"idle", "reset", "test", "poll", "first", "second"}
      /\ n[Only] \in 0..MaxPosts
      /\ decision[Only] \in [Posts -> {Undecided} \cup Decisions]
      /\ result[Only] \in [Posts -> {Pending, 0} \cup Decisions]
  BY <1>1 DEF ThreadsInv, TypeOK
<1>3. Inside(Only) => n[Only] \in Posts
  BY <1>1 DEF ThreadsInv, BegunInv
<1>4. \A p \in open[Only] : p = n[Only] /\ pc[Only] \in {"test", "poll"}
  BY <1>1, <1>2 DEF ThreadsInv, AloneInv
<1>5. pc[Only] \in {"first", "second"} =>
        decision[Only][n[Only]] # Undecided /\ flag = decision[Only][n[Only]]
  BY <1>1 DEF ThreadsInv, AloneInv, Answered
<1>6. pc[Only] = "second" => flag # 200
  BY <1>1 DEF ThreadsInv, SecondInv
<1>. QED BY <1>1, <1>2, <1>3, <1>4, <1>5, <1>6

\* The return of the single thread is that of PostRPC.
LEMMA SingleReturns ==
  ASSUME Single, ThreadsInv, ~disturbed[Only], pc[Only] \in {"first", "second"},
         NEW r, r = Outcome(flag), ReturnWith(Only, r)
  PROVE  RPC!Return
<1>1. /\ Inside(Only) /\ decision[Only][n[Only]] # 0 /\ r = RPC!Outcome(decision[Only][n[Only]])
  BY SingleAlone DEF Inside, Undecided, Outcome, RPC!Outcome
<1>2. /\ ~Inside(Only)' /\ UNCHANGED <<n, decision>>
      /\ result'[Only] = [result[Only] EXCEPT ![n[Only]] = r]
  BY SingleAlone DEF ThreadsInv, TypeOK, ReturnWith, Inside
<1>. QED BY <1>1, <1>2 DEF RPC!Return, RPC!Undecided

\* Every step of a single thread is a step of PostRPC, or stutters.
LEMMA SingleStep ==
  ASSUME Single, ThreadsInv, ~disturbed[Only], [Next]_vars
  PROVE  [RPC!Next]_(RPC!vars)
<1>0. /\ pc \in [Threads -> {"idle", "reset", "test", "poll", "first", "second"}]
      /\ n \in [Threads -> 0..MaxPosts]
      /\ decision \in [Threads -> [Posts -> {Undecided} \cup Decisions]]
  BY DEF ThreadsInv, TypeOK
<1>1. CASE Enter(Only)
  <2>1. ~Inside(Only) /\ Inside(Only)' /\ n[Only] < MaxPosts /\ n'[Only] = n[Only] + 1
        /\ UNCHANGED <<decision, result>>
    BY <1>0, <1>1, SingleAlone DEF Enter, Inside
  <2>. QED BY <2>1 DEF RPC!Call, RPC!Next
<1>2. CASE Reset(Only) \/ Test(Only) \/ Poll(Only)
  <2>1. Inside(Only) /\ Inside(Only)' /\ UNCHANGED <<n, decision, result>>
    BY <1>0, <1>2, SingleAlone DEF Reset, Test, Poll, Event, Polled, Inside
  <2>. QED BY <2>1 DEF RPC!vars
<1>3. CASE First(Only)
  <2>1. CASE ReturnWith(Only, IF flag = 200 THEN 0 ELSE flag)
    <3>1. pc[Only] = "first"
      BY <1>3 DEF First
    <3>2. RPC!Return
      BY <2>1, <3>1, SingleReturns DEF Outcome
    <3>. QED BY <3>2 DEF RPC!Next
  <2>2. CASE pc' = [pc EXCEPT ![Only] = "second"] /\ UNCHANGED <<n, decision, result>>
    <3>1. Inside(Only) /\ Inside(Only)'
      BY <1>0, <1>3, <2>2, SingleAlone DEF First, Inside
    <3>. QED BY <2>2, <3>1 DEF RPC!vars
  <2>. QED BY <1>3, <2>1, <2>2 DEF First
<1>4. CASE Second(Only)
  <2>1. pc[Only] = "second" /\ ReturnWith(Only, flag) /\ flag = Outcome(flag)
    BY <1>4, SingleAlone DEF Second, Outcome
  <2>2. RPC!Return
    BY <2>1, SingleReturns
  <2>. QED BY <2>2 DEF RPC!Next
<1>5. ASSUME NEW p \in Posts, Decide(Only, p) PROVE RPC!Next
  <2>1. p = n[Only] /\ Inside(Only) /\ Inside(Only)' /\ UNCHANGED <<pc, n, result>>
        /\ decision[Only][p] = 0
    BY <1>5, SingleAlone DEF Decide, Inside, Undecided
  <2>2. PICK d \in Decisions : decision' = [decision EXCEPT ![Only][p] = d]
    BY <1>5 DEF Decide
  <2>3. decision'[Only] = [decision[Only] EXCEPT ![n[Only]] = d]
    BY <1>0, <2>1, <2>2, SingleAlone
  <2>4. d \in Codes \cup {RPC!ConnectFailed}
    BY <2>2 DEF Decisions, ConnectFailed, RPC!ConnectFailed
  <2>. QED BY <2>1, <2>3, <2>4 DEF RPC!Next, RPC!Decide, RPC!Undecided
<1>6. CASE UNCHANGED vars
  BY <1>6 DEF vars, RPC!vars, Inside
<1>7. Threads = {Only}
  BY SingleAlone
<1>8. [Next]_vars => \/ Enter(Only) \/ Reset(Only) \/ Test(Only) \/ Poll(Only)
                     \/ First(Only) \/ Second(Only)
                     \/ (\E p \in Posts : Decide(Only, p)) \/ UNCHANGED vars
  BY <1>7 DEF Next, Inner, Terminated
<1>. QED BY <1>1, <1>2, <1>3, <1>4, <1>5, <1>6, <1>8

\* With one thread in the process, shared flag or not, json_register and json_push
\* are PostRPC: each returns the decision on its own post.
THEOREM OneImplementsRPCHolds == ASSUME Single PROVE Spec => OneImplementsRPC
<1>1. Init => RPC!Init /\ ~disturbed[Only]
  <2>1. Only \in Threads
    BY SingleOnly
  <2>. QED BY <2>1 DEF Init, Inside, RPC!Init, RPC!Posts, Posts, RPC!Undecided, Undecided,
              RPC!Pending, Pending
<1>2. ThreadsInv /\ ~disturbed[Only] /\ [Next]_vars => (~disturbed[Only])'
  BY SingleUndisturbed
<1>3. ThreadsInv /\ ~disturbed[Only] /\ [Next]_vars => [RPC!Next]_(RPC!vars)
  BY SingleStep
<1>. QED BY <1>1, <1>2, <1>3, ThreadsInvariance, PTL DEF Spec, OneImplementsRPC, RPC!Spec
=============================================================================
