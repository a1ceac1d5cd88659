-------------------------- MODULE NamedPost_proofs --------------------------
(***************************************************************************)
(* Proofs about NamedPost, for every number of retries, every reply, every *)
(* set of faults and every name server: the lookup ends once and asks      *)
(* max_retries times; the post implements PostRPC; and the body the caller *)
(* gets is the one the server sent, however it was cut into chunks and the *)
(* chunks into reads.                                                      *)
(*                                                                         *)
(* The operators of ChunkedBody are recursive functions.  That such a      *)
(* function exists, and what it computes, is shown by induction on a set   *)
(* of natural numbers: SetInduction, from the well-foundedness of Nat.     *)
(***************************************************************************)
EXTENDS NamedPost, FiniteSetTheorems, SequenceTheorems, WellFoundedInduction, TLAPS

\* No lookup has begun.
LEMMA LookupInit == ASSUME Init PROVE LookupInv
BY NamedAssumption DEF Init, LookupInv, LookupLife, QueryCount, CalledOnce,
   LastRetryUnsent, Dns, NamedAssumption

\* A step that leaves the lookup alone.
LEMMA LookupUntouched ==
  ASSUME LookupInv, UNCHANGED <<dns, asked, calls>>, pc # "idle" \/ UNCHANGED pc,
         pc' = "idle" => pc = "idle",
         "dns" \in todo' => "dns" \in todo /\ fd'["dns"] = fd["dns"]
  PROVE  LookupInv'
BY DEF LookupInv, LookupLife, QueryCount, CalledOnce, LastRetryUnsent

\* http_post begins the lookup.
LEMMA CallKeeps == ASSUME LookupInv, Call PROVE LookupInv'
<1>1. /\ dns.life = "none" /\ dns \in Dns /\ ~dns.req /\ calls = 0
      /\ pc' = "loop" /\ dns' = [dns EXCEPT !.life = "connecting", !.req = TRUE]
      /\ UNCHANGED <<todo, asked, calls>>
  BY DEF Call, LookupInv, LookupLife, CalledOnce
<1>. QED BY <1>1 DEF LookupInv, LookupLife, QueryCount, CalledOnce, LastRetryUnsent, Dns

\* select reports the lookup's connection writable only for a queued query.
LEMMA SelectKeeps == ASSUME LookupInv, Select PROVE LookupInv'
<1>1. /\ dns \in Dns /\ pc = "loop" /\ pc' = "poll" /\ todo' = Listed
      /\ fd'["dns"] = IF "dns" \in Listed THEN Ready("dns") ELSE {}
      /\ UNCHANGED <<dns, asked, calls>>
  BY DEF Select, lookupVars, LookupInv
<1>2. "dns" \in todo' => dns.life \in {"connecting", "open", "killed"}
  BY <1>1 DEF Listed
<1>3. dns.life = "open" /\ "w" \in fd'["dns"] => dns.queued > 0
  BY <1>1 DEF Ready
<1>4. LookupLife' /\ QueryCount'
  BY <1>1, <1>2, <1>3 DEF LookupInv, LookupLife, QueryCount
<1>. QED BY <1>1, <1>4 DEF LookupInv, CalledOnce, LastRetryUnsent

-----------------------------------------------------------------------------
(* The connection of the lookup.                                           *)

\* What polling and connecting make of it: it gives up, or stays open with at
\* most one more query in its buffer.
LEMMA AskedShape ==
  ASSUME dns \in Dns, dns.life \in {"connecting", "open"},
         NEW d, d = Connected(Polled(dns))
  PROVE  /\ d \in Dns /\ d.req = dns.req
         /\ \/ d.life = "killed" /\ dns.retries > MaxRetries
            \/ /\ d.life = "open" /\ dns.retries <= MaxRetries
               /\ \/ d.retries = dns.retries /\ d.queued = dns.queued
                  \/ d.retries = dns.retries + 1 /\ d.queued = dns.queued + 1
<1>. DEFINE p == Polled(dns)
<1>1. MaxRetries \in Nat /\ dns.retries \in Nat /\ dns.queued \in Nat /\ dns.req \in BOOLEAN
  BY NamedAssumption DEF NamedAssumption, Dns
<1>2. ASSUME NEW e \in Dns PROVE
      /\ Ask(e) \in Dns /\ Ask(e).req = e.req /\ Ask(e).life = e.life
      /\ \/ Ask(e).retries = e.retries /\ Ask(e).queued = e.queued
         \/ Ask(e).retries = e.retries + 1 /\ Ask(e).queued = e.queued + 1
  <2>1. CASE ~(e.retries = 0 \/ due)
    <3>1. Ask(e) = e
      BY <2>1 DEF Ask
    <3>. QED BY <3>1, <1>2
  <2>2. CASE e.retries = 0 \/ due
    <3>1. /\ e.queued \in Nat /\ e.retries \in Nat
          /\ e = [life |-> e.life, queued |-> e.queued, retries |-> e.retries,
                  req |-> e.req]
      BY <1>2 DEF Dns
    <3>2. Ask(e) = [life |-> e.life, queued |-> e.queued + 1,
                    retries |-> e.retries + 1, req |-> e.req]
      BY <2>2, <3>1 DEF Ask
    <3>3. e.life \in {"none", "connecting", "open", "killed", "closed"} /\ e.req \in BOOLEAN
      BY <1>2 DEF Dns
    <3>. QED BY <3>1, <3>2, <3>3 DEF Dns
  <2>. QED BY <2>1, <2>2
<1>3. CASE dns.retries > MaxRetries
  <2>1. p = [dns EXCEPT !.life = "killed"]
    BY <1>3 DEF Polled
  <2>2. d = p
    BY <2>1 DEF Connected, Dns
  <2>. QED BY <1>3, <2>1, <2>2 DEF Dns
<1>4. CASE ~(dns.retries > MaxRetries) /\ dns.life = "open"
  <2>1. p = Ask(dns)
    BY <1>4 DEF Polled
  <2>2. p.life = "open" /\ d = p
    BY <1>2, <1>4, <2>1 DEF Connected
  <2>. QED BY <1>1, <1>2, <1>4, <2>1, <2>2
<1>5. CASE ~(dns.retries > MaxRetries) /\ dns.life = "connecting"
  <2>1. p = dns
    BY <1>5 DEF Polled
  <2>2. d = [Ask(dns) EXCEPT !.life = "open"]
    BY <1>5, <2>1 DEF Connected
  <2>. QED BY <1>1, <1>2, <1>5, <2>2 DEF Dns
<1>. QED BY <1>3, <1>4, <1>5

\* MG_EV_CLOSE ends a lookup that still has its request.
LEMMA DnsClosedKeeps ==
  ASSUME LookupInv, pc = "poll", dns.life = "killed", DnsClosed, todo' = {}, UNCHANGED pc
  PROVE  LookupInv'
<1>1. /\ dns' = [life |-> "closed", queued |-> 0, retries |-> 0, req |-> FALSE]
      /\ asked' = asked /\ calls' = IF dns.req THEN calls + 1 ELSE calls
  BY DEF DnsClosed, DestroyDns, ResolveFailed, Unresolved
<1>2. calls' = 1
  BY <1>1 DEF LookupInv, CalledOnce
<1>. QED BY <1>1, <1>2 DEF LookupInv, LookupLife, QueryCount, CalledOnce,
              LastRetryUnsent, Dns

\* A query, an answer, or the last retry.
LEMMA DnsServedKeeps ==
  ASSUME LookupInv, pc = "poll", "dns" \in todo, dns.life \in {"connecting", "open"},
         DnsServed, todo' = {}, UNCHANGED <<pc, fd>>
  PROVE  LookupInv'
<1>. DEFINE d == Connected(Polled(dns))
<1>1. /\ dns \in Dns /\ asked \in Nat /\ calls = 0 /\ dns.req
      /\ asked <= MaxRetries /\ MaxRetries \in Nat \ {0}
      /\ dns.retries \in Nat /\ dns.queued \in Nat
  BY NamedAssumption DEF LookupInv, LookupLife, CalledOnce, LastRetryUnsent,
     NamedAssumption, Dns
<1>2. /\ d \in Dns /\ d.req
      /\ \/ d.life = "killed" /\ dns.retries > MaxRetries
         \/ /\ d.life = "open" /\ dns.retries <= MaxRetries
            /\ \/ d.retries = dns.retries /\ d.queued = dns.queued
               \/ d.retries = dns.retries + 1 /\ d.queued = dns.queued + 1
  BY <1>1, AskedShape
<1>3. \/ d.life = "killed" /\ dns' = d /\ UNCHANGED <<asked, calls>>
      \/ d.life # "killed" /\ (\E g : Answered(d, g)) /\ UNCHANGED asked
      \/ d.life # "killed" /\ Sent(d) /\ UNCHANGED calls
  BY DEF DnsServed, Unresolved
<1>. HIDE DEF d
<1>4. CASE d.life = "killed" /\ dns' = d /\ UNCHANGED <<asked, calls>>
  BY <1>1, <1>2, <1>4 DEF LookupInv, LookupLife, QueryCount, CalledOnce, LastRetryUnsent
<1>5. CASE d.life # "killed" /\ (\E g : Answered(d, g)) /\ UNCHANGED asked
  <2>1. PICK g : Answered(d, g)
    BY <1>5
  <2>2. /\ dns' = [d EXCEPT !.life = "killed", !.req = (g = "none")]
        /\ calls' = IF g = "none" THEN 0 ELSE 1
    <3>1. dns' = [d EXCEPT !.life = "killed", !.req = (g = "none")]
      BY <2>1 DEF Answered
    <3>2. CASE g = "none"
      BY <1>1, <2>1, <3>1, <3>2 DEF Answered, Unresolved
    <3>3. CASE g # "none"
      BY <1>1, <2>1, <3>1, <3>3 DEF Answered, ResolveTo, ResolveFailed
    <3>. QED BY <3>2, <3>3
  <2>. QED BY <1>1, <1>2, <1>5, <2>2 DEF LookupInv, LookupLife, QueryCount,
                CalledOnce, LastRetryUnsent, Dns
<1>6. CASE d.life # "killed" /\ Sent(d) /\ UNCHANGED calls
  <2>1. d.life = "open" /\ d.queued \in Nat /\ d.retries \in Nat
    BY <1>2, <1>6 DEF Dns
  <2>2. asked + (IF d.queued > 0 THEN 1 ELSE 0) <= d.retries
    BY <1>1, <1>2, <2>1 DEF LookupInv, QueryCount
  <2>3. CASE dns' = d /\ UNCHANGED asked
    BY <1>1, <1>2, <1>6, <2>1, <2>2, <2>3
       DEF LookupInv, LookupLife, QueryCount, CalledOnce, LastRetryUnsent
  <2>4. CASE /\ "w" \in fd["dns"] /\ d.queued > 0 /\ dns' = [d EXCEPT !.queued = 0]
             /\ asked' = asked + 1 \/ UNCHANGED asked
    <3>1. asked + 1 <= MaxRetries
      BY <1>1, <1>2, <2>1, <2>4 DEF LookupInv, QueryCount
    <3>2. asked' \in Nat /\ asked' <= MaxRetries /\ asked' <= d.retries
      BY <1>1, <2>1, <2>2, <2>4, <3>1
    <3>3. /\ dns' \in Dns /\ dns'.life = "open" /\ dns'.req /\ dns'.queued = 0
          /\ dns'.retries = d.retries
      BY <1>2, <2>1, <2>4 DEF Dns
    <3>. QED BY <1>1, <1>6, <3>2, <3>3
             DEF LookupInv, LookupLife, QueryCount, CalledOnce, LastRetryUnsent
  <2>. QED BY <1>6, <2>3, <2>4 DEF Sent
<1>. QED BY <1>3, <1>4, <1>5, <1>6

-----------------------------------------------------------------------------
(* The lookup ends once, and asks max_retries times.                       *)

\* The invariant of the lookup.
THEOREM LookupInvariance == Spec => []LookupInv
<1>1. Init => LookupInv
  BY LookupInit
<1>2. LookupInv /\ [Next]_vars => LookupInv'
  <2>1. SUFFICES ASSUME LookupInv, [Next]_vars PROVE LookupInv'
    OBVIOUS
  <2>2. CASE Call
    BY <2>1, <2>2, CallKeeps
  <2>3. CASE Select
    BY <2>1, <2>3, SelectKeeps
  <2>4. CASE PollDone \/ Return
    BY <2>1, <2>4, LookupUntouched DEF PollDone, Return, lookupVars
  <2>5. CASE HandleDns
    <3>1. /\ pc = "poll" /\ "dns" \in todo /\ todo' = {} /\ UNCHANGED <<pc, fd>>
          /\ dns.life \in {"connecting", "open", "killed"}
      BY <2>1, <2>5 DEF HandleDns, LookupInv, LookupLife
    <3>2. CASE dns.life = "killed"
      BY <2>1, <2>5, <3>1, <3>2, DnsClosedKeeps DEF HandleDns
    <3>3. CASE dns.life # "killed"
      BY <2>1, <2>5, <3>1, <3>3, DnsServedKeeps DEF HandleDns
    <3>. QED BY <3>2, <3>3
  <2>6. CASE HandleConn
    BY <2>1, <2>6, LookupUntouched DEF HandleConn, lookupVars
  <2>7. CASE Timeout \/ (\E g \in Datagrams : NameServer(g)) \/ Lose \/ Server
    <3>1. UNCHANGED <<dns, asked, calls, pc, todo, fd>>
      BY <2>7 DEF Timeout, NameServer, Lose, Server, clientVars
    <3>. QED BY <2>1, <3>1, LookupUntouched
  <2>8. CASE UNCHANGED vars
    BY <2>1, <2>8, LookupUntouched DEF vars, lookupVars
  <2>. QED BY <2>1, <2>2, <2>3, <2>4, <2>5, <2>6, <2>7, <2>8 DEF Next, Running, Terminated
<1>. QED BY <1>1, <1>2, PTL DEF Spec

\* resolve_cb runs at most once, whatever the name server sends and when.
THEOREM CalledOnceHolds == Spec => []CalledOnce
<1>1. LookupInv => CalledOnce
  BY DEF LookupInv
<1>. QED BY <1>1, LookupInvariance, PTL

\* However many retries are configured, the last of them is never on the wire.
THEOREM LastRetryUnsentHolds == Spec => []LastRetryUnsent
<1>1. LookupInv => LastRetryUnsent
  BY DEF LookupInv
<1>. QED BY <1>1, LookupInvariance, PTL

-----------------------------------------------------------------------------
(* Induction, and the size of a chunk.                                     *)

Less == {p \in Nat \X Nat : p[1] < p[2]}

\* A set of natural numbers that has an element has a smallest one.
LEMMA SmallestExists ==
  ASSUME NEW T \in SUBSET Nat, T # {}
  PROVE  \E x \in T : \A y \in T : x <= y
<1>1. IsWellFoundedOn(Less, Nat)
  BY NatLessThanWellFounded DEF OpToRel, Less
<1>2. PICK x \in T : \A y \in T : ~(<<y, x>> \in Less)
  BY <1>1, WFMin
<1>3. ASSUME NEW y \in T PROVE x <= y
  <2>1. x \in Nat /\ y \in Nat /\ <<y, x>> \notin Less
    BY <1>2
  <2>. QED BY <2>1 DEF Less
<1>. QED BY <1>3

\* Induction on the natural numbers, for a set instead of a predicate.
LEMMA SetInduction ==
  ASSUME NEW T \in SUBSET Nat, 0 \in T, \A n \in T : n + 1 \in T
  PROVE  T = Nat
<1>1. SUFFICES ASSUME Nat \ T # {} PROVE FALSE
  OBVIOUS
<1>2. PICK x \in Nat \ T : \A y \in Nat \ T : x <= y
  <2>1. Nat \ T \in SUBSET Nat
    OBVIOUS
  <2>. QED BY <1>1, <2>1, SmallestExists
<1>3. x # 0 /\ x - 1 \in Nat /\ x - 1 \in T
  BY <1>2
<1>. QED BY <1>2, <1>3

\* v holds the numbers that the first digits after position i of s make.
Values(v, s, i, k) ==
  v[0] = 0 /\ \A j \in 1..k : v[j] = Base * v[j - 1] + DigitValue[s[i + j]]

\* The number of the code's loop is the last of the numbers its digits make one by
\* one (ChunkedBody leaves it to a recursive function).
LEMMA SizeOfRec ==
  ASSUME NEW s, NEW i \in Nat, NEW k \in Nat
  PROVE  \E v : SizeOf(s, i, k) = v[k] /\ Values(v, s, i, k)
<1>. DEFINE Is(g, n) ==
       g = [j \in 0..n |-> IF j = 0 THEN 0 ELSE Base * g[j - 1] + DigitValue[s[i + j]]]
            T == {n \in Nat : \E g : Is(g, n)}
<1>1. 0 \in T
  <2>1. Is([j \in 0..0 |-> 0], 0)
    OBVIOUS
  <2>. QED BY <2>1
<1>2. ASSUME NEW n \in T PROVE n + 1 \in T
  <2>1. PICK g : Is(g, n)
    OBVIOUS
  <2>. DEFINE h == [j \in 0..(n + 1) |-> IF j = 0 THEN 0 ELSE Base * g[j - 1] + DigitValue[s[i + j]]]
  <2>2. n \in Nat /\ n + 1 \in Nat
    OBVIOUS
  <2>3. \A j \in 0..n : h[j] = g[j]
    BY <2>1, <2>2
  <2>4. ASSUME NEW j \in 0..(n + 1), j # 0 PROVE h[j - 1] = g[j - 1]
    <3>1. j - 1 \in 0..n
      BY <2>2, <2>4
    <3>. QED BY <2>3, <3>1
  <2>5. Is(h, n + 1)
    BY <2>2, <2>4
  <2>. QED BY <2>2, <2>5
<1>3. k \in T
  <2>. HIDE DEF T
  <2>1. T \in SUBSET Nat
    BY DEF T
  <2>. QED BY <1>1, <1>2, <2>1, SetInduction
<1>4. \E g : Is(g, k)
  BY <1>3
<1>. DEFINE v == CHOOSE g : Is(g, k)
<1>5. Is(v, k)
  <2>. HIDE DEF Is
  <2>. QED BY <1>4, Zenon
<1>6. SizeOf(s, i, k) = v[k]
  BY DEF SizeOf
<1>. HIDE DEF v
<1>7. Values(v, s, i, k)
  BY <1>5 DEF Values
<1>. QED BY <1>6, <1>7

SameDigits(s, i, t, m, k) ==
  \A j \in 1..k : s[i + j] \in Digits /\ s[i + j] = t[m + j]

\* The number depends on nothing but the digits, and is one.
LEMMA SizeOfDigits ==
  ASSUME NEW s, NEW t, NEW i \in Nat, NEW m \in Nat, NEW k \in Nat,
         SameDigits(s, i, t, m, k)
  PROVE  SizeOf(s, i, k) \in Nat /\ SizeOf(s, i, k) = SizeOf(t, m, k)
<1>1. PICK v : SizeOf(s, i, k) = v[k] /\ Values(v, s, i, k)
  BY SizeOfRec
<1>2. PICK w : SizeOf(t, m, k) = w[k] /\ Values(w, t, m, k)
  BY SizeOfRec
<1>. DEFINE T == {n \in Nat : n <= k => v[n] \in Nat /\ v[n] = w[n]}
<1>3. 0 \in T
  BY <1>1, <1>2 DEF Values
<1>4. ASSUME NEW n \in T PROVE n + 1 \in T
  <2>1. SUFFICES ASSUME n + 1 <= k PROVE v[n + 1] \in Nat /\ v[n + 1] = w[n + 1]
    OBVIOUS
  <2>2. v[n] \in Nat /\ v[n] = w[n] /\ n + 1 \in 1..k /\ n + 1 \in 0..k /\ n + 1 # 0 /\ (n + 1) - 1 = n
    BY <2>1
  <2>3. DigitValue[s[i + (n + 1)]] \in Nat /\ s[i + (n + 1)] = t[m + (n + 1)]
    BY <2>2 DEF SameDigits, DigitValue, Digits
  <2>4. /\ v[n + 1] = Base * v[n] + DigitValue[s[i + (n + 1)]]
        /\ w[n + 1] = Base * w[n] + DigitValue[t[m + (n + 1)]]
    BY <1>1, <1>2, <2>2 DEF Values
  <2>. QED BY <2>2, <2>3, <2>4 DEF Base
<1>5. k \in T
  <2>. HIDE DEF T
  <2>1. T \in SUBSET Nat
    BY DEF T
  <2>. QED BY <1>3, <1>4, <2>1, SetInduction
<1>. QED BY <1>1, <1>2, <1>5

-----------------------------------------------------------------------------
(* One chunk, and all whole chunks of a buffer.                            *)

\* DigitRun counts the digits up to the first other token.
LEMMA DigitRunIs ==
  ASSUME NEW s \in Seq(Tokens), NEW i \in 0..Len(s), NEW m \in 0..(Len(s) - i),
         \A j \in 1..m : s[i + j] \in Digits,
         m < Len(s) - i => s[i + m + 1] \notin Digits
  PROVE  DigitRun(s, i) = m
<1>. DEFINE D == {k \in 1..(Len(s) - i) : \A j \in 1..k : s[i + j] \in Digits}
<1>0. Len(s) \in Nat /\ i \in Nat /\ m \in Nat
  OBVIOUS
<1>1. D = 1..m
  <2>1. ASSUME NEW k \in D PROVE k \in 1..m
    <3>1. SUFFICES ASSUME k > m PROVE FALSE
      BY <1>0
    <3>2. m + 1 \in 1..k /\ m < Len(s) - i
      BY <1>0, <3>1
    <3>3. s[i + (m + 1)] \in Digits
      BY <3>2
    <3>4. i + (m + 1) = i + m + 1
      BY <1>0
    <3>. QED BY <3>2, <3>3, <3>4
  <2>2. ASSUME NEW k \in 1..m PROVE k \in D
    <3>1. k \in 1..(Len(s) - i)
      BY <1>0
    <3>2. ASSUME NEW j \in 1..k PROVE s[i + j] \in Digits
      <4>1. j \in 1..m
        BY <1>0
      <4>. QED BY <4>1
    <3>. QED BY <3>1, <3>2
  <2>. HIDE DEF D
  <2>. QED BY <2>1, <2>2
<1>2. Cardinality(1..m) = m
  <2>1. Cardinality(1..m) = IF 1 > m THEN 0 ELSE m - 1 + 1
    BY <1>0, FS_Interval
  <2>. QED BY <1>0, <2>1
<1>3. DigitRun(s, i) = Cardinality(D)
  BY DEF DigitRun
<1>. HIDE DEF D
<1>. QED BY <1>1, <1>2, <1>3

\* As many digits follow as DigitRun counts.
LEMMA DigitRunShape ==
  ASSUME NEW s \in Seq(Tokens), NEW i \in 0..Len(s)
  PROVE  /\ DigitRun(s, i) \in 0..(Len(s) - i)
         /\ \A j \in 1..DigitRun(s, i) : s[i + j] \in Digits
<1>0. Len(s) \in Nat /\ i \in Nat
  OBVIOUS
<1>. DEFINE T == {p \in 1..(Len(s) - i) : s[i + p] \notin Digits}
<1>1. \E m \in 0..(Len(s) - i) : /\ \A j \in 1..m : s[i + j] \in Digits
                                 /\ m < Len(s) - i => s[i + m + 1] \notin Digits
  <2>1. CASE T = {}
    <3>. DEFINE m == Len(s) - i
    <3>1. m \in 0..(Len(s) - i) /\ ~(m < Len(s) - i)
      BY <1>0
    <3>2. ASSUME NEW j \in 1..m PROVE s[i + j] \in Digits
      BY <2>1
    <3>. HIDE DEF m
    <3>. QED BY <3>1, <3>2
  <2>2. CASE T # {}
    <3>1. PICK x \in T : \A y \in T : x <= y
      <4>1. T \in SUBSET Nat
        OBVIOUS
      <4>. HIDE DEF T
      <4>. QED BY <2>2, <4>1, SmallestExists
    <3>2. x \in 1..(Len(s) - i) /\ s[i + x] \notin Digits /\ x - 1 \in 0..(Len(s) - i)
          /\ i + (x - 1) + 1 = i + x
      BY <1>0
    <3>3. ASSUME NEW j \in 1..(x - 1) PROVE s[i + j] \in Digits
      <4>1. j \in 1..(Len(s) - i) /\ ~(x <= j)
        BY <1>0, <3>2
      <4>. QED BY <3>1, <4>1
    <3>. QED BY <3>2, <3>3
  <2>. QED BY <2>1, <2>2
<1>2. PICK m \in 0..(Len(s) - i) : /\ \A j \in 1..m : s[i + j] \in Digits
                                   /\ m < Len(s) - i => s[i + m + 1] \notin Digits
  BY <1>1
<1>3. DigitRun(s, i) = m
  BY <1>2, DigitRunIs
<1>. QED BY <1>2, <1>3

\* A chunk that was found is inside the buffer.
LEMMA ParsedShape ==
  ASSUME NEW s \in Seq(Tokens), NEW i \in 0..Len(s)
  PROVE  LET c == ParseChunk(s, i)
         IN  /\ c.total \in Nat /\ c.data \in Seq(Tokens)
             /\ i + c.total <= Len(s)
<1>. DEFINE k == DigitRun(s, i)
            n == SizeOf(s, i, k)
<1>1. k \in Nat /\ i + k <= Len(s) /\ Len(s) \in Nat /\ i \in Nat
      /\ \A j \in 1..k : s[i + j] \in Digits
  BY DigitRunShape
<1>2. n \in Nat
  <2>. HIDE DEF k
  <2>1. SameDigits(s, i, s, i, k)
    BY <1>1 DEF SameDigits
  <2>. QED BY <1>1, <2>1, SizeOfDigits
<1>. DEFINE ok == /\ k \in 1..MaxDigits /\ NewlineAt(s, i + k + 1)
                  /\ NewlineAt(s, i + k + 1 + n + 1)
<1>3. ParseChunk(s, i) = IF ok THEN [total |-> k + n + 2, data |-> SubSeq(s, i + k + 2, i + k + 1 + n)]
                               ELSE [total |-> 0, data |-> <<>>]
  BY DEF ParseChunk
<1>4. CASE ok
  <2>1. i + k + 1 + n + 1 <= Len(s)
    BY <1>4 DEF NewlineAt
  <2>. HIDE DEF k, n, ok
  <2>2. SubSeq(s, i + k + 2, i + k + 1 + n) \in Seq(Tokens)
    BY <1>1, <1>2, <2>1, SubSeqProperties
  <2>3. ParseChunk(s, i) = [total |-> k + n + 2, data |-> SubSeq(s, i + k + 2, i + k + 1 + n)]
    BY <1>3, <1>4
  <2>4. k + n + 2 \in Nat /\ i + (k + n + 2) <= Len(s)
    BY <1>1, <1>2, <2>1
  <2>. QED BY <2>2, <2>3, <2>4
<1>5. CASE ~ok
  <2>. HIDE DEF ok, k, n
  <2>1. ParseChunk(s, i) = [total |-> 0, data |-> <<>>]
    BY <1>3, <1>5
  <2>. QED BY <1>1, <2>1
<1>. QED BY <1>4, <1>5

\* What Chunks says at position i, given what it says further on.
ChunkAt(s, g, i) ==
  LET c == ParseChunk(s, i)
  IN  IF c.total = 0 THEN [data |-> <<>>, next |-> i, last |-> FALSE]
      ELSE IF c.data = <<>>
        THEN [data |-> <<>>, next |-> i + c.total, last |-> TRUE]
        ELSE LET more == g[i + c.total]
             IN  [more EXCEPT !.data = c.data \o @]

\* What Chunks makes from a position on follows from the chunk that is there.
LEMMA ChunksRec ==
  ASSUME NEW s \in Seq(Tokens)
  PROVE  \A i \in 0..Len(s) : Chunks(s)[i] = ChunkAt(s, Chunks(s), i)
<1>. DEFINE L == Len(s)
            Is(g, a) == g = [i \in a..L |-> ChunkAt(s, g, i)]
            T == {m \in Nat : m <= L => \E g : Is(g, L - m)}
<1>0. L \in Nat
  OBVIOUS
<1>. HIDE DEF L
<1>1. ASSUME NEW i \in 0..L, NEW g, NEW h, \A j \in (i + 1)..L : g[j] = h[j]
      PROVE  ChunkAt(s, g, i) = ChunkAt(s, h, i)
  <2>. DEFINE c == ParseChunk(s, i)
  <2>1. c.total \in Nat /\ i + c.total <= L
    BY ParsedShape DEF L
  <2>. HIDE DEF c
  <2>2. CASE c.total = 0
    BY <2>2 DEF ChunkAt, c
  <2>3. CASE c.total # 0
    <3>1. i + c.total \in (i + 1)..L
      BY <1>0, <2>1, <2>3
    <3>2. g[i + c.total] = h[i + c.total]
      BY <1>1, <3>1
    <3>. QED BY <3>2 DEF ChunkAt, c
  <2>. QED BY <2>2, <2>3
<1>2. 0 \in T
  <2>. DEFINE g == [i \in L..L |-> ChunkAt(s, <<>>, i)]
  <2>1. Is(g, L)
    <3>1. ASSUME NEW i \in L..L PROVE ChunkAt(s, <<>>, i) = ChunkAt(s, g, i)
      <4>1. i \in 0..L /\ (i + 1)..L = {}
        BY <1>0
      <4>. HIDE DEF g
      <4>. QED BY <1>1, <4>1
    <3>. QED BY <3>1
  <2>2. L - 0 = L
    BY <1>0
  <2>. HIDE DEF g, Is
  <2>. QED BY <2>1, <2>2
<1>3. ASSUME NEW m \in T PROVE m + 1 \in T
  <2>1. m \in Nat /\ (m <= L => \E g : Is(g, L - m))
    OBVIOUS
  <2>2. SUFFICES ASSUME m + 1 <= L PROVE \E g : Is(g, L - (m + 1))
    BY <2>1
  <2>3. PICK g : Is(g, L - m)
    <3>. HIDE DEF Is
    <3>. QED BY <1>0, <2>1, <2>2
  <2>. DEFINE h == [i \in (L - (m + 1))..L |-> ChunkAt(s, g, i)]
  <2>4. ASSUME NEW j \in (L - m)..L PROVE g[j] = h[j]
    <3>1. j \in (L - (m + 1))..L
      BY <1>0, <2>1, <2>2
    <3>. QED BY <2>3, <3>1
  <2>5. ASSUME NEW i \in (L - (m + 1))..L PROVE ChunkAt(s, g, i) = ChunkAt(s, h, i)
    <3>1. i \in 0..L
      BY <1>0, <2>1, <2>2
    <3>2. ASSUME NEW j \in (i + 1)..L PROVE g[j] = h[j]
      <4>1. j \in (L - m)..L
        BY <1>0, <2>1, <2>2
      <4>. HIDE DEF h
      <4>. QED BY <2>4, <4>1
    <3>. HIDE DEF h
    <3>. QED BY <1>1, <3>1, <3>2
  <2>6. Is(h, L - (m + 1))
    BY <2>5
  <2>. HIDE DEF Is
  <2>. QED BY <2>6
<1>4. L \in T
  <2>. HIDE DEF T
  <2>1. T \in SUBSET Nat
    BY DEF T
  <2>. QED BY <1>0, <1>2, <1>3, <2>1, SetInduction
<1>5. \E g : Is(g, 0)
  <2>1. L <= L /\ L - L = 0
    BY <1>0
  <2>. HIDE DEF Is
  <2>. QED BY <1>4, <2>1
<1>. DEFINE f == CHOOSE g : Is(g, 0)
<1>6. Is(f, 0)
  <2>. HIDE DEF Is
  <2>. QED BY <1>5, Zenon
<1>7. Chunks(s) = f
  BY DEF Chunks, ChunkAt, L
<1>. HIDE DEF f
<1>8. \A i \in 0..L : f[i] = ChunkAt(s, f, i)
  BY <1>6
<1>. QED BY <1>7, <1>8 DEF L

\* Chunks returns data, and a position behind the one it started from.
LEMMA ChunksShape ==
  ASSUME NEW s \in Seq(Tokens), NEW b \in 0..Len(s)
  PROVE  Chunks(s)[b] \in [data: Seq(Tokens), next: b..Len(s), last: BOOLEAN]
<1>. DEFINE L == Len(s)
            Good(i) == Chunks(s)[i] \in [data: Seq(Tokens), next: i..L, last: BOOLEAN]
            T == {m \in Nat : \A i \in 0..L : L - i <= m => Good(i)}
<1>0. L \in Nat
  OBVIOUS
<1>. HIDE DEF L
<1>1. ASSUME NEW i \in 0..L, \A j \in (i + 1)..L : Good(j) PROVE Good(i)
  <2>. DEFINE c == ParseChunk(s, i)
  <2>1. c.total \in Nat /\ c.data \in Seq(Tokens) /\ i + c.total <= L
    BY ParsedShape DEF L
  <2>2. Chunks(s)[i] = ChunkAt(s, Chunks(s), i)
    BY ChunksRec DEF L
  <2>3. <<>> \in Seq(Tokens)
    OBVIOUS
  <2>. HIDE DEF c
  <2>4. CASE c.total = 0
    <3>1. Chunks(s)[i] = [data |-> <<>>, next |-> i, last |-> FALSE]
      BY <2>2, <2>4 DEF ChunkAt, c
    <3>. QED BY <1>0, <2>3, <3>1
  <2>5. CASE c.total # 0 /\ c.data = <<>>
    <3>1. Chunks(s)[i] = [data |-> <<>>, next |-> i + c.total, last |-> TRUE]
      BY <2>2, <2>5 DEF ChunkAt, c
    <3>2. i + c.total \in i..L
      BY <1>0, <2>1
    <3>. QED BY <2>3, <3>1, <3>2
  <2>6. CASE c.total # 0 /\ c.data # <<>>
    <3>. DEFINE more == Chunks(s)[i + c.total]
    <3>1. i + c.total \in (i + 1)..L /\ i + c.total \in i..L
      BY <1>0, <2>1, <2>6
    <3>2. more \in [data: Seq(Tokens), next: (i + c.total)..L, last: BOOLEAN]
      BY <1>1, <3>1
    <3>3. Chunks(s)[i] = [more EXCEPT !.data = c.data \o @]
      BY <2>2, <2>6 DEF ChunkAt, c
    <3>. HIDE DEF more
    <3>4. more.data \in Seq(Tokens) /\ more.next \in i..L
      BY <1>0, <2>1, <3>1, <3>2
    <3>5. c.data \o more.data \in Seq(Tokens)
      BY <2>1, <3>4, ConcatProperties
    <3>. QED BY <3>2, <3>3, <3>4, <3>5
  <2>. QED BY <2>4, <2>5, <2>6
<1>. HIDE DEF Good
<1>2. 0 \in T
  <2>1. ASSUME NEW i \in 0..L, L - i <= 0 PROVE Good(i)
    <3>1. (i + 1)..L = {}
      BY <1>0, <2>1
    <3>. QED BY <1>1, <3>1
  <2>. QED BY <2>1
<1>3. ASSUME NEW m \in T PROVE m + 1 \in T
  <2>1. m \in Nat /\ \A i \in 0..L : L - i <= m => Good(i)
    OBVIOUS
  <2>2. ASSUME NEW i \in 0..L, L - i <= m + 1 PROVE Good(i)
    <3>1. ASSUME NEW j \in (i + 1)..L PROVE Good(j)
      <4>1. j \in 0..L /\ L - j <= m
        BY <1>0, <2>1, <2>2
      <4>. QED BY <2>1, <4>1
    <3>. QED BY <1>1, <3>1
  <2>. QED BY <2>1, <2>2
<1>4. L \in T
  <2>. HIDE DEF T
  <2>1. T \in SUBSET Nat
    BY DEF T
  <2>. QED BY <1>0, <1>2, <1>3, <2>1, SetInduction
<1>5. b \in 0..L /\ L - b <= L
  BY <1>0 DEF L
<1>6. Good(b)
  BY <1>4, <1>5
<1>. QED BY <1>6 DEF Good, L

\* What mg_handle_chunked leaves in the buffer, and how much of it is body.
LEMMA HandleChunkedShape ==
  ASSUME NEW s \in Seq(Tokens), NEW b \in 0..Len(s)
  PROVE  LET h == HandleChunked(s, b)
         IN  h.buf \in Seq(Tokens) /\ h.bodyLen \in 0..Len(h.buf) /\ h.last \in BOOLEAN
<1>. DEFINE c == Chunks(s)[b]
            x == SubSeq(s, 1, b)
            z == SubSeq(s, c.next + 1, Len(s))
<1>1. c.data \in Seq(Tokens) /\ c.next \in b..Len(s) /\ c.last \in BOOLEAN
  BY ChunksShape
<1>2. HandleChunked(s, b) = [buf |-> x \o c.data \o z, bodyLen |-> b + Len(c.data), last |-> c.last]
  BY DEF HandleChunked
<1>. HIDE DEF c
<1>3. b \in Nat /\ Len(s) \in Nat /\ b <= Len(s) /\ c.next \in Nat /\ Len(c.data) \in Nat
  BY <1>1
<1>4. x \in Seq(Tokens) /\ Len(x) = b
  BY <1>3, SubSeqProperties
<1>5. z \in Seq(Tokens) /\ Len(z) \in Nat
  BY <1>1, <1>3, SubSeqProperties
<1>. HIDE DEF x, z
<1>6. x \o c.data \in Seq(Tokens) /\ Len(x \o c.data) = b + Len(c.data)
  BY <1>1, <1>4, ConcatProperties
<1>7. x \o c.data \o z \in Seq(Tokens) /\ Len(x \o c.data \o z) = b + Len(c.data) + Len(z)
  BY <1>5, <1>6, ConcatProperties
<1>. QED BY <1>1, <1>2, <1>3, <1>5, <1>7

-----------------------------------------------------------------------------
(* What the server sends.                                                  *)

\* Two sequences of tokens put together.
LEMMA Joined ==
  ASSUME NEW a \in Seq(Tokens), NEW b \in Seq(Tokens)
  PROVE  /\ a \o b \in Seq(Tokens) /\ Len(a) \in Nat /\ Len(b) \in Nat
         /\ Len(a \o b) = Len(a) + Len(b)
         /\ \A j \in 1..Len(a) : (a \o b)[j] = a[j]
         /\ \A j \in 1..Len(b) : (a \o b)[Len(a) + j] = b[j]
         /\ Len(b) > 0 => (a \o b)[Len(a) + 1] = b[1]
<1>1. /\ a \o b \in Seq(Tokens) /\ Len(a) \in Nat /\ Len(b) \in Nat
      /\ Len(a \o b) = Len(a) + Len(b)
      /\ \A i \in 1..(Len(a) + Len(b)) : (a \o b)[i] = IF i <= Len(a) THEN a[i] ELSE b[i - Len(a)]
  BY ConcatProperties
<1>2. ASSUME NEW j \in 1..Len(a) PROVE (a \o b)[j] = a[j]
  <2>1. j \in 1..(Len(a) + Len(b)) /\ j <= Len(a)
    BY <1>1
  <2>. QED BY <1>1, <2>1
<1>3. ASSUME NEW j \in 1..Len(b) PROVE (a \o b)[Len(a) + j] = b[j]
  <2>1. Len(a) + j \in 1..(Len(a) + Len(b)) /\ ~(Len(a) + j <= Len(a)) /\ (Len(a) + j) - Len(a) = j
    BY <1>1
  <2>. QED BY <1>1, <2>1
<1>4. ASSUME Len(b) > 0 PROVE (a \o b)[Len(a) + 1] = b[1]
  <2>1. 1 \in 1..Len(b)
    BY <1>1, <1>4
  <2>. QED BY <1>3, <2>1
<1>. QED BY <1>1, <1>2, <1>3, <1>4

\* The parts of the chunks of a reply.
LEMMA ChunkShape ==
  ASSUME NEW chunks \in Bodies
  PROVE  /\ chunks \in Seq(Chunk) /\ Len(chunks) \in Nat
         /\ \A k \in 1..Len(chunks) :
              /\ chunks[k].size \in Seq(Digits) /\ chunks[k].size \in Seq(Tokens)
              /\ Len(chunks[k].size) \in 1..MaxDigits
              /\ chunks[k].data \in Seq(Tokens) /\ Len(chunks[k].data) \in Nat \ {0}
              /\ SizeOf(chunks[k].size, 0, Len(chunks[k].size)) = Len(chunks[k].data)
<1>1. chunks \in Seq(Chunk) /\ Len(chunks) \in Nat
  BY NamedAssumption DEF NamedAssumption
<1>2. ASSUME NEW k \in 1..Len(chunks)
      PROVE  /\ chunks[k].size \in Seq(Digits) /\ chunks[k].size \in Seq(Tokens)
             /\ Len(chunks[k].size) \in 1..MaxDigits
             /\ chunks[k].data \in Seq(Tokens) /\ Len(chunks[k].data) \in Nat \ {0}
             /\ SizeOf(chunks[k].size, 0, Len(chunks[k].size)) = Len(chunks[k].data)
  <2>1. chunks[k] \in Chunk
    BY <1>1, ElementOfSeq
  <2>2. chunks[k].size \in Seq(Digits) /\ chunks[k].data \in Seq(Tokens)
    BY <2>1 DEF Chunk
  <2>3. Digits \subseteq Tokens
    BY DEF Tokens
  <2>4. chunks[k].size \in Seq(Tokens)
    BY <2>2, <2>3, SeqMonotonic
  <2>. QED BY <2>1, <2>2, <2>4 DEF Chunk
<1>. QED BY <1>1, <1>2

\* Each chunk is put on the wire behind those before it.
LEMMA EncodedRec ==
  ASSUME NEW chunks \in Bodies
  PROVE  /\ Encoded[chunks][0] = <<>>
         /\ \A k \in 1..Len(chunks) :
              Encoded[chunks][k] = Encoded[chunks][k - 1] \o Wire(chunks[k])
<1>. DEFINE Is(g, n) == g = [k \in 0..n |-> IF k = 0 THEN <<>> ELSE g[k - 1] \o Wire(chunks[k])]
            T == {n \in Nat : \E g : Is(g, n)}
<1>1. 0 \in T
  <2>1. Is([k \in 0..0 |-> <<>>], 0)
    OBVIOUS
  <2>. QED BY <2>1
<1>2. ASSUME NEW n \in T PROVE n + 1 \in T
  <2>1. PICK g : Is(g, n)
    OBVIOUS
  <2>. DEFINE h == [k \in 0..(n + 1) |-> IF k = 0 THEN <<>> ELSE g[k - 1] \o Wire(chunks[k])]
  <2>2. n \in Nat /\ n + 1 \in Nat
    OBVIOUS
  <2>3. ASSUME NEW k \in 0..n PROVE h[k] = g[k]
    <3>1. k \in 0..(n + 1)
      BY <2>2
    <3>. QED BY <2>1, <3>1
  <2>4. ASSUME NEW k \in 0..(n + 1), k # 0 PROVE h[k - 1] = g[k - 1]
    <3>1. k - 1 \in 0..n
      BY <2>2, <2>4
    <3>. QED BY <2>3, <3>1
  <2>5. Is(h, n + 1)
    BY <2>2, <2>4
  <2>. QED BY <2>2, <2>5
<1>3. Len(chunks) \in T
  <2>. HIDE DEF T
  <2>1. T \in SUBSET Nat
    BY DEF T
  <2>. QED BY <1>1, <1>2, <2>1, SetInduction, ChunkShape
<1>4. \E g : Is(g, Len(chunks))
  BY <1>3
<1>. DEFINE f == CHOOSE g : Is(g, Len(chunks))
<1>5. Is(f, Len(chunks))
  <2>. HIDE DEF Is
  <2>. QED BY <1>4, Zenon
<1>6. Encoded[chunks] = f
  BY DEF Encoded
<1>. HIDE DEF f
<1>7. 0 \in 0..Len(chunks) /\ \A k \in 1..Len(chunks) : k \in 0..Len(chunks) /\ k # 0
  BY ChunkShape
<1>8. f[0] = <<>>
  BY <1>5, <1>7
<1>9. ASSUME NEW k \in 1..Len(chunks) PROVE f[k] = f[k - 1] \o Wire(chunks[k])
  BY <1>5, <1>7
<1>. QED BY <1>6, <1>8, <1>9

\* Each chunk adds its data to the body.
LEMMA PayloadRec ==
  ASSUME NEW chunks \in Bodies
  PROVE  /\ Payload[chunks][0] = <<>>
         /\ \A k \in 1..Len(chunks) :
              Payload[chunks][k] = Payload[chunks][k - 1] \o chunks[k].data
<1>. DEFINE Is(g, n) == g = [k \in 0..n |-> IF k = 0 THEN <<>> ELSE g[k - 1] \o chunks[k].data]
            T == {n \in Nat : \E g : Is(g, n)}
<1>1. 0 \in T
  <2>1. Is([k \in 0..0 |-> <<>>], 0)
    OBVIOUS
  <2>. QED BY <2>1
<1>2. ASSUME NEW n \in T PROVE n + 1 \in T
  <2>1. PICK g : Is(g, n)
    OBVIOUS
  <2>. DEFINE h == [k \in 0..(n + 1) |-> IF k = 0 THEN <<>> ELSE g[k - 1] \o chunks[k].data]
  <2>2. n \in Nat /\ n + 1 \in Nat
    OBVIOUS
  <2>3. ASSUME NEW k \in 0..n PROVE h[k] = g[k]
    <3>1. k \in 0..(n + 1)
      BY <2>2
    <3>. QED BY <2>1, <3>1
  <2>4. ASSUME NEW k \in 0..(n + 1), k # 0 PROVE h[k - 1] = g[k - 1]
    <3>1. k - 1 \in 0..n
      BY <2>2, <2>4
    <3>. QED BY <2>3, <3>1
  <2>5. Is(h, n + 1)
    BY <2>2, <2>4
  <2>. QED BY <2>2, <2>5
<1>3. Len(chunks) \in T
  <2>. HIDE DEF T
  <2>1. T \in SUBSET Nat
    BY DEF T
  <2>. QED BY <1>1, <1>2, <2>1, SetInduction, ChunkShape
<1>4. \E g : Is(g, Len(chunks))
  BY <1>3
<1>. DEFINE f == CHOOSE g : Is(g, Len(chunks))
<1>5. Is(f, Len(chunks))
  <2>. HIDE DEF Is
  <2>. QED BY <1>4, Zenon
<1>6. Payload[chunks] = f
  BY DEF Payload
<1>. HIDE DEF f
<1>7. 0 \in 0..Len(chunks) /\ \A k \in 1..Len(chunks) : k \in 0..Len(chunks) /\ k # 0
  BY ChunkShape
<1>8. f[0] = <<>>
  BY <1>5, <1>7
<1>9. ASSUME NEW k \in 1..Len(chunks) PROVE f[k] = f[k - 1] \o chunks[k].data
  BY <1>5, <1>7
<1>. QED BY <1>6, <1>8, <1>9

\* A chunk on the wire: its digits, a line end, its data, a line end.
LEMMA WireShape ==
  ASSUME NEW chunks \in Bodies, NEW k \in 1..Len(chunks)
  PROVE  LET c == chunks[k]
             z == Len(c.size)
             d == Len(c.data)
         IN  /\ Wire(c) \in Seq(Tokens) /\ Len(Wire(c)) = z + d + 2
             /\ \A j \in 1..z : Wire(c)[j] = c.size[j]
             /\ Wire(c)[z + 1] = Newline
             /\ \A j \in 1..d : Wire(c)[z + 1 + j] = c.data[j]
             /\ Wire(c)[z + d + 2] = Newline
<1>. DEFINE z == chunks[k].size
            d == chunks[k].data
            nl == <<Newline>>
<1>1. z \in Seq(Tokens) /\ d \in Seq(Tokens) /\ Len(z) \in Nat /\ Len(d) \in Nat
  BY ChunkShape
<1>2. nl \in Seq(Tokens) /\ Len(nl) = 1 /\ nl[1] = Newline
  BY DEF Tokens
<1>3. Wire(chunks[k]) = z \o nl \o d \o nl
  BY DEF Wire
<1>. HIDE DEF z, d, nl
<1>. DEFINE a == z \o nl
            b == a \o d
            c == b \o nl
<1>4. /\ a \in Seq(Tokens) /\ Len(a) = Len(z) + Len(nl)
      /\ \A j \in 1..Len(z) : a[j] = z[j]
      /\ Len(nl) > 0 => a[Len(z) + 1] = nl[1]
  BY <1>1, <1>2, Joined
<1>. HIDE DEF a
<1>5. /\ b \in Seq(Tokens) /\ Len(b) = Len(a) + Len(d)
      /\ \A j \in 1..Len(a) : b[j] = a[j]
      /\ \A j \in 1..Len(d) : b[Len(a) + j] = d[j]
  BY <1>1, <1>4, Joined
<1>. HIDE DEF b
<1>6. /\ c \in Seq(Tokens) /\ Len(c) = Len(b) + Len(nl)
      /\ \A j \in 1..Len(b) : c[j] = b[j]
      /\ Len(nl) > 0 => c[Len(b) + 1] = nl[1]
  BY <1>2, <1>5, Joined
<1>. HIDE DEF c
<1>10. /\ Len(a) = Len(z) + 1 /\ Len(b) = Len(z) + 1 + Len(d) /\ Len(c) = Len(z) + Len(d) + 2
       /\ a[Len(z) + 1] = Newline /\ c[Len(z) + Len(d) + 2] = Newline
  BY <1>1, <1>2, <1>4, <1>5, <1>6
<1>7. ASSUME NEW j \in 1..Len(z) PROVE c[j] = z[j]
  <2>1. j \in 1..Len(a) /\ j \in 1..Len(b)
    BY <1>1, <1>10
  <2>. QED BY <1>4, <1>5, <1>6, <2>1
<1>8. c[Len(z) + 1] = Newline
  <2>1. Len(z) + 1 \in 1..Len(a) /\ Len(z) + 1 \in 1..Len(b)
    BY <1>1, <1>10
  <2>. QED BY <1>5, <1>6, <1>10, <2>1
<1>9. ASSUME NEW j \in 1..Len(d) PROVE c[Len(z) + 1 + j] = d[j]
  <2>1. Len(a) + j \in 1..Len(b) /\ Len(a) + j = Len(z) + 1 + j
    BY <1>1, <1>10
  <2>. QED BY <1>5, <1>6, <2>1
<1>11. Wire(chunks[k]) = c
  BY <1>3 DEF a, b, c
<1>. QED BY <1>6, <1>7, <1>8, <1>9, <1>10, <1>11 DEF z, d

\* The reply, as sent and as put together, is a sequence of tokens.
LEMMA StreamType ==
  ASSUME NEW chunks \in Bodies
  PROVE  /\ \A k \in 0..Len(chunks) : /\ Encoded[chunks][k] \in Seq(Tokens)
                                      /\ Payload[chunks][k] \in Seq(Tokens)
         /\ Streams[chunks] \in Seq(Tokens)
         /\ Len(Streams[chunks]) = Len(Encoded[chunks][Len(chunks)]) + 3
<1>. DEFINE Good(k) == /\ Encoded[chunks][k] \in Seq(Tokens)
                       /\ Payload[chunks][k] \in Seq(Tokens)
            T == {k \in Nat : k <= Len(chunks) => Good(k)}
<1>0. Len(chunks) \in Nat
  BY ChunkShape
<1>1. 0 \in T
  <2>1. <<>> \in Seq(Tokens)
    OBVIOUS
  <2>. QED BY <2>1, EncodedRec, PayloadRec
<1>2. ASSUME NEW k \in T PROVE k + 1 \in T
  <2>1. k \in Nat /\ (k <= Len(chunks) => Good(k))
    OBVIOUS
  <2>2. SUFFICES ASSUME k + 1 <= Len(chunks) PROVE Good(k + 1)
    BY <2>1
  <2>3. k + 1 \in 1..Len(chunks) /\ (k + 1) - 1 = k /\ Good(k)
    BY <1>0, <2>1, <2>2
  <2>4. /\ Encoded[chunks][k + 1] = Encoded[chunks][k] \o Wire(chunks[k + 1])
        /\ Payload[chunks][k + 1] = Payload[chunks][k] \o chunks[k + 1].data
    BY <2>3, EncodedRec, PayloadRec
  <2>5. Wire(chunks[k + 1]) \in Seq(Tokens) /\ chunks[k + 1].data \in Seq(Tokens)
    BY <2>3, WireShape, ChunkShape
  <2>. QED BY <2>3, <2>4, <2>5, Joined
<1>. HIDE DEF Good
<1>3. T = Nat
  <2>. HIDE DEF T
  <2>1. T \in SUBSET Nat
    BY DEF T
  <2>. QED BY <1>1, <1>2, <2>1, SetInduction
<1>4. \A k \in 0..Len(chunks) : Good(k)
  <2>1. ASSUME NEW k \in 0..Len(chunks) PROVE Good(k)
    <3>1. k \in T /\ k <= Len(chunks)
      BY <1>0, <1>3
    <3>. QED BY <3>1
  <2>. QED BY <2>1
<1>5. Encoded[chunks][Len(chunks)] \in Seq(Tokens)
  BY <1>0, <1>4 DEF Good
<1>. DEFINE tail == <<"0", Newline, Newline>>
<1>6. tail \in Seq(Tokens) /\ Len(tail) = 3
  BY DEF Tokens, Digits
<1>7. Streams[chunks] = Encoded[chunks][Len(chunks)] \o tail
  BY DEF Streams
<1>. HIDE DEF tail
<1>. DEFINE e == Encoded[chunks][Len(chunks)]
<1>8. e \o tail \in Seq(Tokens) /\ Len(e \o tail) = Len(e) + Len(tail)
  <2>. HIDE DEF e
  <2>. QED BY <1>5, <1>6, Joined DEF e
<1>9. Streams[chunks] \in Seq(Tokens) /\ Len(Streams[chunks]) = Len(e) + 3
  BY <1>6, <1>7, <1>8
<1>. QED BY <1>4, <1>9 DEF Good

-----------------------------------------------------------------------------
(* The post keeps PostInv.                                                 *)

\* No post has begun.
LEMMA PostInit == ASSUME Init PROVE PostInv
<1>1. TypeOK
  <2>1. <<>> \in Seq(Tokens) /\ <<>> \in Seq(Datagrams) /\ <<>> \in Bodies
    BY NamedAssumption DEF NamedAssumption
  <2>2. dns \in Dns
    BY DEF Init, Dns
  <2>3. conn \in Conn
    BY <2>1 DEF Init, Conn
  <2>4. srv \in Srv
    BY <2>1 DEF Init, Srv
  <2>. QED BY <2>1, <2>2, <2>3, <2>4 DEF Init, TypeOK
<1>2. Stream \in Seq(Tokens)
  BY <1>1, StreamType DEF Stream, TypeOK, Srv
<1>. QED BY <1>1, <1>2 DEF Init, PostInv, ConnLife, ServerLife, StillReady, Decided

\* A step of the lookup, the network or the loop that leaves the post alone.
LEMMA PostUntouched ==
  ASSUME PostInv, TypeOK', UNCHANGED <<pc, flag, conn, srv, result>>,
         todo' \subseteq todo, dns'.req => dns.req,
         "conn" \in todo' => fd'["conn"] = fd["conn"],
         "dns" \in todo' => fd'["dns"] = fd["dns"] /\ (inbox # <<>> => inbox' # <<>>)
  PROVE  PostInv'
<1>1. UNCHANGED <<Stream, Decision>>
  BY DEF Stream, Decision
<1>2. ConnLife' /\ ServerLife' /\ Decided'
  BY <1>1 DEF PostInv, ConnLife, ServerLife, Decided
<1>3. StillReady'
  BY DEF PostInv, StillReady
<1>. QED BY <1>2, <1>3 DEF PostInv

\* http_post creates the connection, which waits for the lookup.
LEMMA CallPost == ASSUME PostInv, LookupInv, Call PROVE PostInv'
<1>1. /\ TypeOK /\ conn \in Conn /\ dns \in Dns /\ conn.life = "none" /\ srv.net = "none"
      /\ flag = 0 /\ todo = {} /\ pc = "idle" /\ result = Pending
  BY DEF PostInv, TypeOK, ConnLife, Call, Decided
<1>2. /\ pc' = "loop"
      /\ conn' = [conn EXCEPT !.life = "resolving", !.unsent = TRUE]
      /\ dns' = [dns EXCEPT !.life = "connecting", !.req = TRUE]
      /\ UNCHANGED <<flag, todo, fd, due, wire, inbox, srv, body, result, asked, calls>>
  BY DEF Call
<1>3. /\ conn' \in Conn /\ conn'.life = "resolving" /\ conn'.read = conn.read
      /\ conn'.bodyLen = conn.bodyLen /\ conn'.buf = conn.buf
  BY <1>1, <1>2 DEF Conn
<1>4. dns' \in Dns
  BY <1>1, <1>2 DEF Dns
<1>5. TypeOK'
  BY <1>1, <1>2, <1>3, <1>4 DEF TypeOK
<1>6. Decision = 0 /\ Decision' = 0 /\ UNCHANGED Stream
  <2>1. srv.code = 0
    BY <1>1 DEF PostInv, ServerLife
  <2>. QED BY <1>1, <1>2, <1>3, <2>1 DEF Decision, Stream
<1>7. ConnLife' /\ Decided' /\ StillReady'
  BY <1>1, <1>2, <1>3, <1>6 DEF ConnLife, Decided, StillReady
<1>8. ServerLife'
  BY <1>1, <1>2, <1>3, <1>6 DEF PostInv, ServerLife
<1>. QED BY <1>3, <1>5, <1>7, <1>8 DEF PostInv

\* What select reports is true when it returns.
LEMMA SelectPost == ASSUME PostInv, Select PROVE PostInv'
<1>1. /\ pc = "loop" /\ pc' = "poll" /\ todo' = Listed
      /\ fd' = [c \in {"conn", "dns"} |-> IF c \in Listed THEN Ready(c) ELSE {}]
      /\ UNCHANGED <<flag, dns, due, wire, inbox, asked, calls, conn, srv, body, result>>
  BY DEF Select, lookupVars
<1>2. /\ Listed \subseteq {"conn", "dns"}
      /\ "conn" \in Listed => conn.life \in {"connecting", "open", "killed"}
      /\ \A c \in {"conn", "dns"} : Ready(c) \subseteq {"r", "w"}
      /\ "r" \in Ready("dns") => inbox # <<>>
      /\ "r" \in Ready("conn") => srv.net = "refused" \/ srv.sent > conn.read \/ srv.fin
  BY DEF Listed, Ready
<1>3. TypeOK'
  BY <1>1, <1>2 DEF PostInv, TypeOK
<1>4. UNCHANGED <<Stream, Decision>>
  BY <1>1 DEF Stream, Decision
<1>5. ConnLife' /\ ServerLife' /\ Decided'
  BY <1>1, <1>2, <1>4 DEF PostInv, ConnLife, ServerLife, Decided
<1>6. StillReady'
  BY <1>1, <1>2 DEF StillReady
<1>. QED BY <1>1, <1>3, <1>5, <1>6 DEF PostInv

\* Only a decision lets http_post return, and it is what is returned.
LEMMA LoopPost == ASSUME PostInv, PollDone \/ Return PROVE PostInv'
<1>1. /\ UNCHANGED <<flag, todo, fd, dns, due, wire, inbox, asked, calls, conn, srv, body>>
      /\ \/ pc = "poll" /\ pc' = "loop" /\ UNCHANGED result
         \/ pc = "loop" /\ pc' = "back" /\ flag # 0
            /\ result' = IF flag = 200 THEN 0 ELSE flag
  BY DEF PollDone, Return, lookupVars
<1>2. TypeOK'
  BY <1>1 DEF PostInv, TypeOK
<1>3. UNCHANGED <<Stream, Decision>>
  BY <1>1 DEF Stream, Decision
<1>4. ConnLife' /\ ServerLife' /\ StillReady'
  BY <1>1, <1>3 DEF PostInv, ConnLife, ServerLife, StillReady
<1>5. Decided'
  BY <1>1, <1>3 DEF PostInv, Decided
<1>. QED BY <1>1, <1>2, <1>4, <1>5 DEF PostInv

\* resolve_cb runs only while the lookup holds its request, and then frees it.
LEMMA DnsOutcome ==
  ASSUME PostInv, LookupInv, HandleDns
  PROVE  /\ pc = "poll" /\ todo' = {} /\ UNCHANGED <<pc, fd, body, result>>
         /\ due' \in BOOLEAN /\ wire' \in Nat /\ inbox' \in Seq(Datagrams)
         /\ \/ UNCHANGED <<flag, conn, srv>> /\ (dns'.req => dns.req)
            \/ dns.req /\ ~dns'.req /\ (ResolveFailed \/ ResolveTo)
<1>1. /\ pc = "poll" /\ todo = {"dns"} /\ todo' = {} /\ UNCHANGED <<pc, fd, body, result>>
      /\ dns.life \in {"connecting", "open", "killed"} /\ dns \in Dns
      /\ due \in BOOLEAN /\ wire \in Nat /\ inbox \in Seq(Datagrams)
  BY DEF HandleDns, LookupInv, LookupLife, PostInv, TypeOK
<1>2. CASE dns.life = "killed"
  <2>1. DnsClosed
    BY <1>1, <1>2 DEF HandleDns
  <2>2. due' \in BOOLEAN /\ wire' \in Nat /\ inbox' \in Seq(Datagrams) /\ ~dns'.req
    <3>1. /\ due' = FALSE /\ wire' = 0 /\ inbox' = <<>>
          /\ dns' = [life |-> "closed", queued |-> 0, retries |-> 0, req |-> FALSE]
      BY <2>1 DEF DnsClosed, DestroyDns
    <3>2. <<>> \in Seq(Datagrams) /\ 0 \in Nat
      OBVIOUS
    <3>. QED BY <3>1, <3>2
  <2>3. \/ UNCHANGED <<flag, conn, srv>>
        \/ dns.req /\ ResolveFailed
    <3>1. CASE dns.req
      BY <2>1, <3>1 DEF DnsClosed
    <3>2. CASE ~dns.req
      BY <2>1, <3>2 DEF DnsClosed, Unresolved
    <3>. QED BY <3>1, <3>2
  <2>. QED BY <1>1, <2>2, <2>3
<1>3. CASE dns.life # "killed"
  <2>. DEFINE d == Connected(Polled(dns))
  <2>1. d \in Dns /\ d.req = dns.req /\ dns.req
    BY <1>1, <1>3, AskedShape DEF LookupInv, LookupLife
  <2>2. /\ due' = (due /\ d.retries = dns.retries)
        /\ \/ dns' = d /\ Unresolved /\ UNCHANGED <<wire, inbox>>
           \/ /\ "r" \in fd["dns"] /\ Answered(d, Head(inbox)) /\ inbox' = Tail(inbox)
              /\ UNCHANGED wire
           \/ Sent(d) /\ Unresolved /\ UNCHANGED inbox
    BY <1>1, <1>3 DEF HandleDns, DnsServed
  <2>. HIDE DEF d
  <2>3. CASE dns' = d /\ Unresolved /\ UNCHANGED <<wire, inbox>>
    BY <1>1, <2>1, <2>2, <2>3 DEF Unresolved
  <2>4. CASE /\ "r" \in fd["dns"] /\ Answered(d, Head(inbox)) /\ inbox' = Tail(inbox)
             /\ UNCHANGED wire
    <3>1. inbox # <<>>
      BY <1>1, <2>4 DEF PostInv, StillReady
    <3>2. inbox' \in Seq(Datagrams)
      BY <1>1, <2>4, <3>1, HeadTailProperties
    <3>3. dns'.req = (Head(inbox) = "none")
      BY <2>1, <2>4 DEF Answered, Dns
    <3>4. \/ UNCHANGED <<flag, conn, srv>>
          \/ ~dns'.req /\ (ResolveFailed \/ ResolveTo)
      BY <2>4, <3>3 DEF Answered, Unresolved
    <3>. QED BY <1>1, <2>1, <2>2, <2>4, <3>2, <3>4
  <2>5. CASE Sent(d) /\ Unresolved /\ UNCHANGED inbox
    <3>1. wire' \in Nat
      BY <1>1, <2>5 DEF Sent
    <3>. QED BY <1>1, <2>1, <2>2, <2>5, <3>1 DEF Unresolved
  <2>. QED BY <2>2, <2>3, <2>4, <2>5
<1>. QED BY <1>2, <1>3

\* The lookup ends with a decision, or with a connect.
LEMMA HandleDnsPost == ASSUME PostInv, LookupInv, LookupInv', HandleDns PROVE PostInv'
<1>1. /\ pc = "poll" /\ todo' = {} /\ UNCHANGED <<pc, fd, body, result>>
      /\ due' \in BOOLEAN /\ wire' \in Nat /\ inbox' \in Seq(Datagrams)
      /\ dns' \in Dns /\ asked' \in Nat /\ calls' \in Nat
  BY DnsOutcome DEF LookupInv
<1>2. TypeOK /\ conn \in Conn /\ srv \in Srv /\ flag \in {0, ConnectFailed} \cup Codes
  BY DEF PostInv, TypeOK
<1>3. CASE UNCHANGED <<flag, conn, srv>> /\ (dns'.req => dns.req)
  <2>1. TypeOK'
    BY <1>1, <1>2, <1>3 DEF TypeOK
  <2>. QED BY <1>1, <1>3, <2>1, PostUntouched
<1>4. CASE dns.req /\ ~dns'.req /\ (ResolveFailed \/ ResolveTo)
  <2>1. conn.life = "resolving" /\ srv.net = "none" /\ srv.code = 0 /\ flag = 0 /\ Decision = 0
    BY <1>1, <1>2, <1>4 DEF PostInv, ConnLife, ServerLife, Decided, Decision
  <2>2. CASE ResolveFailed
    <3>1. /\ flag' = ConnectFailed /\ UNCHANGED srv /\ conn' = [conn EXCEPT !.life = "gone"]
      BY <2>2 DEF ResolveFailed
    <3>2. /\ conn' \in Conn /\ conn'.life = "gone" /\ conn'.read = conn.read
          /\ conn'.bodyLen = conn.bodyLen /\ conn'.buf = conn.buf /\ conn'.unsent = conn.unsent
      BY <1>2, <3>1 DEF Conn
    <3>3. TypeOK'
      BY <1>1, <1>2, <3>1, <3>2 DEF TypeOK
    <3>4. UNCHANGED Stream /\ Decision' = ConnectFailed
      BY <2>1, <3>1, <3>2 DEF Stream, Decision
    <3>5. ConnLife' /\ ServerLife' /\ StillReady'
      BY <1>1, <1>4, <2>1, <3>1, <3>2, <3>4 DEF PostInv, ConnLife, ServerLife, StillReady
    <3>6. Decided'
      BY <1>1, <2>1, <3>1, <3>4 DEF PostInv, Decided, ConnectFailed
    <3>. QED BY <3>2, <3>3, <3>5, <3>6 DEF PostInv
  <2>3. CASE ResolveTo
    <3>1. /\ UNCHANGED flag /\ srv' = [srv EXCEPT !.net = "syn"]
          /\ conn' = [conn EXCEPT !.life = "connecting"]
      BY <2>3 DEF ResolveTo
    <3>2. /\ conn' \in Conn /\ conn'.life = "connecting" /\ conn'.read = conn.read
          /\ conn'.bodyLen = conn.bodyLen /\ conn'.buf = conn.buf /\ conn'.unsent = conn.unsent
      BY <1>2, <3>1 DEF Conn
    <3>3. /\ srv' \in Srv /\ srv'.net = "syn" /\ srv'.code = srv.code /\ srv'.sent = srv.sent
          /\ srv'.fin = srv.fin /\ srv'.chunks = srv.chunks
      BY <1>2, <3>1 DEF Srv
    <3>4. TypeOK'
      BY <1>1, <1>2, <3>1, <3>2, <3>3 DEF TypeOK
    <3>5. UNCHANGED Stream /\ Decision' = 0
      BY <2>1, <3>2, <3>3 DEF Stream, Decision
    <3>6. ConnLife' /\ ServerLife' /\ StillReady'
      BY <1>1, <1>4, <2>1, <3>1, <3>2, <3>3, <3>5 DEF PostInv, ConnLife, ServerLife, StillReady
    <3>7. Decided'
      BY <1>1, <2>1, <3>1 DEF PostInv, Decided
    <3>. QED BY <3>2, <3>4, <3>6, <3>7 DEF PostInv
  <2>. QED BY <1>4, <2>2, <2>3
<1>. QED BY <1>3, <1>4, DnsOutcome

-----------------------------------------------------------------------------
(* The connection of the post.                                             *)

\* A write changes no more of the connection than the request and its life.
LEMMA WrittenShape ==
  ASSUME NEW c \in Conn, NEW e \in Written(c)
  PROVE  /\ e \in Conn /\ e.read = c.read /\ e.buf = c.buf /\ e.bodyLen = c.bodyLen
         /\ e.drain = c.drain /\ (e.unsent => c.unsent)
         /\ e.life = c.life \/ (e.life = "killed" /\ srv.fin /\ c.unsent)
<1>1. \/ e = c \/ e = [c EXCEPT !.unsent = FALSE]
      \/ srv.fin /\ c.unsent /\ e = [c EXCEPT !.life = "killed"]
  BY DEF Written
<1>. QED BY <1>1 DEF Conn

\* What arrives makes the buffer a longer sequence of tokens.
LEMMA AppendedShape ==
  ASSUME PostInv, NEW n \in Nat \ {0}, conn.read + n <= srv.sent
  PROVE  Appended(n) \in Seq(Tokens) /\ Len(conn.buf) <= Len(Appended(n))
<1>1. /\ conn.buf \in Seq(Tokens) /\ conn.read \in Nat /\ srv.sent \in Nat
      /\ Stream \in Seq(Tokens) /\ srv.sent <= Len(Stream) + 1 /\ Len(Stream) \in Nat
  <2>1. conn \in Conn /\ srv \in Srv
    BY DEF PostInv, TypeOK
  <2>2. Stream \in Seq(Tokens)
    BY <2>1, StreamType DEF Stream, Srv
  <2>. QED BY <2>1, <2>2 DEF PostInv, ServerLife, Conn, Srv
<1>. DEFINE a == conn.read + IF conn.read = 0 THEN 1 ELSE 0
            b == conn.read + n - 1
            x == SubSeq(Stream, a, b)
<1>2. a \in Int /\ b \in Int /\ a >= 1 /\ b <= Len(Stream)
  BY <1>1
<1>. HIDE DEF a, b
<1>3. \A i \in a..b : Stream[i] \in Tokens
  BY <1>1, <1>2, ElementOfSeq
<1>4. x \in Seq(Tokens)
  BY <1>2, <1>3, SubSeqProperties
<1>. HIDE DEF x
<1>5. conn.buf \o x \in Seq(Tokens) /\ Len(conn.buf \o x) = Len(conn.buf) + Len(x)
      /\ Len(x) \in Nat /\ Len(conn.buf) \in Nat
  BY <1>1, <1>4, Joined
<1>6. Appended(n) = conn.buf \o x
  BY DEF Appended, x, a, b
<1>. QED BY <1>5, <1>6

\* What a step of the connection must satisfy to keep the invariant.
LEMMA ConnStepPost ==
  ASSUME PostInv, pc = "poll", "conn" \in todo, todo' = todo \ {"conn"},
         UNCHANGED <<pc, fd, lookupVars, srv, result>>,
         conn' \in Conn, conn'.bodyLen <= Len(conn'.buf),
         conn'.life \in {"connecting", "open", "killed", "gone"},
         conn'.life = "open" => srv.net = "open",
         conn'.unsent => conn.unsent, conn'.read <= srv.sent,
         body' \in Seq(Tokens), flag' \in {flag, Decision}
  PROVE  PostInv'
<1>1. /\ conn \in Conn /\ srv \in Srv /\ todo \subseteq {"conn", "dns"}
      /\ conn.life \in {"connecting", "open", "killed"} /\ srv.net # "none"
      /\ flag \in {0, ConnectFailed} \cup Codes
  BY DEF PostInv, TypeOK, ConnLife
<1>2. UNCHANGED <<dns, due, wire, inbox, asked, calls>>
  BY DEF lookupVars
<1>3. Decision \in {0, ConnectFailed} \cup Codes /\ UNCHANGED <<Decision, Stream>>
  BY <1>1 DEF Decision, Stream, Srv
<1>4. TypeOK'
  <2>1. flag' \in {0, ConnectFailed} \cup Codes
    BY <1>1, <1>3
  <2>. QED BY <1>2, <2>1 DEF PostInv, TypeOK
<1>5. ConnLife' /\ StillReady'
  BY <1>1, <1>2 DEF PostInv, ConnLife, StillReady
<1>6. ServerLife'
  BY <1>3 DEF PostInv, ServerLife
<1>7. Decided'
  BY <1>3 DEF PostInv, Decided
<1>. QED BY <1>4, <1>5, <1>6, <1>7 DEF PostInv

\* What handling the connection comes to.
ConnClosed ==
  /\ MustClose /\ conn' = [conn EXCEPT !.life = "gone"]
  /\ IF conn.read > 0 /\ flag = 0 THEN Reply(conn.buf) ELSE NoReply
ConnRefused ==
  /\ srv.net = "refused" /\ conn' = [conn EXCEPT !.life = "killed"]
  /\ flag' = ConnectFailed /\ UNCHANGED body
Opened == [conn EXCEPT !.life = "open"]
ConnWrote == conn' \in Written(Opened) /\ NoReply
ConnRead(n) ==
  /\ conn.read + n <= srv.sent
  /\ Received(Opened, n, HandleChunked(Appended(n), conn.bodyLen))
ConnEnded ==
  /\ srv.sent = conn.read /\ srv.fin /\ NoReply
  /\ \/ conn' \in Written([Opened EXCEPT !.drain = TRUE])
     \/ conn' = [Opened EXCEPT !.life = "killed"]

\* mg_mgr_handle_conn closes the connection, waits, sees the connect refused, or
\* serves it.
LEMMA ConnOutcome ==
  ASSUME PostInv, HandleConn
  PROVE  /\ pc = "poll" /\ "conn" \in todo /\ todo' = todo \ {"conn"}
         /\ UNCHANGED <<pc, fd, lookupVars, srv, result>>
         /\ \/ ConnClosed
            \/ UNCHANGED conn /\ NoReply
            \/ ConnRefused /\ ~MustClose
            \/ /\ srv.net = "open" /\ conn.life \in {"connecting", "open"} /\ ~MustClose
               /\ ConnWrote \/ (\E n \in Nat \ {0} : ConnRead(n)) \/ ConnEnded
<1>1. /\ pc = "poll" /\ "conn" \in todo /\ todo' = todo \ {"conn"}
      /\ UNCHANGED <<pc, fd, lookupVars, srv, result>>
      /\ conn.life \in {"connecting", "open", "killed"} /\ conn \in Conn /\ srv \in Srv
  BY DEF HandleConn, PostInv, ConnLife, TypeOK
<1>2. \/ ConnClosed
      \/ UNCHANGED conn /\ NoReply
      \/ ConnRefused /\ ~MustClose
      \/ /\ ~MustClose
         /\ conn.life = "connecting" => fd["conn"] # {} /\ srv.net = "open"
         /\ Serve(Opened)
  BY DEF HandleConn, CloseConn, ConnClosed, ConnRefused, Opened
<1>3. CASE /\ ~MustClose
           /\ conn.life = "connecting" => fd["conn"] # {} /\ srv.net = "open"
           /\ Serve(Opened)
  <2>1. conn.life \in {"connecting", "open"} /\ srv.net = "open"
    BY <1>1, <1>3 DEF MustClose, PostInv, ConnLife
  <2>2. CASE "r" \notin fd["conn"] /\ conn' \in Written(Opened) /\ NoReply
    BY <1>1, <1>3, <2>1, <2>2 DEF ConnWrote
  <2>3. CASE /\ "r" \in fd["conn"] /\ srv.sent > conn.read
             /\ \E n \in 1..(srv.sent - conn.read) : \E buf \in {Appended(n)} :
                  \E h \in {HandleChunked(buf, conn.bodyLen)} : Received(Opened, n, h)
    <3>1. PICK n \in 1..(srv.sent - conn.read) :
            Received(Opened, n, HandleChunked(Appended(n), conn.bodyLen))
      BY <2>3
    <3>2. n \in Nat \ {0} /\ conn.read + n <= srv.sent
      BY <1>1 DEF Conn, Srv
    <3>. QED BY <1>1, <1>3, <2>1, <3>1, <3>2 DEF ConnRead
  <2>4. CASE /\ "r" \in fd["conn"] /\ srv.sent = conn.read
             /\ \/ conn' \in Written([Opened EXCEPT !.drain = TRUE])
                \/ conn' = [Opened EXCEPT !.life = "killed"]
             /\ NoReply
    <3>1. srv.fin
      BY <1>1, <2>1, <2>4 DEF PostInv, StillReady, Conn, Srv
    <3>. QED BY <1>1, <1>3, <2>1, <2>4, <3>1 DEF ConnEnded
  <2>. QED BY <1>3, <2>2, <2>3, <2>4 DEF Serve
<1>. QED BY <1>1, <1>2, <1>3

\* A connect that has succeeded leaves the rest of the connection alone.
LEMMA OpenedShape ==
  ASSUME conn \in Conn
  PROVE  /\ Opened \in Conn /\ Opened.life = "open" /\ Opened.read = conn.read
         /\ Opened.buf = conn.buf /\ Opened.bodyLen = conn.bodyLen
         /\ Opened.drain = conn.drain /\ Opened.unsent = conn.unsent
  BY DEF Opened, Conn

\* The connection after a read: h is what the chunks of the buffer make.
LEMMA ConnReadShape ==
  ASSUME PostInv, NEW n \in Nat \ {0}, ConnRead(n)
  PROVE  LET h == HandleChunked(Appended(n), conn.bodyLen)
         IN  /\ h.buf \in Seq(Tokens) /\ h.bodyLen \in 0..Len(h.buf) /\ h.last \in BOOLEAN
             /\ conn' \in Conn /\ conn'.read = conn.read + n
             /\ conn'.unsent => conn.unsent
             /\ conn'.life = "open" \/ (conn'.life = "killed" /\ srv.fin /\ conn.unsent)
             /\ IF h.last
                  THEN body' = h.buf /\ flag' = srv.code /\ conn'.buf = <<>> /\ conn'.bodyLen = 0
                  ELSE /\ NoReply /\ conn'.buf = h.buf /\ conn'.bodyLen = h.bodyLen
                       /\ conn'.drain = conn.drain
<1>. DEFINE h == HandleChunked(Appended(n), conn.bodyLen)
<1>1. conn \in Conn /\ conn.bodyLen \in Nat /\ conn.bodyLen <= Len(conn.buf)
      /\ conn.read \in Nat /\ conn.buf \in Seq(Tokens) /\ Len(conn.buf) \in Nat
  BY DEF PostInv, TypeOK, Conn
<1>2. Appended(n) \in Seq(Tokens) /\ conn.bodyLen \in 0..Len(Appended(n))
  <2>1. Appended(n) \in Seq(Tokens) /\ Len(conn.buf) <= Len(Appended(n))
    BY AppendedShape DEF ConnRead
  <2>2. Len(Appended(n)) \in Nat
    BY <2>1
  <2>. QED BY <1>1, <2>1, <2>2
<1>3. h.buf \in Seq(Tokens) /\ h.bodyLen \in 0..Len(h.buf) /\ h.last \in BOOLEAN
  BY <1>2, HandleChunkedShape
<1>4. Received(Opened, n, h)
  BY DEF ConnRead
<1>. HIDE DEF h
<1>5. h.bodyLen \in Nat
  BY <1>3
<1>6. CASE h.last
  <2>. DEFINE c == [Opened EXCEPT !.read = @ + n, !.buf = <<>>, !.bodyLen = 0, !.drain = TRUE]
  <2>1. conn' \in Written(c) /\ body' = h.buf /\ flag' = srv.code
    BY <1>4, <1>6 DEF Received, Reply
  <2>2. /\ c \in Conn /\ c.read = conn.read + n /\ c.buf = <<>> /\ c.bodyLen = 0
        /\ c.life = "open" /\ c.unsent = conn.unsent
    <3>1. <<>> \in Seq(Tokens) /\ conn.read + n \in Nat
      BY <1>1
    <3>. QED BY <1>1, <3>1, OpenedShape DEF Conn
  <2>. HIDE DEF c
  <2>3. /\ conn' \in Conn /\ conn'.read = c.read /\ conn'.buf = c.buf
        /\ conn'.bodyLen = c.bodyLen /\ (conn'.unsent => c.unsent)
        /\ conn'.life = c.life \/ (conn'.life = "killed" /\ srv.fin /\ c.unsent)
    BY <2>1, <2>2, WrittenShape
  <2>. QED BY <1>3, <1>6, <2>1, <2>2, <2>3 DEF h
<1>7. CASE ~h.last
  <2>. DEFINE c == [Opened EXCEPT !.read = @ + n, !.buf = h.buf, !.bodyLen = h.bodyLen]
  <2>1. conn' \in Written(c) /\ NoReply
    BY <1>4, <1>7 DEF Received
  <2>2. /\ c \in Conn /\ c.read = conn.read + n /\ c.buf = h.buf /\ c.bodyLen = h.bodyLen
        /\ c.life = "open" /\ c.unsent = conn.unsent /\ c.drain = conn.drain
    <3>1. conn.read + n \in Nat
      BY <1>1
    <3>. QED BY <1>1, <1>3, <1>5, <3>1, OpenedShape DEF Conn
  <2>. HIDE DEF c
  <2>3. /\ conn' \in Conn /\ conn'.read = c.read /\ conn'.buf = c.buf
        /\ conn'.bodyLen = c.bodyLen /\ (conn'.unsent => c.unsent) /\ conn'.drain = c.drain
        /\ conn'.life = c.life \/ (conn'.life = "killed" /\ srv.fin /\ c.unsent)
    BY <2>1, <2>2, WrittenShape
  <2>. QED BY <1>3, <1>7, <2>1, <2>2, <2>3 DEF h
<1>. QED BY <1>3, <1>6, <1>7

\* The connection of the post decides nothing but the server's code or a failed
\* connect.
LEMMA HandleConnPost == ASSUME PostInv, HandleConn PROVE PostInv'
<1>1. /\ pc = "poll" /\ "conn" \in todo /\ todo' = todo \ {"conn"}
      /\ UNCHANGED <<pc, fd, lookupVars, srv, result>>
  BY ConnOutcome
<1>2. /\ conn \in Conn /\ srv \in Srv /\ conn.bodyLen <= Len(conn.buf)
      /\ conn.buf \in Seq(Tokens) /\ body \in Seq(Tokens)
      /\ conn.life \in {"connecting", "open", "killed"} /\ srv.net # "none"
      /\ conn.read <= srv.sent
      /\ conn.read \in Nat
  BY <1>1 DEF PostInv, TypeOK, ConnLife, ServerLife, Conn
<1>3. CASE ConnClosed
  <2>1. /\ conn' \in Conn /\ conn'.life = "gone" /\ conn'.bodyLen = conn.bodyLen
        /\ conn'.buf = conn.buf /\ conn'.read = conn.read /\ conn'.unsent = conn.unsent
    BY <1>2, <1>3 DEF ConnClosed, Conn
  <2>2. conn.read > 0 => Decision = srv.code
    BY <1>2 DEF PostInv, ServerLife, Decision, Srv, Conn
  <2>3. body' \in Seq(Tokens) /\ flag' \in {flag, Decision}
    BY <1>2, <1>3, <2>2 DEF ConnClosed, Reply, NoReply
  <2>. QED BY <1>1, <1>2, <2>1, <2>3, ConnStepPost
<1>4. CASE UNCHANGED conn /\ NoReply
  <2>1. body' \in Seq(Tokens) /\ flag' \in {flag, Decision}
    BY <1>2, <1>4 DEF NoReply
  <2>2. conn.life = "open" => srv.net = "open"
    BY DEF PostInv, ConnLife
  <2>. QED BY <1>1, <1>2, <1>4, <2>1, <2>2, ConnStepPost
<1>5. CASE ConnRefused
  <2>1. /\ conn' \in Conn /\ conn'.life = "killed" /\ conn'.bodyLen = conn.bodyLen
        /\ conn'.buf = conn.buf /\ conn'.read = conn.read /\ conn'.unsent = conn.unsent
    BY <1>2, <1>5 DEF ConnRefused, Conn
  <2>2. flag' = Decision /\ body' \in Seq(Tokens)
    BY <1>2, <1>5 DEF ConnRefused, Decision
  <2>. QED BY <1>1, <1>2, <2>1, <2>2, ConnStepPost
<1>6. CASE srv.net = "open" /\ ConnWrote
  <2>1. /\ conn' \in Conn /\ conn'.life \in {"open", "killed"} /\ conn'.bodyLen = conn.bodyLen
        /\ conn'.buf = conn.buf /\ conn'.read = conn.read /\ (conn'.unsent => conn.unsent)
    BY <1>2, <1>6, OpenedShape, WrittenShape DEF ConnWrote
  <2>2. body' \in Seq(Tokens) /\ flag' \in {flag, Decision}
    BY <1>2, <1>6 DEF ConnWrote, NoReply
  <2>. QED BY <1>1, <1>2, <1>6, <2>1, <2>2, ConnStepPost
<1>7. ASSUME NEW n \in Nat \ {0}, ConnRead(n), srv.net = "open" PROVE PostInv'
  <2>. DEFINE h == HandleChunked(Appended(n), conn.bodyLen)
  <2>1. /\ h.buf \in Seq(Tokens) /\ h.bodyLen \in 0..Len(h.buf) /\ h.last \in BOOLEAN
        /\ conn' \in Conn /\ conn'.read = conn.read + n /\ (conn'.unsent => conn.unsent)
        /\ conn'.life \in {"open", "killed"}
        /\ IF h.last
             THEN body' = h.buf /\ flag' = srv.code /\ conn'.buf = <<>> /\ conn'.bodyLen = 0
             ELSE NoReply /\ conn'.buf = h.buf /\ conn'.bodyLen = h.bodyLen
    BY <1>7, ConnReadShape
  <2>. HIDE DEF h
  <2>2. Decision = srv.code
    BY <1>2, <1>7 DEF Decision
  <2>3. conn'.bodyLen <= Len(conn'.buf)
    BY <2>1
  <2>4. body' \in Seq(Tokens) /\ flag' \in {flag, Decision}
    BY <1>2, <2>1, <2>2 DEF NoReply
  <2>5. conn'.read <= srv.sent
    BY <1>7, <2>1 DEF ConnRead
  <2>. QED BY <1>1, <1>7, <2>1, <2>3, <2>4, <2>5, ConnStepPost
<1>8. CASE srv.net = "open" /\ ConnEnded
  <2>1. body' \in Seq(Tokens) /\ flag' \in {flag, Decision}
    BY <1>2, <1>8 DEF ConnEnded, NoReply
  <2>2. /\ conn' \in Conn /\ conn'.life \in {"open", "killed"} /\ conn'.bodyLen = conn.bodyLen
        /\ conn'.buf = conn.buf /\ conn'.read = conn.read /\ (conn'.unsent => conn.unsent)
    <3>. DEFINE c == [Opened EXCEPT !.drain = TRUE]
    <3>1. /\ c \in Conn /\ c.life = "open" /\ c.read = conn.read /\ c.buf = conn.buf
          /\ c.bodyLen = conn.bodyLen /\ c.unsent = conn.unsent
      BY <1>2, OpenedShape DEF Conn
    <3>. HIDE DEF c
    <3>2. CASE conn' \in Written(c)
      BY <3>1, <3>2, WrittenShape
    <3>3. CASE conn' = [Opened EXCEPT !.life = "killed"]
      BY <1>2, <3>3, OpenedShape DEF Conn
    <3>. QED BY <1>8, <3>2, <3>3 DEF ConnEnded, c
  <2>. QED BY <1>1, <1>2, <1>8, <2>1, <2>2, ConnStepPost
<1>. QED BY <1>3, <1>4, <1>5, <1>6, <1>7, <1>8, ConnOutcome

\* Time and datagrams leave the post alone.
LEMMA NetworkPost ==
  ASSUME PostInv, LookupInv, Timeout \/ (\E g \in Datagrams : NameServer(g)) \/ Lose
  PROVE  PostInv'
<1>1. /\ UNCHANGED <<pc, flag, todo, fd, dns, conn, body, result, asked, calls, srv>>
      /\ due' \in BOOLEAN /\ wire' \in Nat /\ inbox' \in Seq(Datagrams)
      /\ inbox # <<>> => inbox' # <<>>
  <2>1. due \in BOOLEAN /\ wire \in Nat /\ inbox \in Seq(Datagrams)
    BY DEF PostInv, TypeOK
  <2>2. CASE Timeout
    BY <2>1, <2>2 DEF Timeout, clientVars
  <2>3. ASSUME NEW g \in Datagrams, NameServer(g)
        PROVE  /\ UNCHANGED <<pc, flag, todo, fd, dns, conn, body, result, asked, calls, srv>>
               /\ due' \in BOOLEAN /\ wire' \in Nat /\ inbox' \in Seq(Datagrams)
               /\ inbox' # <<>>
    <3>1. inbox' \in Seq(Datagrams) /\ inbox' # <<>>
      <4>1. inbox' = Append(inbox, g)
        BY <2>3 DEF NameServer
      <4>. QED BY <2>1, <4>1, AppendProperties
    <3>2. wire' \in Nat
      BY <2>1, <2>3 DEF NameServer
    <3>. QED BY <2>1, <2>3, <3>1, <3>2 DEF NameServer, clientVars
  <2>4. CASE Lose
    BY <2>1, <2>4 DEF Lose, clientVars
  <2>. QED BY <2>2, <2>3, <2>4
<1>2. TypeOK'
  BY <1>1 DEF PostInv, TypeOK
<1>. QED BY <1>1, <1>2, PostUntouched

\* What the server does, and to which stage of the reply.
LEMMA ServerOutcome ==
  ASSUME PostInv, Server
  PROVE  /\ UNCHANGED <<pc, flag, todo, fd, dns, conn, body, result, asked, calls,
                        due, wire, inbox>>
         /\ srv' \in Srv
         /\ \/ /\ srv.net = "syn" /\ srv'.net \in {"open", "refused"} /\ UNCHANGED Stream
               /\ srv'.chunks = srv.chunks /\ srv'.code = srv.code
               /\ srv'.sent = srv.sent /\ srv'.fin = srv.fin
            \/ /\ srv.net = "open" /\ srv.code = 0 /\ ~srv.fin /\ ~conn.unsent
               /\ srv'.net = "open" /\ srv'.code \in Codes
               /\ srv'.sent = srv.sent /\ srv'.fin = srv.fin
            \/ /\ srv.code # 0 /\ ~srv.fin /\ srv'.net = srv.net /\ srv'.code = srv.code
               /\ srv'.chunks = srv.chunks /\ UNCHANGED Stream
               /\ \/ srv.sent <= Len(Stream) /\ srv'.sent = srv.sent + 1 /\ ~srv'.fin
                  \/ srv'.sent = srv.sent /\ srv'.fin /\ srv.sent > 0
<1>1. /\ srv \in Srv /\ srv.sent \in Nat /\ srv.fin \in BOOLEAN
      /\ UNCHANGED <<pc, flag, todo, fd, dns, conn, body, result, asked, calls,
                     due, wire, inbox>>
      /\ Accept \/ Refuse \/ Answer \/ SendToken \/ Finish
  BY DEF Server, clientVars, PostInv, TypeOK, Srv
<1>2. CASE Accept \/ Refuse
  BY <1>1, <1>2 DEF Accept, Refuse, Srv, Stream
<1>3. CASE Answer
  <2>1. PICK code \in Codes, chunks \in Bodies :
          srv' = [srv EXCEPT !.code = code, !.chunks = chunks]
    BY <1>3 DEF Answer
  <2>2. srv' \in Srv /\ srv'.net = srv.net /\ srv'.code = code /\ srv'.sent = srv.sent
        /\ srv'.fin = srv.fin
    BY <1>1, <2>1 DEF Srv
  <2>. QED BY <1>1, <1>3, <2>2 DEF Answer
<1>4. CASE SendToken
  <2>1. /\ srv.code # 0 /\ ~srv.fin /\ srv.sent <= Len(Stream)
        /\ srv' = [srv EXCEPT !.sent = srv.sent + 1]
    BY <1>4 DEF SendToken
  <2>2. /\ srv' \in Srv /\ srv'.net = srv.net /\ srv'.code = srv.code
        /\ srv'.sent = srv.sent + 1 /\ srv'.fin = srv.fin /\ srv'.chunks = srv.chunks
    BY <1>1, <2>1 DEF Srv
  <2>3. UNCHANGED Stream
    BY <2>2 DEF Stream
  <2>. QED BY <1>1, <2>1, <2>2, <2>3
<1>5. CASE Finish
  <2>1. /\ srv.code # 0 /\ ~srv.fin /\ srv' = [srv EXCEPT !.fin = TRUE]
        /\ srv.sent > Len(Stream) \/ srv.sent > 0
    BY <1>5 DEF Finish
  <2>2. /\ srv' \in Srv /\ srv'.net = srv.net /\ srv'.code = srv.code
        /\ srv'.sent = srv.sent /\ srv'.fin /\ srv'.chunks = srv.chunks
    BY <1>1, <2>1 DEF Srv
  <2>3. UNCHANGED Stream
    BY <2>2 DEF Stream
  <2>4. srv.sent > 0
    <3>1. Len(Stream) \in Nat
      BY <1>1, StreamType DEF Stream, Srv
    <3>. QED BY <1>1, <2>1, <3>1
  <2>. QED BY <1>1, <2>1, <2>2, <2>3, <2>4
<1>. QED BY <1>1, <1>2, <1>3, <1>4, <1>5

\* The server answers once, and sends no more than its reply.
LEMMA ServerPost == ASSUME PostInv, Server PROVE PostInv'
<1>1. /\ UNCHANGED <<pc, flag, todo, fd, dns, conn, body, result, asked, calls,
                     due, wire, inbox>>
      /\ srv' \in Srv /\ srv \in Srv /\ conn \in Conn
      /\ Len(Stream) \in Nat /\ Len(Stream') \in Nat
  <2>1. srv' \in Srv
    BY ServerOutcome
  <2>2. srv \in Srv /\ conn \in Conn
    BY DEF PostInv, TypeOK
  <2>3. srv.chunks \in Bodies /\ srv'.chunks \in Bodies
    BY <2>1, <2>2 DEF Srv
  <2>4. Len(Streams[srv.chunks]) \in Nat /\ Len(Streams[srv'.chunks]) \in Nat
    BY <2>3, StreamType
  <2>. QED BY <2>1, <2>2, <2>4, ServerOutcome DEF Stream
<1>2. TypeOK'
  BY <1>1 DEF PostInv, TypeOK
<1>3. /\ srv.sent \in Nat /\ srv.fin \in BOOLEAN /\ conn.read \in Nat /\ 0 \notin Codes
      /\ conn.life \in {"none", "resolving"} => srv.net = "none"
      /\ conn.life = "open" => srv.net = "open"
      /\ srv.net # "open" => srv.code = 0
      /\ srv.code = 0 => srv.sent = 0 /\ ~srv.fin
      /\ srv.fin => srv.sent > 0
      /\ conn.unsent => srv.code = 0
      /\ conn.read <= srv.sent /\ srv.sent <= Len(Stream) + 1
      /\ flag # 0 => flag = Decision
  BY <1>1, NamedAssumption DEF PostInv, ConnLife, ServerLife, Decided, NamedAssumption, Srv, Conn
<1>4. CASE /\ srv.net = "syn" /\ srv'.net \in {"open", "refused"} /\ UNCHANGED Stream
           /\ srv'.chunks = srv.chunks /\ srv'.code = srv.code
           /\ srv'.sent = srv.sent /\ srv'.fin = srv.fin
  <2>1. flag = 0 /\ srv.code = 0 /\ ~srv.fin /\ srv.sent = 0 /\ conn.read = 0
    BY <1>1, <1>3, <1>4 DEF Decision
  <2>2. ConnLife'
    BY <1>1, <1>3, <1>4 DEF PostInv, ConnLife
  <2>3. ServerLife' /\ StillReady'
    BY <1>1, <1>3, <1>4, <2>1 DEF PostInv, ServerLife, StillReady
  <2>4. Decided'
    BY <1>1, <2>1 DEF PostInv, Decided
  <2>. QED BY <1>1, <1>2, <2>2, <2>3, <2>4 DEF PostInv
<1>5. CASE /\ srv.net = "open" /\ srv.code = 0 /\ ~srv.fin /\ ~conn.unsent
           /\ srv'.net = "open" /\ srv'.code \in Codes
           /\ srv'.sent = srv.sent /\ srv'.fin = srv.fin
  <2>1. flag = 0 /\ srv.sent = 0 /\ conn.read = 0 /\ srv'.code # 0
    BY <1>1, <1>3, <1>5 DEF Decision
  <2>2. ConnLife'
    BY <1>1, <1>5 DEF PostInv, ConnLife
  <2>3. ServerLife' /\ StillReady'
    BY <1>1, <1>3, <1>5, <2>1 DEF PostInv, ServerLife, StillReady
  <2>4. Decided'
    BY <1>1, <2>1 DEF PostInv, Decided
  <2>. QED BY <1>1, <1>2, <2>2, <2>3, <2>4 DEF PostInv
<1>6. CASE /\ srv.code # 0 /\ ~srv.fin /\ srv'.net = srv.net /\ srv'.code = srv.code
           /\ srv'.chunks = srv.chunks /\ UNCHANGED Stream
           /\ \/ srv.sent <= Len(Stream) /\ srv'.sent = srv.sent + 1 /\ ~srv'.fin
              \/ srv'.sent = srv.sent /\ srv'.fin /\ srv.sent > 0
  <2>1. Decision' = Decision
    BY <1>1, <1>6 DEF Decision
  <2>2. ConnLife' /\ Decided'
    BY <1>1, <1>6, <2>1 DEF PostInv, ConnLife, Decided
  <2>3. ServerLife'
    BY <1>1, <1>3, <1>6 DEF PostInv, ServerLife
  <2>4. StillReady'
    BY <1>1, <1>3, <1>6 DEF PostInv, StillReady
  <2>. QED BY <1>1, <1>2, <2>2, <2>3, <2>4 DEF PostInv
<1>. QED BY <1>4, <1>5, <1>6, ServerOutcome

\* The invariant of a post and its reply.
THEOREM PostInvariance == Spec => []PostInv
<1>1. Init => PostInv
  BY PostInit
<1>2. PostInv /\ LookupInv /\ LookupInv' /\ [Next]_vars => PostInv'
  <2>1. SUFFICES ASSUME PostInv, LookupInv, LookupInv', [Next]_vars PROVE PostInv'
    OBVIOUS
  <2>2. CASE Call
    BY <2>1, <2>2, CallPost
  <2>3. CASE Select
    BY <2>1, <2>3, SelectPost
  <2>4. CASE PollDone \/ Return
    BY <2>1, <2>4, LoopPost
  <2>5. CASE HandleDns
    BY <2>1, <2>5, HandleDnsPost
  <2>6. CASE HandleConn
    BY <2>1, <2>6, HandleConnPost
  <2>7. CASE Timeout \/ (\E g \in Datagrams : NameServer(g)) \/ Lose
    BY <2>1, <2>7, NetworkPost
  <2>8. CASE Server
    BY <2>1, <2>8, ServerPost
  <2>9. CASE UNCHANGED vars
    <3>1. TypeOK'
      BY <2>1, <2>9 DEF PostInv, TypeOK, vars, lookupVars
    <3>. QED BY <2>1, <2>9, <3>1, PostUntouched DEF vars, lookupVars
  <2>. QED BY <2>1, <2>2, <2>3, <2>4, <2>5, <2>6, <2>7, <2>8, <2>9
       DEF Next, Running, Terminated
<1>. QED BY <1>1, <1>2, LookupInvariance, PTL DEF Spec

\* The variables of the post, of the lookup and of the server keep their types: the
\* buffer is a sequence of tokens whatever chunks arrive.
THEOREM TypeOKHolds == Spec => []TypeOK
<1>1. PostInv => TypeOK
  BY DEF PostInv
<1>. QED BY <1>1, PostInvariance, PTL

-----------------------------------------------------------------------------
(* http_post by name implements PostRPC.                                   *)

\* Before the call the abstract post is idle.
LEMMA InitMapped == ASSUME Init PROVE RPC!Init
<1>1. Decision = 0
  BY DEF Init, Decision
<1>2. /\ (IF pc \in {"idle", "back"} THEN "idle" ELSE "calling") = "idle"
      /\ (IF pc = "idle" THEN 0 ELSE 1) = 0 /\ result = -2
  BY DEF Init, Pending
<1>3. RPC!Posts = {1} /\ <<Decision>> = [p \in RPC!Posts |-> 0] /\ <<result>> = [p \in RPC!Posts |-> -2]
  BY <1>1, <1>2 DEF RPC!Posts
<1>. QED BY <1>1, <1>2, <1>3 DEF RPC!Init, RPC!Undecided, RPC!Pending

\* A step that leaves the stage, the decision and the result alone stutters.
LEMMA StepStutters ==
  ASSUME UNCHANGED <<pc, result, Decision>> PROVE UNCHANGED RPC!vars
BY DEF RPC!vars

\* A decision of the lookup, the connect or the server.
LEMMA StepDecides ==
  ASSUME pc \in {"loop", "poll"}, UNCHANGED <<pc, result>>, Decision = 0,
         Decision' \in Codes \cup {ConnectFailed}
  PROVE  RPC!Next
<1>1. RPC!Decide
  <2>1. <<Decision'>> = [<<Decision>> EXCEPT ![1] = Decision']
    OBVIOUS
  <2>2. <<Decision>>[1] = 0
    OBVIOUS
  <2>. QED BY <2>1, <2>2 DEF RPC!Decide, RPC!Undecided, RPC!ConnectFailed, ConnectFailed
<1>. QED BY <1>1 DEF RPC!Next

\* Every step of the code is a step of PostRPC, or stutters.
LEMMA StepMapped ==
  ASSUME PostInv, PostInv', LookupInv, [Next]_vars
  PROVE  [RPC!Next]_(RPC!vars)
<1>0. /\ flag # 0 => flag = Decision
      /\ pc = "back" => flag # 0
      /\ pc = "idle" => conn.life = "none"
      /\ conn.life \in {"none", "resolving"} => srv.net = "none"
      /\ srv.net # "open" => srv.code = 0
      /\ conn \in Conn /\ srv \in Srv /\ conn' \in Conn
      /\ pc \in {"idle", "loop", "poll", "back"}
  BY DEF PostInv, Decided, ConnLife, ServerLife, TypeOK
<1>1. CASE Call
  <2>1. /\ pc = "idle" /\ pc' = "loop" /\ UNCHANGED <<srv, result>>
        /\ conn' = [conn EXCEPT !.life = "resolving", !.unsent = TRUE]
    BY <1>1 DEF Call
  <2>2. Decision = 0 /\ Decision' = 0
    BY <1>0, <2>1 DEF Decision, Conn
  <2>3. RPC!Call
    BY <2>1, <2>2 DEF RPC!Call
  <2>. QED BY <2>3 DEF RPC!Next
<1>2. CASE Select \/ PollDone
  <2>1. /\ pc \in {"loop", "poll"} /\ pc' \in {"loop", "poll"} /\ UNCHANGED <<srv, conn, result>>
    BY <1>2 DEF Select, PollDone
  <2>2. UNCHANGED Decision
    BY <2>1 DEF Decision
  <2>. QED BY <2>1, <2>2 DEF RPC!vars
<1>3. CASE Return
  <2>1. /\ pc = "loop" /\ pc' = "back" /\ flag # 0 /\ UNCHANGED <<srv, conn>>
        /\ result' = IF flag = 200 THEN 0 ELSE flag
    BY <1>3 DEF Return
  <2>2. UNCHANGED Decision /\ flag = Decision /\ Decision # 0
    BY <1>0, <2>1 DEF Decision
  <2>3. RPC!Return
    <3>1. <<result'>> = [<<result>> EXCEPT ![1] = RPC!Outcome(Decision)]
      BY <2>1, <2>2 DEF RPC!Outcome
    <3>2. <<Decision>>[1] = Decision
      OBVIOUS
    <3>. QED BY <2>1, <2>2, <3>1, <3>2 DEF RPC!Return, RPC!Undecided
  <2>. QED BY <2>3 DEF RPC!Next
<1>4. CASE HandleDns
  <2>1. /\ pc = "poll" /\ UNCHANGED <<pc, result>>
        /\ \/ UNCHANGED <<conn, srv>>
           \/ dns.req /\ (ResolveFailed \/ ResolveTo)
    BY <1>4, DnsOutcome
  <2>2. CASE UNCHANGED <<conn, srv>>
    <3>1. UNCHANGED Decision
      BY <2>2 DEF Decision
    <3>. QED BY <2>1, <3>1, StepStutters
  <2>3. CASE dns.req /\ (ResolveFailed \/ ResolveTo)
    <3>1. conn.life = "resolving" /\ srv.net = "none" /\ srv.code = 0 /\ Decision = 0
      BY <1>0, <2>3 DEF PostInv, ConnLife, Decision
    <3>2. CASE ResolveFailed
      <4>1. Decision' = ConnectFailed
        BY <1>0, <3>1, <3>2 DEF ResolveFailed, Decision, Conn
      <4>. QED BY <2>1, <3>1, <4>1, StepDecides
    <3>3. CASE ResolveTo
      <4>1. srv' = [srv EXCEPT !.net = "syn"]
        BY <3>3 DEF ResolveTo
      <4>2. srv'.net = "syn" /\ srv'.code = 0
        BY <1>0, <3>1, <4>1 DEF Srv
      <4>3. Decision' = 0
        BY <4>2 DEF Decision
      <4>. QED BY <2>1, <3>1, <4>3, StepStutters
    <3>. QED BY <2>3, <3>2, <3>3
  <2>. QED BY <2>1, <2>2, <2>3
<1>5. CASE HandleConn
  <2>1. /\ "conn" \in todo /\ UNCHANGED <<pc, srv, result>>
    BY <1>5 DEF HandleConn
  <2>2. srv.net # "none"
    BY <2>1 DEF PostInv, ConnLife
  <2>3. UNCHANGED Decision
    BY <2>1, <2>2 DEF Decision
  <2>. QED BY <2>1, <2>3, StepStutters
<1>6. CASE Timeout \/ (\E g \in Datagrams : NameServer(g)) \/ Lose \/ UNCHANGED vars
  <2>1. UNCHANGED <<pc, srv, conn, result>>
    BY <1>6 DEF Timeout, NameServer, Lose, vars, clientVars
  <2>2. UNCHANGED Decision
    BY <2>1 DEF Decision
  <2>. QED BY <2>1, <2>2, StepStutters
<1>7. CASE Server
  <2>1. UNCHANGED <<pc, conn, result, flag>> /\ srv' \in Srv
    BY <1>7, ServerOutcome
  <2>2. CASE srv.net = "syn" /\ srv'.net \in {"open", "refused"} /\ srv'.code = srv.code
    <3>1. srv.code = 0 /\ Decision = 0 /\ pc \in {"loop", "poll"}
      BY <1>0, <2>2 DEF Decision
    <3>2. Decision' \in {0, ConnectFailed}
      BY <2>1, <2>2, <3>1 DEF Decision
    <3>. QED BY <2>1, <3>1, <3>2, StepStutters, StepDecides
  <2>3. CASE srv.net = "open" /\ srv.code = 0 /\ srv'.net = "open" /\ srv'.code \in Codes
    <3>1. Decision = 0 /\ pc \in {"loop", "poll"}
      BY <1>0, <2>3 DEF Decision
    <3>2. Decision' \in Codes
      BY <2>3 DEF Decision
    <3>. QED BY <2>1, <3>1, <3>2, StepDecides
  <2>4. CASE srv'.net = srv.net /\ srv'.code = srv.code
    <3>1. UNCHANGED Decision
      BY <2>1, <2>4 DEF Decision
    <3>. QED BY <2>1, <3>1, StepStutters
  <2>. QED BY <1>7, <2>2, <2>3, <2>4, ServerOutcome
<1>. QED BY <1>1, <1>2, <1>3, <1>4, <1>5, <1>6, <1>7 DEF Next, Running, Terminated

\* A post by name is decided once, by the lookup, the connect or the server, and
\* returns that decision: http_post implements PostRPC.
THEOREM ImplementsRPCHolds == Spec => ImplementsRPC
<1>1. Init => RPC!Init
  BY InitMapped
<1>2. PostInv /\ PostInv' /\ LookupInv /\ [Next]_vars => [RPC!Next]_(RPC!vars)
  BY StepMapped
<1>. QED BY <1>1, <1>2, PostInvariance, LookupInvariance, PTL DEF Spec, ImplementsRPC, RPC!Spec

-----------------------------------------------------------------------------
(* The chunks of a reply, found again in the buffer.                       *)

\* Where the first k chunks end on the wire, and in the body.
WireEnd(chunks, k) == Len(Encoded[chunks][k])
BodyEnd(chunks, k) == Len(Payload[chunks][k])

\* Where the chunks end on the wire and in the body.
LEMMA EndsShape ==
  ASSUME NEW chunks \in Bodies
  PROVE  /\ WireEnd(chunks, 0) = 0 /\ BodyEnd(chunks, 0) = 0
         /\ \A k \in 0..Len(chunks) : WireEnd(chunks, k) \in Nat /\ BodyEnd(chunks, k) \in Nat
         /\ \A k \in 1..Len(chunks) :
              /\ WireEnd(chunks, k) = WireEnd(chunks, k - 1) + Len(chunks[k].size) + Len(chunks[k].data) + 2
              /\ BodyEnd(chunks, k) = BodyEnd(chunks, k - 1) + Len(chunks[k].data)
         /\ Len(Streams[chunks]) = WireEnd(chunks, Len(chunks)) + 3
         /\ Streams[chunks] \in Seq(Tokens)
<1>0. Len(chunks) \in Nat
  BY ChunkShape
<1>1. WireEnd(chunks, 0) = 0 /\ BodyEnd(chunks, 0) = 0
  <2>1. Encoded[chunks][0] = <<>> /\ Payload[chunks][0] = <<>> /\ Len(<<>>) = 0
    BY EncodedRec, PayloadRec
  <2>. QED BY <2>1 DEF WireEnd, BodyEnd
<1>2. ASSUME NEW k \in 0..Len(chunks) PROVE WireEnd(chunks, k) \in Nat /\ BodyEnd(chunks, k) \in Nat
  <2>1. Encoded[chunks][k] \in Seq(Tokens) /\ Payload[chunks][k] \in Seq(Tokens)
    BY StreamType
  <2>. QED BY <2>1, LenProperties DEF WireEnd, BodyEnd
<1>3. ASSUME NEW k \in 1..Len(chunks)
      PROVE  /\ WireEnd(chunks, k) = WireEnd(chunks, k - 1) + Len(chunks[k].size) + Len(chunks[k].data) + 2
             /\ BodyEnd(chunks, k) = BodyEnd(chunks, k - 1) + Len(chunks[k].data)
  <2>. DEFINE e == Encoded[chunks][k - 1]
              p == Payload[chunks][k - 1]
              w == Wire(chunks[k])
              d == chunks[k].data
  <2>1. k - 1 \in 0..Len(chunks)
    BY <1>0
  <2>2. e \in Seq(Tokens) /\ p \in Seq(Tokens)
    BY <2>1, StreamType
  <2>3. w \in Seq(Tokens) /\ Len(w) = Len(chunks[k].size) + Len(d) + 2
    BY WireShape
  <2>4. d \in Seq(Tokens) /\ Len(d) \in Nat /\ Len(chunks[k].size) \in Nat
    BY ChunkShape
  <2>5. Encoded[chunks][k] = e \o w /\ Payload[chunks][k] = p \o d
    BY EncodedRec, PayloadRec
  <2>6. WireEnd(chunks, k - 1) = Len(e) /\ BodyEnd(chunks, k - 1) = Len(p)
    BY DEF WireEnd, BodyEnd
  <2>. HIDE DEF e, p, w, d
  <2>7. Len(e \o w) = Len(e) + Len(w) /\ Len(p \o d) = Len(p) + Len(d) /\ Len(e) \in Nat
    BY <2>2, <2>3, <2>4, Joined
  <2>8. WireEnd(chunks, k) = Len(e) + Len(w) /\ BodyEnd(chunks, k) = Len(p) + Len(d)
    BY <2>5, <2>7 DEF WireEnd, BodyEnd
  <2>9. Len(e) + Len(w) = Len(e) + Len(chunks[k].size) + Len(d) + 2
    BY <2>3, <2>4, <2>7
  <2>. QED BY <2>6, <2>8, <2>9 DEF d
<1>4. Len(Streams[chunks]) = WireEnd(chunks, Len(chunks)) + 3 /\ Streams[chunks] \in Seq(Tokens)
  BY StreamType DEF WireEnd
<1>. QED BY <1>1, <1>2, <1>3, <1>4

\* Later chunks end later.
LEMMA EndsGrow ==
  ASSUME NEW chunks \in Bodies, NEW k \in 0..Len(chunks), NEW m \in k..Len(chunks)
  PROVE  /\ WireEnd(chunks, k) <= WireEnd(chunks, m) /\ BodyEnd(chunks, k) <= BodyEnd(chunks, m)
         /\ k < m => WireEnd(chunks, k) < WireEnd(chunks, m)
<1>. DEFINE E(j) == WireEnd(chunks, j)
            B(j) == BodyEnd(chunks, j)
            T == {x \in Nat : k + x <= Len(chunks) =>
                    E(k) <= E(k + x) /\ B(k) <= B(k + x) /\ (x > 0 => E(k) < E(k + x))}
<1>0. Len(chunks) \in Nat /\ k \in Nat /\ m \in Nat /\ m - k \in Nat /\ k + (m - k) = m
  BY ChunkShape
<1>1. \A j \in 0..Len(chunks) : E(j) \in Nat /\ B(j) \in Nat
  BY EndsShape
<1>2. ASSUME NEW j \in 1..Len(chunks) PROVE E(j - 1) < E(j) /\ B(j - 1) <= B(j)
  <2>1. /\ E(j) = E(j - 1) + Len(chunks[j].size) + Len(chunks[j].data) + 2
        /\ B(j) = B(j - 1) + Len(chunks[j].data)
    BY EndsShape
  <2>2. Len(chunks[j].size) \in Nat /\ Len(chunks[j].data) \in Nat
    BY ChunkShape
  <2>3. j - 1 \in 0..Len(chunks)
    BY <1>0
  <2>4. E(j - 1) \in Nat /\ B(j - 1) \in Nat
    BY <1>1, <2>3
  <2>. DEFINE z == Len(chunks[j].size)
              d == Len(chunks[j].data)
              e == E(j - 1)
              b == B(j - 1)
  <2>5. E(j) = e + z + d + 2 /\ B(j) = b + d
    BY <2>1
  <2>6. z \in Nat /\ d \in Nat /\ e \in Nat /\ b \in Nat
    BY <2>2, <2>4
  <2>. HIDE DEF E, B, z, d, e, b
  <2>7. e < e + z + d + 2 /\ b <= b + d
    BY <2>6
  <2>. QED BY <2>5, <2>7 DEF e, b
<1>. HIDE DEF E, B
<1>3. 0 \in T
  <2>1. k + 0 = k /\ E(k) \in Nat /\ B(k) \in Nat
    BY <1>0, <1>1
  <2>. QED BY <2>1
<1>4. ASSUME NEW x \in T PROVE x + 1 \in T
  <2>1. x \in Nat
    OBVIOUS
  <2>2. SUFFICES ASSUME k + (x + 1) <= Len(chunks)
                 PROVE  E(k) < E(k + (x + 1)) /\ B(k) <= B(k + (x + 1))
    BY <1>0, <1>1, <2>1
  <2>3. k + x \in 0..Len(chunks) /\ k + (x + 1) \in 1..Len(chunks) /\ (k + (x + 1)) - 1 = k + x
    BY <1>0, <2>1, <2>2
  <2>4. E(k) <= E(k + x) /\ B(k) <= B(k + x)
    BY <2>3
  <2>5. E(k + x) < E(k + (x + 1)) /\ B(k + x) <= B(k + (x + 1))
    BY <1>2, <2>3
  <2>6. /\ E(k) \in Nat /\ E(k + x) \in Nat /\ E(k + (x + 1)) \in Nat
        /\ B(k) \in Nat /\ B(k + x) \in Nat /\ B(k + (x + 1)) \in Nat
    BY <1>0, <1>1, <2>3
  <2>. QED BY <2>4, <2>5, <2>6
<1>5. m - k \in T
  <2>. HIDE DEF T
  <2>1. T \in SUBSET Nat
    BY DEF T
  <2>. QED BY <1>0, <1>3, <1>4, <2>1, SetInduction
<1>6. E(k) <= E(m) /\ B(k) <= B(m) /\ (m - k > 0 => E(k) < E(m))
  BY <1>0, <1>5
<1>. QED BY <1>0, <1>6 DEF E, B

\* The stream, chunk by chunk.
LEMMA StreamAt ==
  ASSUME NEW chunks \in Bodies
  PROVE  /\ \A k \in 1..Len(chunks) : \A j \in 1..Len(Wire(chunks[k])) :
              Streams[chunks][WireEnd(chunks, k - 1) + j] = Wire(chunks[k])[j]
         /\ Streams[chunks][WireEnd(chunks, Len(chunks)) + 1] = "0"
         /\ Streams[chunks][WireEnd(chunks, Len(chunks)) + 2] = Newline
         /\ Streams[chunks][WireEnd(chunks, Len(chunks)) + 3] = Newline
<1>. DEFINE N == Len(chunks)
            St == Streams[chunks]
            Same(k) == \A j \in 1..WireEnd(chunks, k) : St[j] = Encoded[chunks][k][j]
            T == {m \in Nat : m <= N => Same(N - m)}
            tail == <<"0", Newline, Newline>>
<1>0. N \in Nat /\ \A k \in 0..N : Encoded[chunks][k] \in Seq(Tokens) /\ WireEnd(chunks, k) \in Nat
  BY ChunkShape, StreamType, EndsShape
<1>1. St = Encoded[chunks][N] \o tail
  BY DEF Streams
<1>2. tail \in Seq(Tokens) /\ Len(tail) = 3 /\ tail[1] = "0" /\ tail[2] = Newline /\ tail[3] = Newline
  BY DEF Tokens, Digits
<1>. HIDE DEF N, tail
<1>3. ASSUME NEW k \in 1..N
      PROVE  /\ Encoded[chunks][k] = Encoded[chunks][k - 1] \o Wire(chunks[k])
             /\ Encoded[chunks][k - 1] \in Seq(Tokens) /\ Wire(chunks[k]) \in Seq(Tokens)
             /\ WireEnd(chunks, k) = WireEnd(chunks, k - 1) + Len(Wire(chunks[k]))
             /\ WireEnd(chunks, k - 1) \in Nat /\ Len(Wire(chunks[k])) \in Nat
  <2>1. k - 1 \in 0..N
    BY <1>0
  <2>2. Encoded[chunks][k - 1] \in Seq(Tokens) /\ WireEnd(chunks, k - 1) \in Nat
    BY <1>0, <2>1
  <2>3. Encoded[chunks][k] = Encoded[chunks][k - 1] \o Wire(chunks[k])
    BY EncodedRec DEF N
  <2>4. Wire(chunks[k]) \in Seq(Tokens)
    BY WireShape DEF N
  <2>. QED BY <2>2, <2>3, <2>4, Joined DEF WireEnd
<1>4. Same(N)
  <2>. DEFINE e == Encoded[chunks][N]
  <2>1. e \in Seq(Tokens) /\ WireEnd(chunks, N) = Len(e) /\ St = e \o tail
    BY <1>0, <1>1 DEF WireEnd
  <2>. HIDE DEF e, St
  <2>2. \A j \in 1..Len(e) : (e \o tail)[j] = e[j]
    BY <1>2, <2>1, Joined
  <2>. QED BY <2>1, <2>2 DEF e
<1>5. 0 \in T
  <2>1. N - 0 = N
    BY <1>0
  <2>. HIDE DEF Same
  <2>. QED BY <1>4, <2>1
<1>6. ASSUME NEW m \in T PROVE m + 1 \in T
  <2>1. m \in Nat /\ (m <= N => Same(N - m))
    OBVIOUS
  <2>2. SUFFICES ASSUME m + 1 <= N PROVE Same(N - (m + 1))
    BY <2>1
  <2>. DEFINE k == N - m
              e == Encoded[chunks][k - 1]
              w == Wire(chunks[k])
  <2>3. k \in 1..N /\ k - 1 = N - (m + 1) /\ Same(k)
    BY <1>0, <2>1, <2>2
  <2>4. /\ Encoded[chunks][k] = e \o w /\ e \in Seq(Tokens) /\ w \in Seq(Tokens)
        /\ WireEnd(chunks, k) = WireEnd(chunks, k - 1) + Len(w)
        /\ WireEnd(chunks, k - 1) = Len(e)
    BY <1>3, <2>3 DEF WireEnd
  <2>. HIDE DEF k, e, w, St
  <2>5. \A j \in 1..Len(e) : (e \o w)[j] = e[j]
    BY <2>4, Joined
  <2>6. ASSUME NEW j \in 1..WireEnd(chunks, k - 1) PROVE St[j] = Encoded[chunks][k - 1][j]
    <3>1. j \in 1..Len(e) /\ j \in 1..WireEnd(chunks, k)
      BY <2>4, Joined
    <3>2. St[j] = Encoded[chunks][k][j]
      BY <2>3, <3>1
    <3>. QED BY <2>4, <2>5, <3>1, <3>2 DEF e
  <2>7. Same(k - 1)
    BY <2>6
  <2>. HIDE DEF Same
  <2>. QED BY <2>3, <2>7
<1>7. T = Nat
  <2>. HIDE DEF T
  <2>1. T \in SUBSET Nat
    BY DEF T
  <2>. QED BY <1>5, <1>6, <2>1, SetInduction
<1>8. ASSUME NEW k \in 0..N PROVE Same(k)
  <2>1. N - k \in T /\ N - k <= N /\ N - (N - k) = k
    <3>. HIDE DEF T
    <3>. QED BY <1>0, <1>7
  <2>. HIDE DEF Same
  <2>2. Same(N - (N - k))
    BY <2>1
  <2>. QED BY <2>1, <2>2
<1>9. ASSUME NEW k \in 1..N, NEW j \in 1..Len(Wire(chunks[k]))
      PROVE  St[WireEnd(chunks, k - 1) + j] = Wire(chunks[k])[j]
  <2>. DEFINE e == Encoded[chunks][k - 1]
              w == Wire(chunks[k])
  <2>1. /\ Encoded[chunks][k] = e \o w /\ e \in Seq(Tokens) /\ w \in Seq(Tokens)
        /\ WireEnd(chunks, k) = WireEnd(chunks, k - 1) + Len(w) /\ Len(w) \in Nat
        /\ WireEnd(chunks, k - 1) = Len(e) /\ Len(e) \in Nat
    BY <1>3 DEF WireEnd
  <2>2. k \in 0..N
    BY <1>0
  <2>3. Same(k) /\ j \in 1..Len(w)
    BY <1>8, <2>2
  <2>. HIDE DEF e, w, St
  <2>4. Len(e) + j \in 1..WireEnd(chunks, k)
    BY <2>1, <2>3
  <2>5. St[Len(e) + j] = (e \o w)[Len(e) + j]
    BY <2>1, <2>3, <2>4
  <2>6. (e \o w)[Len(e) + j] = w[j]
    BY <2>1, <2>3, Joined
  <2>. QED BY <2>1, <2>5, <2>6 DEF w
<1>10. /\ St[WireEnd(chunks, N) + 1] = "0" /\ St[WireEnd(chunks, N) + 2] = Newline
       /\ St[WireEnd(chunks, N) + 3] = Newline
  <2>. DEFINE e == Encoded[chunks][N]
  <2>1. e \in Seq(Tokens) /\ WireEnd(chunks, N) = Len(e) /\ St = e \o tail
    BY <1>0, <1>1 DEF WireEnd
  <2>. HIDE DEF e, St
  <2>2. \A j \in 1..Len(tail) : (e \o tail)[Len(e) + j] = tail[j]
    BY <1>2, <2>1, Joined
  <2>3. 1 \in 1..Len(tail) /\ 2 \in 1..Len(tail) /\ 3 \in 1..Len(tail)
    BY <1>2
  <2>. QED BY <1>2, <2>1, <2>2, <2>3
<1>. QED BY <1>9, <1>10 DEF N

\* A chunk of which the first r tokens are there is parsed as soon as all are.
LEMMA ParseWire ==
  ASSUME NEW chunks \in Bodies, NEW k \in 1..Len(chunks),
         NEW s \in Seq(Tokens), NEW i \in 0..Len(s),
         \A j \in 1..(Len(s) - i) : j <= Len(Wire(chunks[k])) => s[i + j] = Wire(chunks[k])[j]
  PROVE  ParseChunk(s, i) = IF Len(Wire(chunks[k])) <= Len(s) - i
                              THEN [total |-> Len(Wire(chunks[k])), data |-> chunks[k].data]
                              ELSE [total |-> 0, data |-> <<>>]
<1>. DEFINE c == chunks[k]
            z == Len(c.size)
            d == Len(c.data)
            w == Wire(c)
            r == Len(s) - i
<1>1. /\ z \in 1..MaxDigits /\ z \in Nat /\ d \in Nat \ {0} /\ c.data \in Seq(Tokens)
      /\ SizeOf(c.size, 0, z) = d
      /\ \A j \in 1..z : c.size[j] \in Digits
      /\ i \in Nat /\ Len(s) \in Nat /\ r \in Nat
  <2>1. MaxDigits \in Nat
    BY DigitsAssumption DEF DigitsAssumption
  <2>2. c.size \in Seq(Digits) /\ z \in 1..MaxDigits /\ d \in Nat \ {0} /\ c.data \in Seq(Tokens)
        /\ SizeOf(c.size, 0, z) = d
    BY ChunkShape
  <2>. QED BY <2>1, <2>2, ElementOfSeq
<1>2. /\ Len(w) = z + d + 2
      /\ \A j \in 1..z : w[j] = c.size[j]
      /\ w[z + 1] = Newline
      /\ \A j \in 1..d : w[z + 1 + j] = c.data[j]
      /\ w[z + d + 2] = Newline
  BY WireShape
<1>3. ASSUME NEW j \in 1..r, j <= z + d + 2 PROVE s[i + j] = w[j]
  BY <1>2, <1>3
<1>4. Newline \notin Digits
  BY DEF Newline, Digits
<1>. HIDE DEF c, z, d, w, r
<1>5. CASE r <= z
  <2>1. DigitRun(s, i) = r
    <3>1. ASSUME NEW j \in 1..r PROVE s[i + j] \in Digits
      <4>1. j \in 1..z /\ j <= z + d + 2
        BY <1>1, <1>5
      <4>2. s[i + j] = w[j]
        BY <1>3, <4>1
      <4>. QED BY <1>1, <1>2, <4>1, <4>2
    <3>2. r \in 0..(Len(s) - i) /\ ~(r < Len(s) - i)
      BY <1>1 DEF r
    <3>. QED BY <3>1, <3>2, DigitRunIs
  <2>2. ~NewlineAt(s, i + r + 1)
    BY <1>1 DEF NewlineAt, r
  <2>3. ParseChunk(s, i) = [total |-> 0, data |-> <<>>]
    BY <2>1, <2>2 DEF ParseChunk
  <2>4. ~(Len(w) <= r)
    BY <1>1, <1>2, <1>5
  <2>. QED BY <2>3, <2>4 DEF w, c, r
<1>6. CASE r > z
  <2>1. /\ \A j \in 1..z : s[i + j] \in Digits /\ s[i + j] = c.size[0 + j]
        /\ s[i + (z + 1)] = Newline
    <3>1. ASSUME NEW j \in 1..z PROVE s[i + j] \in Digits /\ s[i + j] = c.size[0 + j]
      <4>1. j \in 1..r /\ j <= z + d + 2 /\ 0 + j = j
        BY <1>1, <1>6
      <4>2. s[i + j] = w[j]
        BY <1>3, <4>1
      <4>. QED BY <1>1, <1>2, <4>1, <4>2
    <3>2. z + 1 \in 1..r /\ z + 1 <= z + d + 2
      BY <1>1, <1>6
    <3>. QED BY <1>2, <1>3, <3>1, <3>2
  <2>2. i + (z + 1) = i + z + 1
    BY <1>1
  <2>3. DigitRun(s, i) = z
    <3>1. z \in 0..(Len(s) - i) /\ s[i + z + 1] \notin Digits
      BY <1>1, <1>4, <1>6, <2>1, <2>2 DEF r
    <3>. QED BY <2>1, <3>1, DigitRunIs
  <2>4. SizeOf(s, i, z) = d
    <3>1. SameDigits(s, i, c.size, 0, z) /\ 0 \in Nat
      BY <2>1 DEF SameDigits
    <3>2. SizeOf(s, i, z) = SizeOf(c.size, 0, z)
      BY <1>1, <3>1, SizeOfDigits
    <3>. QED BY <1>1, <3>2
  <2>5. NewlineAt(s, i + z + 1)
    BY <1>1, <1>6, <2>1, <2>2 DEF NewlineAt, r
  <2>6. CASE r < z + d + 2
    <3>1. ~NewlineAt(s, i + z + 1 + d + 1)
      BY <1>1, <2>6 DEF NewlineAt, r
    <3>2. ParseChunk(s, i) = [total |-> 0, data |-> <<>>]
      BY <2>3, <2>4, <3>1 DEF ParseChunk
    <3>3. ~(Len(w) <= r)
      BY <1>1, <1>2, <2>6
    <3>. QED BY <3>2, <3>3 DEF w, c, r
  <2>7. CASE r >= z + d + 2
    <3>1. NewlineAt(s, i + z + 1 + d + 1)
      <4>1. z + d + 2 \in 1..r /\ i + (z + d + 2) = i + z + 1 + d + 1 /\ i + (z + d + 2) <= Len(s)
        BY <1>1, <2>7 DEF r
      <4>2. s[i + (z + d + 2)] = Newline
        BY <1>2, <1>3, <4>1
      <4>. QED BY <4>1, <4>2 DEF NewlineAt
    <3>2. ParseChunk(s, i) = [total |-> z + d + 2,
                              data |-> SubSeq(s, i + z + 2, i + z + 1 + d)]
      BY <1>1, <2>3, <2>4, <2>5, <3>1 DEF ParseChunk
    <3>3. SubSeq(s, i + z + 2, i + z + 1 + d) = c.data
      <4>. DEFINE a == i + z + 2
                  b == i + z + 1 + d
                  x == SubSeq(s, a, b)
      <4>1. a \in Int /\ b \in Int /\ a >= 1 /\ b <= Len(s) /\ a <= b /\ b - a + 1 = d
        <5>1. i \in Nat /\ z \in Nat /\ d \in Nat /\ d >= 1 /\ Len(s) \in Nat
              /\ Len(s) - i >= z + d + 2
          BY <1>1, <2>7 DEF r
        <5>. QED BY <5>1
      <4>2. ASSUME NEW j \in a..b PROVE s[j] \in Tokens
        <5>. HIDE DEF a, b
        <5>1. j \in 1..Len(s)
          BY <1>1, <4>1
        <5>. QED BY <1>1, <5>1, ElementOfSeq
      <4>3. \A j \in 1..d : a + j - 1 = i + (z + 1 + j)
        BY <1>1
      <4>. HIDE DEF a, b
      <4>4. /\ x \in Seq(Tokens) /\ Len(x) = d
            /\ \A j \in 1..d : x[j] = s[a + j - 1]
        BY <4>1, <4>2, SubSeqProperties
      <4>. HIDE DEF x
      <4>5. ASSUME NEW j \in 1..d PROVE x[j] = c.data[j]
        <5>1. z + 1 + j \in 1..r /\ z + 1 + j <= z + d + 2
          BY <1>1, <2>7
        <5>2. s[i + (z + 1 + j)] = c.data[j]
          BY <1>2, <1>3, <5>1
        <5>. QED BY <4>3, <4>4, <5>2
      <4>6. Len(x) = Len(c.data)
        BY <4>4 DEF d
      <4>7. x = c.data
        BY <1>1, <4>4, <4>5, <4>6, SeqEqual
      <4>. QED BY <4>7 DEF x, a, b
    <3>4. Len(w) <= r
      BY <1>2, <2>7
    <3>. QED BY <1>2, <3>2, <3>3, <3>4 DEF w, c, r
  <2>. QED BY <1>1, <2>6, <2>7
<1>. QED BY <1>1, <1>5, <1>6

\* The empty chunk at the end.
LEMMA ParseTail ==
  ASSUME NEW s \in Seq(Tokens), NEW i \in 0..Len(s), Len(s) - i <= 3,
         Len(s) - i >= 1 => s[i + 1] = "0",
         Len(s) - i >= 2 => s[i + 2] = Newline,
         Len(s) - i >= 3 => s[i + 3] = Newline
  PROVE  ParseChunk(s, i) = [total |-> IF Len(s) - i = 3 THEN 3 ELSE 0, data |-> <<>>]
<1>. DEFINE r == Len(s) - i
<1>1. r \in 0..3 /\ i \in Nat /\ Len(s) \in Nat /\ MaxDigits \in Nat \ {0}
  BY DigitsAssumption DEF DigitsAssumption
<1>2. "0" \in Digits /\ Newline \notin Digits
  BY DEF Digits, Newline
<1>3. CASE r = 0
  <2>1. DigitRun(s, i) = 0
    BY <1>1, <1>3, DigitRunIs
  <2>. QED BY <1>3, <2>1 DEF ParseChunk
<1>4. CASE r >= 1
  <2>1. s[i + 1] = "0"
    BY <1>4
  <2>2. r >= 2 => s[i + 1 + 1] = Newline
    <3>1. i + 1 + 1 = i + 2
      BY <1>1
    <3>. QED BY <3>1
  <2>3. DigitRun(s, i) = 1
    <3>1. 1 \in 0..(Len(s) - i) /\ \A j \in 1..1 : s[i + j] \in Digits
      BY <1>1, <1>2, <1>4, <2>1
    <3>2. 1 < Len(s) - i => s[i + 1 + 1] \notin Digits
      BY <1>1, <1>2, <2>2
    <3>. QED BY <3>1, <3>2, DigitRunIs
  <2>4. SizeOf(s, i, 1) = 0
    <3>1. PICK v : SizeOf(s, i, 1) = v[1] /\ Values(v, s, i, 1)
      BY <1>1, SizeOfRec
    <3>2. v[0] = 0 /\ v[1] = Base * v[0] + DigitValue[s[i + 1]]
      <4>1. 1 \in 1..1 /\ 1 - 1 = 0
        OBVIOUS
      <4>. QED BY <3>1, <4>1 DEF Values
    <3>3. DigitValue["0"] = 0
      BY DEF DigitValue, Digits
    <3>. QED BY <2>1, <3>1, <3>2, <3>3 DEF Base
  <2>5. 1 \in 1..MaxDigits /\ i + 1 + 1 + 0 + 1 = i + 3 /\ i + 1 + 1 = i + 2
    BY <1>1
  <2>6. CASE r = 3
    <3>1. NewlineAt(s, i + 1 + 1) /\ NewlineAt(s, i + 1 + 1 + 0 + 1)
      BY <1>1, <2>5, <2>6 DEF NewlineAt
    <3>2. ParseChunk(s, i) = [total |-> 1 + 0 + 2, data |-> SubSeq(s, i + 1 + 2, i + 1 + 1 + 0)]
      BY <2>3, <2>4, <2>5, <3>1 DEF ParseChunk
    <3>3. SubSeq(s, i + 1 + 2, i + 1 + 1 + 0) = <<>>
      BY <1>1, SubSeqEmpty
    <3>. QED BY <2>6, <3>2, <3>3
  <2>7. CASE r # 3
    <3>1. ~NewlineAt(s, i + 1 + 1 + 0 + 1)
      BY <1>1, <2>5, <2>7 DEF NewlineAt
    <3>2. ParseChunk(s, i) = [total |-> 0, data |-> <<>>]
      BY <2>3, <2>4, <3>1 DEF ParseChunk
    <3>. QED BY <2>7, <3>2
  <2>. QED BY <2>6, <2>7
<1>. QED BY <1>1, <1>3, <1>4

\* Putting three sequences together.
LEMMA Assoc ==
  ASSUME NEW a \in Seq(Tokens), NEW b \in Seq(Tokens), NEW c \in Seq(Tokens)
  PROVE  a \o (b \o c) = (a \o b) \o c
BY ConcatAssociative, SMTT(30)

\* k chunks of the reply are there, and less than one more.
WholeChunks(chunks, got, k) ==
  /\ k \in 0..Len(chunks) /\ WireEnd(chunks, k) <= got
  /\ k < Len(chunks) => got < WireEnd(chunks, k + 1)

\* The buffer: k chunks put together, and what has arrived behind them.
Buffer(chunks, k, got) ==
  Payload[chunks][k] \o SubSeq(Streams[chunks], WireEnd(chunks, k) + 1, got)

\* The tokens of the buffer: those of the body, then those of the stream.
LEMMA BufferShape ==
  ASSUME NEW chunks \in Bodies, NEW k \in 0..Len(chunks), NEW got \in Nat,
         WireEnd(chunks, k) <= got, got <= Len(Streams[chunks])
  PROVE  LET s == Buffer(chunks, k, got)
             tail == SubSeq(Streams[chunks], WireEnd(chunks, k) + 1, got)
         IN  /\ s \in Seq(Tokens) /\ tail \in Seq(Tokens)
             /\ Len(s) = BodyEnd(chunks, k) + (got - WireEnd(chunks, k))
             /\ Len(tail) = got - WireEnd(chunks, k)
             /\ \A j \in 1..BodyEnd(chunks, k) : s[j] = Payload[chunks][k][j]
             /\ \A j \in 1..(got - WireEnd(chunks, k)) :
                  /\ s[BodyEnd(chunks, k) + j] = Streams[chunks][WireEnd(chunks, k) + j]
                  /\ tail[j] = Streams[chunks][WireEnd(chunks, k) + j]
<1>. DEFINE p == Payload[chunks][k]
            St == Streams[chunks]
            E == WireEnd(chunks, k)
            x == SubSeq(St, E + 1, got)
<1>1. /\ p \in Seq(Tokens) /\ St \in Seq(Tokens) /\ E \in Nat
      /\ BodyEnd(chunks, k) = Len(p) /\ Len(p) \in Nat
      /\ E <= got /\ got <= Len(St)
  BY StreamType, EndsShape DEF BodyEnd
<1>2. Buffer(chunks, k, got) = p \o x
  BY DEF Buffer
<1>. HIDE DEF p, St, E
<1>3. \A j \in (E + 1)..got : St[j] \in Tokens
  BY <1>1, ElementOfSeq
<1>4. /\ x \in Seq(Tokens) /\ Len(x) = IF E + 1 <= got THEN got - (E + 1) + 1 ELSE 0
      /\ \A j \in 1..(got - (E + 1) + 1) : x[j] = St[E + 1 + j - 1]
  <2>1. E + 1 \in Int /\ got \in Int
    BY <1>1
  <2>. QED BY <1>3, <2>1, SubSeqProperties
<1>5. Len(x) = got - E
  BY <1>1, <1>4
<1>6. ASSUME NEW j \in 1..(got - E) PROVE x[j] = St[E + j]
  <2>1. j \in 1..(got - (E + 1) + 1) /\ E + 1 + j - 1 = E + j
    BY <1>1
  <2>. QED BY <1>4, <2>1
<1>. HIDE DEF x
<1>7. /\ p \o x \in Seq(Tokens) /\ Len(p \o x) = Len(p) + Len(x)
      /\ \A j \in 1..Len(p) : (p \o x)[j] = p[j]
      /\ \A j \in 1..Len(x) : (p \o x)[Len(p) + j] = x[j]
  BY <1>1, <1>4, Joined
<1>8. ASSUME NEW j \in 1..(got - E)
      PROVE  (p \o x)[Len(p) + j] = St[E + j] /\ x[j] = St[E + j]
  BY <1>5, <1>6, <1>7
<1>. QED BY <1>1, <1>2, <1>4, <1>5, <1>7, <1>8 DEF p, St, E, x

\* What chunk m makes of the buffer, at its position there.
LEMMA ParseBuffer ==
  ASSUME NEW chunks \in Bodies, NEW k \in 0..Len(chunks), NEW m \in k..Len(chunks),
         NEW got \in Nat, WireEnd(chunks, m) <= got, got <= Len(Streams[chunks])
  PROVE  LET s == Buffer(chunks, k, got)
             i == BodyEnd(chunks, k) + (WireEnd(chunks, m) - WireEnd(chunks, k))
         IN  /\ i \in 0..Len(s) /\ Len(s) - i = got - WireEnd(chunks, m)
             /\ m < Len(chunks) /\ WireEnd(chunks, m + 1) <= got =>
                  ParseChunk(s, i) = [total |-> WireEnd(chunks, m + 1) - WireEnd(chunks, m),
                                      data |-> chunks[m + 1].data]
             /\ m < Len(chunks) /\ got < WireEnd(chunks, m + 1) =>
                  ParseChunk(s, i) = [total |-> 0, data |-> <<>>]
             /\ m = Len(chunks) =>
                  ParseChunk(s, i) = [total |-> IF got = Len(Streams[chunks]) THEN 3 ELSE 0,
                                      data |-> <<>>]
<1>. DEFINE N == Len(chunks)
            St == Streams[chunks]
            Ek == WireEnd(chunks, k)
            Em == WireEnd(chunks, m)
            En == WireEnd(chunks, m + 1)
            Ee == WireEnd(chunks, N)
            B == BodyEnd(chunks, k)
            s == Buffer(chunks, k, got)
            i == B + (Em - Ek)
<1>1. /\ N \in Nat /\ m \in Nat /\ k \in Nat /\ m \in 0..N /\ Em \in Nat /\ Ek \in Nat
      /\ B \in Nat /\ Ek <= Em /\ Em <= got /\ got <= Len(St) /\ Len(St) = Ee + 3
      /\ Ee \in Nat /\ (m = N => Em = Ee)
  <2>1. N \in Nat /\ m \in Nat /\ k \in Nat /\ m \in 0..N /\ N \in 0..N
    BY ChunkShape
  <2>. QED BY <2>1, EndsShape, EndsGrow
<1>2. /\ s \in Seq(Tokens) /\ Len(s) = B + (got - Ek)
      /\ \A j \in 1..(got - Ek) : s[B + j] = St[Ek + j]
  <2>1. WireEnd(chunks, k) <= got
    BY <1>1
  <2>. QED BY <1>1, <2>1, BufferShape
<1>3. m < N => /\ m + 1 \in 1..N /\ (m + 1) - 1 = m
               /\ En = Em + Len(Wire(chunks[m + 1]))
               /\ Len(Wire(chunks[m + 1])) \in Nat
               /\ \A j \in 1..Len(Wire(chunks[m + 1])) : St[Em + j] = Wire(chunks[m + 1])[j]
  <2>1. SUFFICES ASSUME m < N
                 PROVE /\ m + 1 \in 1..N /\ (m + 1) - 1 = m
                       /\ En = Em + Len(Wire(chunks[m + 1]))
                       /\ Len(Wire(chunks[m + 1])) \in Nat
                       /\ \A j \in 1..Len(Wire(chunks[m + 1])) : St[Em + j] = Wire(chunks[m + 1])[j]
    OBVIOUS
  <2>2. m + 1 \in 1..N /\ (m + 1) - 1 = m
    BY <1>1, <2>1
  <2>. DEFINE c == chunks[m + 1]
  <2>3. Len(Wire(c)) = Len(c.size) + Len(c.data) + 2 /\ Len(c.size) \in Nat /\ Len(c.data) \in Nat
    <3>1. Len(Wire(c)) = Len(c.size) + Len(c.data) + 2
      BY <2>2, WireShape
    <3>2. Len(c.data) \in Nat /\ Len(c.size) \in 1..MaxDigits
      BY <2>2, ChunkShape
    <3>3. Len(c.size) \in Nat
      BY <3>2, DigitsAssumption DEF DigitsAssumption
    <3>. QED BY <3>1, <3>2, <3>3
  <2>4. En = Em + Len(c.size) + Len(c.data) + 2
    BY <2>2, EndsShape
  <2>5. \A j \in 1..Len(Wire(c)) : St[WireEnd(chunks, (m + 1) - 1) + j] = Wire(c)[j]
    BY <2>2, StreamAt
  <2>6. \A j \in 1..Len(Wire(c)) : St[Em + j] = Wire(c)[j]
    BY <2>2, <2>5
  <2>. HIDE DEF c, Em, En
  <2>7. En = Em + Len(Wire(c)) /\ Len(Wire(c)) \in Nat
    <3>1. Em \in Nat
      BY <1>1
    <3>. DEFINE x == Len(c.size)
                y == Len(c.data)
                z == Len(Wire(c))
    <3>2. z = x + y + 2 /\ En = Em + x + y + 2 /\ x \in Nat /\ y \in Nat
      BY <2>3, <2>4
    <3>. HIDE DEF x, y, z
    <3>3. En = Em + z /\ z \in Nat
      BY <3>1, <3>2
    <3>. QED BY <3>3 DEF z
  <2>. QED BY <2>2, <2>6, <2>7 DEF c, Em, En
<1>4. St[Ee + 1] = "0" /\ St[Ee + 2] = Newline /\ St[Ee + 3] = Newline
  BY StreamAt
<1>. HIDE DEF N, St, Ek, Em, En, Ee, B, s
<1>5. i \in 0..Len(s) /\ Len(s) - i = got - Em /\ i \in Nat /\ Len(s) \in Nat
  <2>. DEFINE l == Len(s)
  <2>1. /\ l = B + (got - Ek) /\ i = B + (Em - Ek) /\ B \in Nat /\ Ek \in Nat /\ Em \in Nat
        /\ Ek <= Em /\ Em <= got /\ got \in Nat
    BY <1>1, <1>2
  <2>. HIDE DEF l, i
  <2>2. i \in 0..l /\ l - i = got - Em /\ i \in Nat /\ l \in Nat
    BY <2>1
  <2>. QED BY <2>2 DEF l
<1>6. ASSUME NEW j \in 1..(Len(s) - i) PROVE s[i + j] = St[Em + j]
  <2>0. j \in 1..(got - Em) /\ j \in Nat
    BY <1>5
  <2>1. (Em - Ek) + j \in 1..(got - Ek)
    BY <1>1, <2>0
  <2>2. s[B + ((Em - Ek) + j)] = St[Ek + ((Em - Ek) + j)]
    BY <1>2, <2>1
  <2>3. B + ((Em - Ek) + j) = i + j /\ Ek + ((Em - Ek) + j) = Em + j
    BY <1>1
  <2>. QED BY <2>2, <2>3
<1>. HIDE DEF i
<1>7. ASSUME m < N
      PROVE  ParseChunk(s, i) = IF En <= got
                                  THEN [total |-> En - Em, data |-> chunks[m + 1].data]
                                  ELSE [total |-> 0, data |-> <<>>]
  <2>. DEFINE w == Wire(chunks[m + 1])
  <2>1. /\ m + 1 \in 1..N /\ En = Em + Len(w) /\ Len(w) \in Nat
        /\ \A j \in 1..Len(w) : St[Em + j] = w[j]
    BY <1>3, <1>7
  <2>2. ASSUME NEW j \in 1..(Len(s) - i), j <= Len(w) PROVE s[i + j] = w[j]
    <3>. HIDE DEF w
    <3>1. j \in 1..Len(w)
      BY <1>5, <2>1, <2>2
    <3>. QED BY <1>6, <2>1, <3>1
  <2>3. ParseChunk(s, i) = IF Len(w) <= Len(s) - i
                             THEN [total |-> Len(w), data |-> chunks[m + 1].data]
                             ELSE [total |-> 0, data |-> <<>>]
    BY <1>2, <1>5, <2>1, <2>2, ParseWire DEF N
  <2>. HIDE DEF w
  <2>4. (Len(w) <= Len(s) - i <=> En <= got) /\ En - Em = Len(w)
    BY <1>1, <1>5, <2>1
  <2>. QED BY <2>3, <2>4
<1>8. ASSUME m = N
      PROVE  ParseChunk(s, i) = [total |-> IF got = Len(St) THEN 3 ELSE 0, data |-> <<>>]
  <2>1. Len(s) - i <= 3 /\ (Len(s) - i = 3 <=> got = Len(St))
    BY <1>1, <1>5, <1>8
  <2>2. /\ Len(s) - i >= 1 => s[i + 1] = "0"
        /\ Len(s) - i >= 2 => s[i + 2] = Newline
        /\ Len(s) - i >= 3 => s[i + 3] = Newline
    <3>1. ASSUME NEW j \in {1, 2, 3}, Len(s) - i >= j PROVE s[i + j] = St[Ee + j]
      <4>1. j \in 1..(Len(s) - i)
        BY <1>5, <3>1
      <4>. QED BY <1>1, <1>6, <1>8, <4>1
    <3>. QED BY <1>4, <3>1
  <2>3. ParseChunk(s, i) = [total |-> IF Len(s) - i = 3 THEN 3 ELSE 0, data |-> <<>>]
    BY <1>2, <1>5, <2>1, <2>2, ParseTail
  <2>. QED BY <2>1, <2>3
<1>9. /\ m < N /\ En <= got =>
           ParseChunk(s, i) = [total |-> En - Em, data |-> chunks[m + 1].data]
      /\ m < N /\ got < En => ParseChunk(s, i) = [total |-> 0, data |-> <<>>]
  <2>1. m < N => En \in Nat
    BY <1>1, <1>3
  <2>2. m < N /\ got < En => ~(En <= got)
    BY <1>1, <2>1
  <2>. QED BY <1>7, <2>2
<1>. QED BY <1>5, <1>8, <1>9 DEF N, St, Ek, Em, En, Ee, B, s, i

\* Where chunk m is in the buffer, and what Chunks makes of it from there on.
Position(chunks, k, m) == BodyEnd(chunks, k) + (WireEnd(chunks, m) - WireEnd(chunks, k))

Rest(chunks, k, got, last, m) ==
  LET s == Buffer(chunks, k, got)
  IN  \E r \in Seq(Tokens) :
        /\ Payload[chunks][m] \o r = Payload[chunks][last]
        /\ Chunks(s)[Position(chunks, k, m)] =
             [data |-> r,
              next |-> IF got = Len(Streams[chunks]) THEN Len(s) ELSE Position(chunks, k, last),
              last |-> got = Len(Streams[chunks])]

\* Behind the last whole chunk the search stops, at the end of the reply or not.
LEMMA RestOfLast ==
  ASSUME NEW chunks \in Bodies, NEW k \in 0..Len(chunks), NEW got \in Nat,
         NEW last \in k..Len(chunks), got <= Len(Streams[chunks]),
         WholeChunks(chunks, got, last)
  PROVE  Rest(chunks, k, got, last, last)
<1>. DEFINE N == Len(chunks)
            St == Streams[chunks]
            s == Buffer(chunks, k, got)
            i == Position(chunks, k, last)
            none == <<>>
<1>1. /\ N \in Nat /\ last \in 0..N /\ WireEnd(chunks, last) \in Nat /\ WireEnd(chunks, N) \in Nat
      /\ WireEnd(chunks, last) <= got /\ Len(St) = WireEnd(chunks, N) + 3
      /\ WireEnd(chunks, k) <= WireEnd(chunks, last) /\ WireEnd(chunks, k) \in Nat
  <2>1. N \in Nat /\ last \in 0..N /\ N \in 0..N
    BY ChunkShape
  <2>2. WireEnd(chunks, k) <= WireEnd(chunks, last)
    BY EndsGrow
  <2>. QED BY <2>1, <2>2, EndsShape DEF WholeChunks
<1>2. s \in Seq(Tokens) /\ i \in 0..Len(s) /\ Len(s) - i = got - WireEnd(chunks, last)
  <2>1. WireEnd(chunks, k) <= got
    BY <1>1
  <2>2. s \in Seq(Tokens)
    BY <2>1, BufferShape
  <2>3. i \in 0..Len(s) /\ Len(s) - i = got - WireEnd(chunks, last)
    BY <1>1, ParseBuffer DEF Position
  <2>. QED BY <2>2, <2>3
<1>3. Chunks(s)[i] = ChunkAt(s, Chunks(s), i)
  BY <1>2, ChunksRec
<1>4. none \in Seq(Tokens) /\ Payload[chunks][last] \o none = Payload[chunks][last]
  <2>1. Payload[chunks][last] \in Seq(Tokens)
    BY <1>1, StreamType
  <2>. QED BY <2>1, ConcatEmptySeq
<1>5. CASE last < N
  <2>1. ParseChunk(s, i) = [total |-> 0, data |-> <<>>]
    <3>1. got < WireEnd(chunks, last + 1)
      BY <1>5 DEF WholeChunks
    <3>. QED BY <1>1, <1>5, <3>1, ParseBuffer DEF Position
  <2>2. Chunks(s)[i] = [data |-> <<>>, next |-> i, last |-> FALSE]
    BY <1>3, <2>1 DEF ChunkAt
  <2>3. got # Len(St)
    <3>1. last + 1 \in 0..N /\ N \in (last + 1)..N
      BY <1>1, <1>5
    <3>2. WireEnd(chunks, last + 1) <= WireEnd(chunks, N) /\ got < WireEnd(chunks, last + 1)
          /\ WireEnd(chunks, last + 1) \in Nat
      BY <1>5, <3>1, EndsGrow, EndsShape DEF WholeChunks
    <3>. QED BY <1>1, <3>2
  <2>. QED BY <1>4, <2>2, <2>3 DEF Rest
<1>6. CASE last = N
  <2>1. ParseChunk(s, i) = [total |-> IF got = Len(St) THEN 3 ELSE 0, data |-> <<>>]
    <3>1. /\ last \in k..Len(chunks) /\ WireEnd(chunks, last) <= got
          /\ got <= Len(Streams[chunks]) /\ last = Len(chunks)
      BY <1>1, <1>6
    <3>. HIDE DEF N, St, s, i
    <3>2. ParseChunk(Buffer(chunks, k, got), Position(chunks, k, last)) =
            [total |-> IF got = Len(Streams[chunks]) THEN 3 ELSE 0, data |-> <<>>]
      BY <3>1, ParseBuffer DEF Position
    <3>. QED BY <3>2 DEF St, s, i
  <2>2. CASE got = Len(St)
    <3>1. Chunks(s)[i] = [data |-> <<>>, next |-> i + 3, last |-> TRUE]
      BY <1>3, <2>1, <2>2 DEF ChunkAt
    <3>2. i + 3 = Len(s)
      BY <1>1, <1>2, <1>6, <2>2
    <3>. QED BY <1>4, <2>2, <3>1, <3>2 DEF Rest
  <2>3. CASE got # Len(St)
    <3>1. Chunks(s)[i] = [data |-> <<>>, next |-> i, last |-> FALSE]
      BY <1>3, <2>1, <2>3 DEF ChunkAt
    <3>. QED BY <1>4, <2>3, <3>1 DEF Rest
  <2>. QED BY <2>2, <2>3
<1>. QED BY <1>1, <1>5, <1>6

Prefixed(d, a) == [a EXCEPT !.data = d \o @]
Parsed(d, next, last) == [data |-> d, next |-> next, last |-> last]

\* The data of one chunk go before what the rest makes.
LEMMA DataPrefixed ==
  ASSUME NEW d, NEW r, NEW next, NEW last
  PROVE  Prefixed(d, Parsed(r, next, last)) = Parsed(d \o r, next, last)
<1>. DEFINE a == Parsed(r, next, last)
<1>1. a.data = r
  BY DEF Parsed
<1>. DEFINE e == d \o a.data
<1>2. Prefixed(d, a) = [a EXCEPT !.data = e]
  BY DEF Prefixed
<1>. HIDE DEF e
<1>3. [a EXCEPT !.data = e] = Parsed(e, next, last)
  BY DEF Parsed
<1>. HIDE DEF a
<1>4. e = d \o r
  BY <1>1 DEF e
<1>5. Prefixed(d, a) = Parsed(d \o r, next, last)
  BY <1>2, <1>3, <1>4
<1>. QED BY <1>5 DEF a

\* A whole chunk adds its data and hands on to the next.
LEMMA RestOfChunk ==
  ASSUME NEW chunks \in Bodies, NEW k \in 0..Len(chunks), NEW got \in Nat,
         NEW last \in k..Len(chunks), got <= Len(Streams[chunks]),
         WholeChunks(chunks, got, last),
         NEW m \in k..Len(chunks), m < last, Rest(chunks, k, got, last, m + 1)
  PROVE  Rest(chunks, k, got, last, m)
<1>. DEFINE N == Len(chunks)
            s == Buffer(chunks, k, got)
            i == Position(chunks, k, m)
            c == chunks[m + 1]
            d == chunks[m + 1].data
<1>1. /\ N \in Nat /\ m \in Nat /\ m \in 0..N /\ m + 1 \in 1..N /\ m + 1 \in 0..N /\ (m + 1) - 1 = m
      /\ last \in (m + 1)..N /\ last \in 0..N
  BY ChunkShape
<1>2. /\ WireEnd(chunks, k) \in Nat /\ WireEnd(chunks, m) \in Nat /\ WireEnd(chunks, m + 1) \in Nat
      /\ WireEnd(chunks, k) <= WireEnd(chunks, m) /\ WireEnd(chunks, m) < WireEnd(chunks, m + 1)
      /\ WireEnd(chunks, m + 1) <= got /\ WireEnd(chunks, m) <= got /\ WireEnd(chunks, k) <= got
      /\ BodyEnd(chunks, k) \in Nat
  <2>1. WireEnd(chunks, k) <= WireEnd(chunks, m)
    BY <1>1, EndsGrow
  <2>2. WireEnd(chunks, m) < WireEnd(chunks, m + 1)
    <3>1. m + 1 \in m..N /\ m < m + 1
      BY <1>1
    <3>. QED BY <1>1, <3>1, EndsGrow
  <2>3. WireEnd(chunks, m + 1) <= WireEnd(chunks, last) /\ WireEnd(chunks, last) <= got
    BY <1>1, EndsGrow DEF WholeChunks
  <2>4. /\ WireEnd(chunks, k) \in Nat /\ WireEnd(chunks, m) \in Nat /\ WireEnd(chunks, m + 1) \in Nat
        /\ BodyEnd(chunks, k) \in Nat /\ WireEnd(chunks, last) \in Nat
    BY <1>1, EndsShape
  <2>. QED BY <2>1, <2>2, <2>3, <2>4
<1>3. s \in Seq(Tokens) /\ i \in 0..Len(s)
  <2>1. s \in Seq(Tokens)
    BY <1>2, BufferShape
  <2>2. i \in 0..Len(s)
    BY <1>2, ParseBuffer DEF Position
  <2>. QED BY <2>1, <2>2
<1>4. ParseChunk(s, i) = [total |-> WireEnd(chunks, m + 1) - WireEnd(chunks, m), data |-> d]
  <2>1. m < N
    BY <1>1
  <2>. QED BY <1>2, <2>1, ParseBuffer DEF Position
<1>5. d \in Seq(Tokens) /\ d # <<>>
  <2>1. d \in Seq(Tokens) /\ Len(d) \in Nat \ {0}
    BY <1>1, ChunkShape
  <2>2. Len(<<>>) = 0
    OBVIOUS
  <2>. QED BY <2>1, <2>2
<1>6. /\ WireEnd(chunks, m + 1) - WireEnd(chunks, m) # 0
      /\ i + (WireEnd(chunks, m + 1) - WireEnd(chunks, m)) = Position(chunks, k, m + 1)
  BY <1>2 DEF Position
<1>7. PICK r \in Seq(Tokens) :
        /\ Payload[chunks][m + 1] \o r = Payload[chunks][last]
        /\ Chunks(s)[Position(chunks, k, m + 1)] =
             [data |-> r,
              next |-> IF got = Len(Streams[chunks]) THEN Len(s) ELSE Position(chunks, k, last),
              last |-> got = Len(Streams[chunks])]
  BY DEF Rest
<1>8. Chunks(s)[i] = ChunkAt(s, Chunks(s), i)
  BY <1>3, ChunksRec
<1>. DEFINE more == Chunks(s)[Position(chunks, k, m + 1)]
<1>9. Chunks(s)[i] = Prefixed(d, more)
  <2>1. Chunks(s)[i] = [Chunks(s)[i + (WireEnd(chunks, m + 1) - WireEnd(chunks, m))] EXCEPT !.data = d \o @]
    <3>. HIDE DEF s, i, d
    <3>. QED BY <1>4, <1>5, <1>6, <1>8 DEF ChunkAt
  <2>. QED BY <1>6, <2>1 DEF Prefixed
<1>10. Chunks(s)[i] = [data |-> d \o r,
              next |-> IF got = Len(Streams[chunks]) THEN Len(s) ELSE Position(chunks, k, last),
              last |-> got = Len(Streams[chunks])]
  <2>. DEFINE next == IF got = Len(Streams[chunks]) THEN Len(s) ELSE Position(chunks, k, last)
              ended == got = Len(Streams[chunks])
  <2>1. more = Parsed(r, next, ended)
    BY <1>7 DEF Parsed
  <2>2. Prefixed(d, Parsed(r, next, ended)) = Parsed(d \o r, next, ended)
    BY DataPrefixed
  <2>. HIDE DEF s, i, d, more, next, ended
  <2>3. Chunks(s)[i] = Parsed(d \o r, next, ended)
    BY <1>9, <2>1, <2>2
  <2>. QED BY <2>3 DEF Parsed, next, ended
<1>11. d \o r \in Seq(Tokens) /\ Payload[chunks][m] \o (d \o r) = Payload[chunks][last]
  <2>1. Payload[chunks][m + 1] = Payload[chunks][m] \o d
    BY <1>1, PayloadRec
  <2>2. Payload[chunks][m] \in Seq(Tokens)
    BY <1>1, StreamType
  <2>3. d \o r \in Seq(Tokens) /\ Payload[chunks][m] \o (d \o r) = (Payload[chunks][m] \o d) \o r
    <3>. DEFINE p == Payload[chunks][m]
    <3>. HIDE DEF p, d
    <3>1. d \in Seq(Tokens) /\ p \in Seq(Tokens) /\ r \in Seq(Tokens)
      BY <1>5, <2>2 DEF p
    <3>2. p \o (d \o r) = (p \o d) \o r
      BY <3>1, Assoc
    <3>3. d \o r \in Seq(Tokens)
      BY <3>1, Joined
    <3>. QED BY <3>2, <3>3 DEF p
  <2>. QED BY <1>7, <2>1, <2>3
<1>. QED BY <1>10, <1>11 DEF Rest

\* From the first chunk that is not put together yet, Chunks finds all that are whole.
LEMMA RestOfFirst ==
  ASSUME NEW chunks \in Bodies, NEW k \in 0..Len(chunks), NEW got \in Nat,
         NEW last \in k..Len(chunks), got <= Len(Streams[chunks]),
         WholeChunks(chunks, got, last)
  PROVE  Rest(chunks, k, got, last, k)
<1>. DEFINE T == {x \in Nat : x <= last - k => Rest(chunks, k, got, last, last - x)}
<1>0. Len(chunks) \in Nat /\ k \in Nat /\ last \in Nat /\ last - k \in Nat /\ last - (last - k) = k
  BY ChunkShape
<1>1. 0 \in T
  <2>1. last - 0 = last
    BY <1>0
  <2>. QED BY <2>1, RestOfLast
<1>2. ASSUME NEW x \in T PROVE x + 1 \in T
  <2>1. x \in Nat
    OBVIOUS
  <2>2. SUFFICES ASSUME x + 1 <= last - k PROVE Rest(chunks, k, got, last, last - (x + 1))
    BY <2>1
  <2>. DEFINE m == last - (x + 1)
  <2>3. m \in k..Len(chunks) /\ m < last /\ m + 1 = last - x /\ x <= last - k
    BY <1>0, <2>1, <2>2
  <2>4. Rest(chunks, k, got, last, m + 1)
    BY <2>3
  <2>. HIDE DEF m
  <2>5. Rest(chunks, k, got, last, m)
    BY <2>3, <2>4, RestOfChunk
  <2>. QED BY <2>5 DEF m
<1>3. last - k \in T
  <2>. HIDE DEF T
  <2>1. T \in SUBSET Nat
    BY DEF T
  <2>. QED BY <1>0, <1>1, <1>2, <2>1, SetInduction
<1>. QED BY <1>0, <1>3

\* What HandleChunked makes of a buffer that holds k chunks put together, got
\* tokens of the body having arrived.
LEMMA HandleBuffer ==
  ASSUME NEW chunks \in Bodies, NEW k \in 0..Len(chunks), NEW got \in Nat,
         NEW last \in k..Len(chunks), got <= Len(Streams[chunks]),
         WholeChunks(chunks, got, last)
  PROVE  LET h == HandleChunked(Buffer(chunks, k, got), BodyEnd(chunks, k))
         IN  /\ h.last = (got = Len(Streams[chunks]))
             /\ h.bodyLen = BodyEnd(chunks, last)
             /\ h.last => last = Len(chunks) /\ h.buf = Payload[chunks][last]
             /\ ~h.last => h.buf = Buffer(chunks, last, got)
<1>. DEFINE N == Len(chunks)
            St == Streams[chunks]
            s == Buffer(chunks, k, got)
            b == BodyEnd(chunks, k)
            p == Payload[chunks][k]
            q == Payload[chunks][last]
            c == Chunks(s)[b]
            Ek == WireEnd(chunks, k)
            El == WireEnd(chunks, last)
<1>1. /\ N \in Nat /\ last \in 0..N /\ Ek \in Nat /\ El \in Nat /\ Ek <= El /\ El <= got
      /\ b \in Nat /\ BodyEnd(chunks, last) \in Nat
      /\ Len(St) \in Nat /\ St \in Seq(Tokens)
      /\ p \in Seq(Tokens) /\ q \in Seq(Tokens) /\ Len(p) = b /\ Len(q) = BodyEnd(chunks, last)
  <2>1. N \in Nat /\ last \in 0..N
    BY ChunkShape
  <2>2. Ek <= El
    BY EndsGrow
  <2>3. Ek \in Nat /\ El \in Nat /\ b \in Nat /\ BodyEnd(chunks, last) \in Nat /\ St \in Seq(Tokens)
    BY <2>1, EndsShape
  <2>4. p \in Seq(Tokens) /\ q \in Seq(Tokens)
    BY <2>1, StreamType
  <2>. QED BY <2>1, <2>2, <2>3, <2>4 DEF WholeChunks, BodyEnd
<1>2. /\ s \in Seq(Tokens) /\ Len(s) = b + (got - Ek)
      /\ \A j \in 1..b : s[j] = p[j]
      /\ \A j \in 1..(got - Ek) : s[b + j] = St[Ek + j]
  <2>1. WireEnd(chunks, k) <= got
    BY <1>1
  <2>. QED BY <1>1, <2>1, BufferShape
<1>3. Position(chunks, k, k) = b
  BY <1>1 DEF Position
<1>3a. Rest(chunks, k, got, last, k)
  BY RestOfFirst
<1>4. PICK r \in Seq(Tokens) :
        /\ p \o r = q
        /\ c = [data |-> r, next |-> IF got = Len(St) THEN Len(s) ELSE Position(chunks, k, last),
                last |-> got = Len(St)]
  <2>. HIDE DEF b
  <2>. QED BY <1>3, <1>3a DEF Rest, b
<1>5. SubSeq(s, 1, b) = p
  <2>. DEFINE x == SubSeq(s, 1, b)
  <2>. HIDE DEF s, b, p
  <2>1. 1 \in Int /\ b \in Int /\ \A j \in 1..b : s[j] \in Tokens
    <3>1. b <= Len(s) /\ Len(s) \in Nat
      BY <1>1, <1>2
    <3>. QED BY <1>1, <1>2, <3>1, ElementOfSeq
  <2>2. /\ x \in Seq(Tokens) /\ Len(x) = IF 1 <= b THEN b - 1 + 1 ELSE 0
        /\ \A j \in 1..(b - 1 + 1) : x[j] = s[1 + j - 1]
    BY <2>1, SubSeqProperties
  <2>3. Len(x) = Len(p)
    BY <1>1, <2>2
  <2>4. ASSUME NEW j \in 1..Len(x) PROVE x[j] = p[j]
    <3>1. j \in 1..b /\ j \in 1..(b - 1 + 1) /\ 1 + j - 1 = j
      BY <1>1, <2>3
    <3>. QED BY <1>2, <2>2, <3>1
  <2>. HIDE DEF x
  <2>5. x = p
    BY <1>1, <2>2, <2>3, <2>4, SeqEqual
  <2>. QED BY <2>5 DEF x
<1>6. /\ HandleChunked(s, b).buf = (SubSeq(s, 1, b) \o c.data) \o SubSeq(s, c.next + 1, Len(s))
      /\ HandleChunked(s, b).bodyLen = b + Len(c.data)
      /\ HandleChunked(s, b).last = c.last
  BY DEF HandleChunked
<1>7. /\ c.data = r /\ c.last = (got = Len(St))
      /\ c.next = IF got = Len(St) THEN Len(s) ELSE Position(chunks, k, last)
  <2>. HIDE DEF c
  <2>. QED BY <1>4
<1>8. b + Len(r) = BodyEnd(chunks, last)
  <2>1. Len(p \o r) = Len(p) + Len(r)
    BY <1>1, <1>4, Joined
  <2>. QED BY <1>1, <1>4, <2>1
<1>9. HandleChunked(s, b).buf = q \o SubSeq(s, c.next + 1, Len(s))
  BY <1>4, <1>5, <1>6, <1>7
<1>10. CASE got = Len(St)
  <2>1. last = N
    <3>1. SUFFICES ASSUME last < N PROVE FALSE
      BY <1>1
    <3>2. last + 1 \in 0..N /\ N \in (last + 1)..N
      BY <1>1, <3>1
    <3>3. got < WireEnd(chunks, last + 1) /\ WireEnd(chunks, last + 1) <= WireEnd(chunks, N)
          /\ WireEnd(chunks, last + 1) \in Nat
      BY <3>1, <3>2, EndsGrow, EndsShape DEF WholeChunks
    <3>4. Len(St) = WireEnd(chunks, N) + 3 /\ WireEnd(chunks, N) \in Nat
      BY <3>2, EndsShape
    <3>. QED BY <1>1, <1>10, <3>3, <3>4
  <2>2. SubSeq(s, c.next + 1, Len(s)) = <<>>
    <3>1. c.next = Len(s) /\ Len(s) \in Nat
      BY <1>2, <1>7, <1>10
    <3>. HIDE DEF s, c
    <3>. QED BY <3>1, SubSeqEmpty
  <2>3. q \o <<>> = q
    BY <1>1, ConcatEmptySeq
  <2>. QED BY <1>6, <1>7, <1>8, <1>9, <1>10, <2>1, <2>2, <2>3
<1>11. CASE got # Len(St)
  <2>. DEFINE a == Position(chunks, k, last)
              x == SubSeq(s, a + 1, Len(s))
              y == SubSeq(St, El + 1, got)
  <2>1. a = b + (El - Ek) /\ a \in Nat /\ Len(s) - a = got - El /\ Len(s) \in Nat
    <3>. DEFINE l == Len(s)
    <3>1. a = b + (El - Ek)
      BY DEF Position
    <3>2. /\ l = b + (got - Ek) /\ b \in Nat /\ Ek \in Nat /\ El \in Nat
          /\ Ek <= El /\ El <= got
      BY <1>1, <1>2
    <3>. HIDE DEF a, b, l, Ek, El
    <3>3. a \in Nat /\ l - a = got - El /\ l \in Nat
      BY <3>1, <3>2
    <3>. QED BY <3>1, <3>3 DEF l
  <2>2. /\ y \in Seq(Tokens) /\ Len(y) = got - El
        /\ \A j \in 1..(got - El) : y[j] = St[El + j]
    BY <1>1, BufferShape
  <2>. HIDE DEF a, s, y, St, b, c, Ek, El
  <2>3. a + 1 \in Int /\ Len(s) \in Int /\ \A j \in (a + 1)..Len(s) : s[j] \in Tokens
    BY <1>2, <2>1, ElementOfSeq
  <2>4. /\ x \in Seq(Tokens) /\ Len(x) = IF a + 1 <= Len(s) THEN Len(s) - (a + 1) + 1 ELSE 0
        /\ \A j \in 1..(Len(s) - (a + 1) + 1) : x[j] = s[a + 1 + j - 1]
    <3>. DEFINE l == a + 1
                n == Len(s)
    <3>1. l \in Int /\ n \in Int /\ \A j \in l..n : s[j] \in Tokens
      BY <2>3
    <3>. HIDE DEF l, n
    <3>2. /\ SubSeq(s, l, n) \in Seq(Tokens)
          /\ Len(SubSeq(s, l, n)) = IF l <= n THEN n - l + 1 ELSE 0
          /\ \A j \in 1..(n - l + 1) : SubSeq(s, l, n)[j] = s[l + j - 1]
      BY <3>1, SubSeqProperties
    <3>. QED BY <3>2 DEF l, n
  <2>. HIDE DEF x
  <2>5. Len(x) = Len(y)
    BY <1>1, <2>1, <2>2, <2>4
  <2>6. ASSUME NEW j \in 1..Len(x) PROVE x[j] = y[j]
    <3>0. j \in Nat /\ b \in Nat /\ Ek \in Nat /\ El \in Nat /\ Ek <= El /\ El <= got
      BY <1>1, <2>2, <2>5
    <3>1. j \in 1..(got - El) /\ j \in 1..(Len(s) - (a + 1) + 1) /\ a + 1 + j - 1 = a + j
      BY <3>0, <2>1, <2>2, <2>5
    <3>2. (El - Ek) + j \in 1..(got - Ek)
      BY <3>0, <3>1
    <3>3. s[b + ((El - Ek) + j)] = St[Ek + ((El - Ek) + j)]
      BY <1>2, <3>2
    <3>4. b + ((El - Ek) + j) = a + j /\ Ek + ((El - Ek) + j) = El + j
      BY <3>0, <2>1, <3>1
    <3>. QED BY <2>2, <2>4, <3>1, <3>3, <3>4
  <2>7. x = y
    BY <2>2, <2>4, <2>5, <2>6, SeqEqual
  <2>8. HandleChunked(s, b).buf = q \o y
    BY <1>7, <1>9, <1>11, <2>7 DEF x, a
  <2>9. HandleChunked(s, b).last = (got = Len(St)) /\ ~HandleChunked(s, b).last
    BY <1>6, <1>7, <1>11
  <2>10. HandleChunked(s, b).bodyLen = BodyEnd(chunks, last)
    BY <1>6, <1>7, <1>8
  <2>. QED BY <2>8, <2>9, <2>10 DEF Buffer, s, b, y, St, El
<1>. QED BY <1>10, <1>11

\* There is such a number of chunks for any part of the reply.
LEMMA SomeWhole ==
  ASSUME NEW chunks \in Bodies, NEW got \in Nat
  PROVE  \E k \in 0..Len(chunks) : WholeChunks(chunks, got, k)
<1>. DEFINE N == Len(chunks)
            T == {j \in 0..N : WireEnd(chunks, j) > got}
<1>0. N \in Nat /\ WireEnd(chunks, 0) = 0 /\ \A j \in 0..N : WireEnd(chunks, j) \in Nat
  BY ChunkShape, EndsShape
<1>1. CASE T = {}
  <2>1. N \in 0..N /\ WireEnd(chunks, N) <= got
    BY <1>0, <1>1
  <2>. QED BY <1>0, <2>1 DEF WholeChunks
<1>2. CASE T # {}
  <2>1. PICK x \in T : \A y \in T : x <= y
    <3>1. T \in SUBSET Nat
      OBVIOUS
    <3>. HIDE DEF T
    <3>. QED BY <1>2, <3>1, SmallestExists
  <2>2. x \in 0..N /\ WireEnd(chunks, x) > got /\ x # 0
    BY <1>0
  <2>3. x - 1 \in 0..N /\ (x - 1) + 1 = x /\ ~(x <= x - 1)
    BY <1>0, <2>2
  <2>4. WireEnd(chunks, x - 1) <= got
    BY <1>0, <2>1, <2>3
  <2>5. WholeChunks(chunks, got, x - 1)
    BY <1>0, <2>2, <2>3, <2>4 DEF WholeChunks
  <2>. QED BY <2>3, <2>5
<1>. QED BY <1>1, <1>2

\* It is the one Reassembled counts.
LEMMA WholeCount ==
  ASSUME NEW chunks \in Bodies, NEW got \in Nat, NEW k, WholeChunks(chunks, got, k)
  PROVE  Cardinality({j \in 1..Len(chunks) : Len(Encoded[chunks][j]) <= got}) = k
<1>. DEFINE N == Len(chunks)
            D == {j \in 1..N : Len(Encoded[chunks][j]) <= got}
<1>0. N \in Nat /\ k \in 0..N /\ WireEnd(chunks, k) <= got
      /\ (k < N => got < WireEnd(chunks, k + 1))
      /\ \A j \in 0..N : WireEnd(chunks, j) \in Nat
  BY ChunkShape, EndsShape DEF WholeChunks
<1>1. ASSUME NEW j \in D PROVE j \in 1..k
  <2>1. j \in 1..N /\ WireEnd(chunks, j) <= got
    BY DEF WireEnd
  <2>2. SUFFICES ASSUME j > k PROVE FALSE
    BY <1>0, <2>1
  <2>3. k < N /\ k + 1 \in 0..N /\ j \in (k + 1)..N
    BY <1>0, <2>1, <2>2
  <2>4. WireEnd(chunks, k + 1) <= WireEnd(chunks, j)
    BY <2>3, EndsGrow
  <2>5. WireEnd(chunks, j) \in Nat /\ WireEnd(chunks, k + 1) \in Nat
    BY <1>0, <2>1, <2>3
  <2>. QED BY <1>0, <2>1, <2>3, <2>4, <2>5
<1>2. ASSUME NEW j \in 1..k PROVE j \in D
  <2>1. j \in 0..N /\ k \in j..N /\ j \in 1..N
    BY <1>0
  <2>2. WireEnd(chunks, j) <= WireEnd(chunks, k)
    BY <2>1, EndsGrow
  <2>3. WireEnd(chunks, j) \in Nat /\ WireEnd(chunks, k) \in Nat
    BY <1>0, <2>1
  <2>4. WireEnd(chunks, j) <= got
    BY <1>0, <2>2, <2>3
  <2>. QED BY <2>1, <2>4 DEF WireEnd
<1>. HIDE DEF D
<1>3. D = 1..k
  BY <1>1, <1>2
<1>4. Cardinality(1..k) = k
  <2>1. Cardinality(1..k) = IF 1 > k THEN 0 ELSE k - 1 + 1
    BY <1>0, FS_Interval
  <2>. QED BY <1>0, <2>1
<1>. QED BY <1>3, <1>4 DEF D

-----------------------------------------------------------------------------
(* The post keeps BodyInv.                                                 *)

\* The buffer holds k chunks put together, and all that was read.
Holds(k) ==
  /\ conn.bodyLen = BodyEnd(srv.chunks, k)
  /\ conn.buf = Buffer(srv.chunks, k, conn.read - 1)

\* Reassembled, with the number of chunks named instead of counted.
LEMMA HoldsWhole ==
  ASSUME PostInv, Reassembled, flag = 0, conn.read > 0,
         NEW k, WholeChunks(srv.chunks, conn.read - 1, k)
  PROVE  Holds(k)
<1>1. srv.chunks \in Bodies /\ conn.read - 1 \in Nat
  BY DEF PostInv, TypeOK, Srv, Conn
<1>2. Cardinality({j \in 1..Len(srv.chunks) : Len(Encoded[srv.chunks][j]) <= conn.read - 1}) = k
  BY <1>1, WholeCount
<1>. QED BY <1>2 DEF Reassembled, Holds, Buffer, WireEnd, BodyEnd, Stream

\* What arrives is put behind what is there: k chunks put together, and the rest of
\* the stream as far as it was read.
LEMMA AppendedIs ==
  ASSUME PostInv, Reassembled, Delivery, flag = 0, NEW n \in Nat \ {0},
         conn.read + n <= srv.sent
  PROVE  \E k \in 0..Len(srv.chunks) :
           /\ WireEnd(srv.chunks, k) <= conn.read + n - 1
           /\ conn.bodyLen = BodyEnd(srv.chunks, k)
           /\ Appended(n) = Buffer(srv.chunks, k, conn.read + n - 1)
<1>. DEFINE chunks == srv.chunks
            St == Streams[srv.chunks]
            read == conn.read
<1>1. /\ chunks \in Bodies /\ read \in Nat /\ srv.sent \in Nat /\ srv.sent <= Len(St) + 1
      /\ conn.buf \in Seq(Tokens) /\ Len(chunks) \in Nat
  <2>1. chunks \in Bodies /\ read \in Nat /\ srv.sent \in Nat /\ conn.buf \in Seq(Tokens)
    BY DEF PostInv, TypeOK, Srv, Conn
  <2>2. srv.sent <= Len(St) + 1
    BY DEF PostInv, ServerLife, Stream
  <2>. QED BY <2>1, <2>2, ChunkShape
<1>2. St \in Seq(Tokens) /\ Len(St) \in Nat
  BY <1>1, EndsShape
<1>3. Appended(n) = conn.buf \o SubSeq(St, read + (IF read = 0 THEN 1 ELSE 0), read + n - 1)
  BY DEF Appended, Stream
<1>4. CASE read = 0
  <2>1. conn.buf = <<>> /\ conn.bodyLen = 0
    BY <1>4 DEF Delivery
  <2>2. /\ Payload[chunks][0] = <<>> /\ WireEnd(chunks, 0) = 0 /\ BodyEnd(chunks, 0) = 0
        /\ 0 \in 0..Len(chunks)
    <3>1. 0 \in 0..Len(chunks)
      BY <1>1
    <3>2. Payload[chunks][0] = <<>>
      BY <1>1, PayloadRec
    <3>3. WireEnd(chunks, 0) = 0 /\ BodyEnd(chunks, 0) = 0
      BY <1>1, EndsShape
    <3>. QED BY <3>1, <3>2, <3>3
  <2>3. Buffer(chunks, 0, read + n - 1) = <<>> \o SubSeq(St, 0 + 1, read + n - 1)
    BY <2>2 DEF Buffer
  <2>4. Appended(n) = Buffer(chunks, 0, read + n - 1)
    BY <1>3, <1>4, <2>1, <2>3
  <2>5. 0 <= read + n - 1
    BY <1>1
  <2>. QED BY <2>1, <2>2, <2>4, <2>5
<1>5. CASE read > 0
  <2>1. read - 1 \in Nat
    BY <1>1, <1>5
  <2>2. PICK k \in 0..Len(chunks) : WholeChunks(chunks, read - 1, k)
    BY <1>1, <2>1, SomeWhole
  <2>3. Holds(k)
    BY <1>5, <2>2, HoldsWhole
  <2>. DEFINE p == Payload[chunks][k]
              E == WireEnd(chunks, k)
              x == SubSeq(St, E + 1, read - 1)
              y == SubSeq(St, (read - 1) + 1, read + n - 1)
              z == SubSeq(St, E + 1, read + n - 1)
  <2>4. /\ E \in Nat /\ E <= read - 1 /\ p \in Seq(Tokens)
        /\ read - 1 <= Len(St) /\ read + n - 1 <= Len(St) /\ n \in Nat /\ n > 0
    <3>1. E \in Nat /\ p \in Seq(Tokens)
      BY <1>1, <2>2, EndsShape, StreamType
    <3>2. E <= read - 1
      BY <2>2 DEF WholeChunks
    <3>. HIDE DEF E, p, read, St
    <3>3. read - 1 <= Len(St) /\ read + n - 1 <= Len(St)
      <4>1. read + n <= srv.sent
        BY DEF read
      <4>. QED BY <1>1, <1>2, <4>1
    <3>. QED BY <3>1, <3>2, <3>3
  <2>5. conn.buf = p \o x /\ conn.bodyLen = BodyEnd(chunks, k)
    BY <2>3 DEF Holds, Buffer
  <2>6. Appended(n) = (p \o x) \o y
    <3>1. read + (IF read = 0 THEN 1 ELSE 0) = (read - 1) + 1
      BY <1>1, <1>5
    <3>. QED BY <1>3, <2>5, <3>1
  <2>. HIDE DEF E, St, p, read
  <2>7. /\ E + 1 \in 1..(Len(St) + 1) /\ read - 1 \in ((E + 1) - 1)..Len(St)
        /\ read + n - 1 \in (read - 1)..Len(St)
    BY <1>1, <1>2, <2>1, <2>4
  <2>8. x \o y = z
    BY <1>2, <2>7, ConcatAdjacentSubSeq
  <2>9. x \in Seq(Tokens) /\ y \in Seq(Tokens)
    <3>1. ASSUME NEW a \in Nat, NEW b \in Nat, a > 0, b <= Len(St) PROVE SubSeq(St, a, b) \in Seq(Tokens)
      <4>1. a \in Int /\ b \in Int /\ \A j \in a..b : St[j] \in Tokens
        BY <1>2, <3>1, ElementOfSeq
      <4>. QED BY <4>1, SubSeqProperties
    <3>2. /\ E + 1 \in Nat /\ E + 1 > 0 /\ (read - 1) + 1 \in Nat /\ (read - 1) + 1 > 0
          /\ read + n - 1 \in Nat
      BY <1>1, <2>1, <2>4
    <3>. QED BY <2>1, <2>4, <3>1, <3>2
  <2>10. (p \o x) \o y = p \o z
    <3>. HIDE DEF x, y, z
    <3>1. p \o (x \o y) = (p \o x) \o y
      BY <2>4, <2>9, Assoc
    <3>. QED BY <2>8, <3>1
  <2>11. Appended(n) = Buffer(chunks, k, read + n - 1)
    BY <2>6, <2>10 DEF Buffer, p, E, St
  <2>12. WireEnd(chunks, k) <= read + n - 1
    BY <1>1, <2>1, <2>4 DEF E
  <2>. QED BY <2>2, <2>5, <2>11, <2>12 DEF read
<1>. QED BY <1>1, <1>4, <1>5

\* A status code is neither of the two values that are none.
LEMMA CodesAre == \A c \in Codes : c # 0 /\ c # ConnectFailed
BY NamedAssumption DEF NamedAssumption, ConnectFailed

\* A step that leaves the buffer, the flag and the server alone.
LEMMA BodyUntouched ==
  ASSUME BodyInv, PostInv', "conn" \in todo' => flag = 0 \/ "conn" \in todo,
         UNCHANGED <<flag, srv, body>>,
         conn'.read = conn.read, conn'.buf = conn.buf, conn'.bodyLen = conn.bodyLen,
         conn'.drain = conn.drain,
         conn'.life = "killed" => conn.life = "killed",
         conn.life = "gone" => conn'.life = "gone"
  PROVE  BodyInv'
<1>1. Stream' = Stream
  BY DEF Stream
<1>2. Reassembled'
  BY <1>1 DEF BodyInv, Reassembled
<1>3. Delivery'
  BY <1>1 DEF BodyInv, Delivery
<1>. QED BY <1>2, <1>3 DEF BodyInv

\* A lookup that ends without an address decides the post, which was never sent.
LEMMA BodyRefused ==
  ASSUME BodyInv, PostInv', flag' = ConnectFailed, UNCHANGED <<srv, body>>,
         conn'.read = conn.read, conn'.buf = conn.buf, conn'.bodyLen = conn.bodyLen,
         "conn" \notin todo'
  PROVE  BodyInv'
<1>1. flag' # 0 /\ flag' \notin Codes
  BY CodesAre DEF ConnectFailed
<1>2. Reassembled'
  BY <1>1 DEF Reassembled
<1>3. Delivery'
  BY <1>1 DEF BodyInv, Delivery
<1>. QED BY <1>2, <1>3 DEF BodyInv

\* The lookup ends before anything was read.
LEMMA HandleDnsBody == ASSUME BodyInv, LookupInv, PostInv', HandleDns PROVE BodyInv'
<1>1. PostInv /\ conn \in Conn /\ srv \in Srv
  BY DEF BodyInv, PostInv, TypeOK
<1>2. /\ todo' = {} /\ UNCHANGED body
      /\ \/ UNCHANGED <<flag, conn, srv>>
         \/ dns.req /\ (ResolveFailed \/ ResolveTo)
  BY <1>1, DnsOutcome
<1>3. CASE UNCHANGED <<flag, conn, srv>>
  BY <1>2, <1>3, BodyUntouched
<1>4. CASE dns.req /\ ResolveFailed
  <2>1. /\ flag' = ConnectFailed /\ UNCHANGED srv
        /\ conn'.read = conn.read /\ conn'.buf = conn.buf /\ conn'.bodyLen = conn.bodyLen
    BY <1>1, <1>4 DEF ResolveFailed, Conn
  <2>. QED BY <1>2, <2>1, BodyRefused
<1>5. CASE dns.req /\ ResolveTo
  <2>1. /\ UNCHANGED flag /\ conn' = [conn EXCEPT !.life = "connecting"]
        /\ srv' = [srv EXCEPT !.net = "syn"] /\ conn.life = "resolving"
    BY <1>1, <1>5 DEF ResolveTo, PostInv, ConnLife
  <2>2. /\ srv'.chunks = srv.chunks /\ srv'.sent = srv.sent /\ srv'.fin = srv.fin
        /\ conn'.read = conn.read /\ conn'.buf = conn.buf /\ conn'.bodyLen = conn.bodyLen
        /\ conn'.drain = conn.drain /\ conn'.life = "connecting"
    BY <1>1, <2>1 DEF Conn, Srv
  <2>3. Stream' = Stream
    BY <2>2 DEF Stream
  <2>4. Reassembled'
    BY <2>1, <2>2, <2>3 DEF BodyInv, Reassembled
  <2>5. flag \notin Codes
    <3>1. flag # 0 => flag = Decision
      BY <1>1 DEF PostInv, Decided
    <3>2. srv.net = "none" /\ srv.code = 0
      BY <1>1, <2>1 DEF PostInv, ConnLife, ServerLife
    <3>3. Decision = 0
      BY <2>1, <3>2 DEF Decision
    <3>. QED BY <3>1, <3>3, CodesAre
  <2>6. Delivery'
    BY <1>2, <2>1, <2>2, <2>3, <2>5 DEF BodyInv, Delivery
  <2>. QED BY <2>4, <2>6 DEF BodyInv
<1>. QED BY <1>2, <1>3, <1>4, <1>5

\* What the server sends is not read yet.
LEMMA ServerBody == ASSUME BodyInv, PostInv', Server PROVE BodyInv'
<1>1. PostInv /\ conn \in Conn /\ srv \in Srv /\ srv.sent \in Nat /\ conn.read \in Nat
      /\ Len(Stream) \in Nat /\ Len(Stream') \in Nat /\ conn.read <= srv.sent
  <2>1. PostInv /\ conn \in Conn /\ srv \in Srv /\ conn.read <= srv.sent /\ srv' \in Srv
    BY DEF BodyInv, PostInv, TypeOK, ServerLife
  <2>2. srv.chunks \in Bodies /\ srv'.chunks \in Bodies /\ srv.sent \in Nat /\ conn.read \in Nat
    BY <2>1 DEF Srv, Conn
  <2>3. Stream \in Seq(Tokens)
    BY <2>2, StreamType DEF Stream
  <2>4. Stream' \in Seq(Tokens)
    BY <2>2, StreamType DEF Stream
  <2>. QED BY <2>1, <2>2, <2>3, <2>4
<1>2. UNCHANGED <<pc, flag, todo, fd, dns, conn, body, result>>
  BY <1>1, ServerOutcome
<1>3. CASE /\ srv'.chunks = srv.chunks /\ UNCHANGED Stream
           /\ srv.fin => srv'.fin /\ srv'.sent = srv.sent
           /\ (srv'.fin /\ ~srv.fin) \/ (~srv'.fin /\ ~srv.fin) \/ (srv'.fin = srv.fin)
           /\ srv'.sent >= srv.sent
  <2>1. Reassembled'
    BY <1>2, <1>3 DEF BodyInv, Reassembled
  <2>2. Delivery'
    BY <1>1, <1>2, <1>3 DEF BodyInv, Delivery
  <2>. QED BY <2>1, <2>2 DEF BodyInv
<1>4. CASE /\ srv.net = "open" /\ srv.code = 0 /\ ~srv.fin
           /\ srv'.sent = srv.sent /\ srv'.fin = srv.fin
  <2>1. srv.sent = 0 /\ conn.read = 0
    BY <1>1, <1>4 DEF PostInv, ServerLife
  <2>2. flag \notin Codes
    <3>1. flag # 0 => flag = Decision
      BY <1>1 DEF PostInv, Decided
    <3>2. Decision \in {0, ConnectFailed}
      BY <1>4 DEF Decision
    <3>. QED BY <3>1, <3>2, CodesAre
  <2>3. Reassembled'
    <3>1. ~(conn'.read > 0)
      BY <1>2, <2>1
    <3>. QED BY <3>1 DEF Reassembled
  <2>4. Delivery'
    BY <1>1, <1>2, <1>4, <2>1, <2>2 DEF BodyInv, Delivery
  <2>. QED BY <2>3, <2>4 DEF BodyInv
<1>5. \/ /\ srv'.chunks = srv.chunks /\ UNCHANGED Stream
         /\ srv'.sent = srv.sent /\ srv'.fin = srv.fin
      \/ /\ srv.net = "open" /\ srv.code = 0 /\ ~srv.fin
         /\ srv'.sent = srv.sent /\ srv'.fin = srv.fin
      \/ /\ srv'.chunks = srv.chunks /\ UNCHANGED Stream /\ ~srv.fin
         /\ \/ srv'.sent = srv.sent + 1 /\ ~srv'.fin
            \/ srv'.sent = srv.sent /\ srv'.fin
  BY <1>1, ServerOutcome
<1>. QED BY <1>1, <1>3, <1>4, <1>5

\* A read: the empty chunk was among what arrived, and the reply is delivered whole,
\* or the buffer holds one chunk more, or some, or none.
LEMMA ReadBody ==
  ASSUME BodyInv, PostInv', NEW n \in Nat \ {0}, ConnRead(n), UNCHANGED srv,
         flag = 0, "conn" \notin todo'
  PROVE  BodyInv'
<1>. DEFINE chunks == srv.chunks
            got == conn.read + n - 1
            h == HandleChunked(Appended(n), conn.bodyLen)
<1>1. /\ PostInv /\ conn.read \in Nat /\ got \in Nat /\ srv.sent \in Nat /\ got < srv.sent
      /\ conn.read + n <= srv.sent /\ srv.sent <= Len(Stream) + 1 /\ Len(Stream) \in Nat
      /\ chunks \in Bodies /\ Len(chunks) \in Nat /\ got = conn.read + n - 1
  <2>1. PostInv /\ conn.read \in Nat /\ srv.sent \in Nat /\ chunks \in Bodies
    BY DEF BodyInv, PostInv, TypeOK, Conn, Srv
  <2>2. conn.read + n <= srv.sent
    BY DEF ConnRead
  <2>3. srv.sent <= Len(Stream) + 1
    BY <2>1 DEF PostInv, ServerLife
  <2>4. Len(Stream) \in Nat /\ Len(chunks) \in Nat
    <3>1. Stream \in Seq(Tokens)
      BY <2>1, StreamType DEF Stream
    <3>. QED BY <2>1, <3>1, ChunkShape
  <2>. QED BY <2>1, <2>2, <2>3, <2>4
<1>2. PICK k \in 0..Len(chunks) :
        /\ WireEnd(chunks, k) <= got /\ conn.bodyLen = BodyEnd(chunks, k)
        /\ Appended(n) = Buffer(chunks, k, got)
  BY <1>1, AppendedIs DEF BodyInv
<1>3. PICK l \in 0..Len(chunks) : WholeChunks(chunks, got, l)
  BY <1>1, SomeWhole
<1>4. l \in k..Len(chunks)
  <2>1. SUFFICES ASSUME l < k PROVE FALSE
    BY <1>1
  <2>2. l < Len(chunks) /\ l + 1 \in 0..Len(chunks) /\ k \in (l + 1)..Len(chunks)
    BY <1>1, <2>1
  <2>3. got < WireEnd(chunks, l + 1)
    BY <1>3, <2>2 DEF WholeChunks
  <2>4. WireEnd(chunks, l + 1) <= WireEnd(chunks, k)
    BY <1>1, <2>2, EndsGrow
  <2>5. WireEnd(chunks, l + 1) \in Nat /\ WireEnd(chunks, k) \in Nat
    BY <1>1, <2>2, EndsShape
  <2>. QED BY <1>1, <1>2, <2>3, <2>4, <2>5
<1>5. /\ h.last = (got = Len(Stream)) /\ h.bodyLen = BodyEnd(chunks, l)
      /\ h.last => l = Len(chunks) /\ h.buf = Payload[chunks][l]
      /\ ~h.last => h.buf = Buffer(chunks, l, got)
  <2>1. got <= Len(Streams[chunks])
    BY <1>1 DEF Stream
  <2>. DEFINE g == HandleChunked(Buffer(chunks, k, got), BodyEnd(chunks, k))
  <2>2. /\ g.last = (got = Len(Streams[chunks])) /\ g.bodyLen = BodyEnd(chunks, l)
        /\ g.last => l = Len(chunks) /\ g.buf = Payload[chunks][l]
        /\ ~g.last => g.buf = Buffer(chunks, l, got)
    <3>1. chunks \in Bodies /\ got \in Nat /\ WholeChunks(chunks, got, l) /\ l \in k..Len(chunks)
      BY <1>1, <1>3, <1>4
    <3>. HIDE DEF got, chunks
    <3>. QED BY <2>1, <3>1, HandleBuffer
  <2>3. h = g
    BY <1>2
  <2>. QED BY <2>2, <2>3 DEF Stream
<1>6. /\ conn'.read = conn.read + n
      /\ conn'.life = "open" \/ (conn'.life = "killed" /\ srv.fin /\ conn.unsent)
      /\ IF h.last
           THEN body' = h.buf /\ flag' = srv.code /\ conn'.buf = <<>> /\ conn'.bodyLen = 0
           ELSE /\ NoReply /\ conn'.buf = h.buf /\ conn'.bodyLen = h.bodyLen
                /\ conn'.drain = conn.drain
  BY <1>1, ConnReadShape
<1>. HIDE DEF h
<1>7. srv.code # 0 /\ srv.code \in Codes
  <2>1. srv.sent # 0
    BY <1>1
  <2>2. srv.code # 0 /\ srv.code \in {0} \cup Codes
    BY <1>1, <2>1 DEF PostInv, ServerLife, TypeOK, Srv
  <2>. QED BY <2>2
<1>8. conn'.life = "open"
  BY <1>1, <1>6, <1>7 DEF PostInv, ServerLife
<1>9. Stream' = Stream /\ srv' = srv /\ conn'.read > 0 /\ conn'.read # 0
  BY <1>1, <1>6 DEF Stream
<1>10. CASE h.last
  <2>1. /\ conn'.read > Len(Stream) /\ flag' = srv.code
        /\ body' = Payload[chunks][Len(chunks)]
    <3>1. body' = Payload[chunks][Len(chunks)] /\ flag' = srv.code
      BY <1>5, <1>6, <1>10
    <3>2. got = Len(Stream)
      BY <1>5, <1>10
    <3>. QED BY <1>1, <1>6, <3>1, <3>2
  <2>2. flag' # 0
    BY <1>7, <2>1
  <2>3. Reassembled'
    BY <2>2 DEF Reassembled
  <2>4. Delivery'
    BY <1>9, <2>1, <2>2 DEF Delivery
  <2>. QED BY <2>3, <2>4 DEF BodyInv
<1>11. CASE ~h.last
  <2>1. /\ flag' = 0 /\ conn'.buf = Buffer(chunks, l, got)
        /\ conn'.bodyLen = BodyEnd(chunks, l) /\ conn'.drain = conn.drain
    BY <1>5, <1>6, <1>11 DEF NoReply
  <2>2. conn'.read <= Len(Stream) /\ conn'.read - 1 = got
    <3>1. got # Len(Stream)
      BY <1>5, <1>11
    <3>. HIDE DEF got
    <3>2. got + 1 = conn'.read
      BY <1>1, <1>6
    <3>. QED BY <1>1, <3>1, <3>2
  <2>3. Reassembled'
    <3>. HIDE DEF got
    <3>1. Cardinality({j \in 1..Len(chunks) : Len(Encoded[chunks][j]) <= got}) = l
      BY <1>1, <1>3, WholeCount
    <3>. QED BY <1>9, <2>1, <2>2, <3>1 DEF Reassembled, Buffer, WireEnd, BodyEnd, Stream
  <2>4. flag' \notin Codes
    BY <2>1, CodesAre
  <2>5. Delivery'
    BY <1>8, <1>9, <2>1, <2>2, <2>4 DEF Delivery, BodyInv
  <2>. QED BY <2>3, <2>5 DEF BodyInv
<1>. QED BY <1>10, <1>11

\* The connection is read, written or closed.
LEMMA HandleConnBody == ASSUME BodyInv, PostInv', HandleConn PROVE BodyInv'
<1>1. /\ PostInv /\ conn \in Conn /\ srv \in Srv /\ flag = 0
      /\ conn.read \in Nat /\ srv.sent \in Nat
  <2>1. PostInv /\ conn \in Conn /\ srv \in Srv
    BY DEF BodyInv, PostInv, TypeOK
  <2>2. "conn" \in todo
    BY DEF HandleConn
  <2>3. flag = 0
    BY <2>2 DEF BodyInv, Delivery
  <2>. QED BY <2>1, <2>3 DEF Conn, Srv
<1>2. /\ "conn" \in todo /\ todo' = todo \ {"conn"} /\ "conn" \notin todo' /\ UNCHANGED srv
      /\ \/ ConnClosed
         \/ UNCHANGED conn /\ NoReply
         \/ ConnRefused
         \/ /\ srv.net = "open" /\ conn.life \in {"connecting", "open"}
            /\ ConnWrote \/ (\E n \in Nat \ {0} : ConnRead(n)) \/ ConnEnded
  BY <1>1, ConnOutcome
<1>3. Stream' = Stream /\ srv' = srv
  BY <1>2 DEF Stream
<1>4. conn.read <= Len(Stream) /\ (conn.read = 0 => conn.buf = <<>> /\ conn.bodyLen = 0)
      /\ (conn.life = "killed" \/ conn.drain => srv.fin /\ srv.sent <= Len(Stream))
  BY <1>1 DEF BodyInv, Delivery
<1>5. CASE ConnClosed
  <2>1. /\ conn' = [conn EXCEPT !.life = "gone"] /\ conn'.life = "gone"
        /\ conn'.read = conn.read /\ conn'.buf = conn.buf /\ conn'.bodyLen = conn.bodyLen
        /\ conn'.drain = conn.drain
    BY <1>1, <1>5 DEF ConnClosed, Conn
  <2>2. srv.fin /\ srv.sent <= Len(Stream)
    BY <1>4, <1>5 DEF ConnClosed, MustClose
  <2>3. Delivery'
    BY <1>2, <1>3, <1>4, <2>1, <2>2 DEF Delivery
  <2>4. Reassembled'
    <3>1. conn'.read > 0 /\ flag' = 0 => flag' = flag
      BY <1>1, <1>5 DEF ConnClosed, Reply, NoReply
    <3>. QED BY <1>3, <2>1, <3>1 DEF BodyInv, Reassembled
  <2>. QED BY <2>3, <2>4 DEF BodyInv
<1>6. CASE UNCHANGED conn /\ NoReply
  BY <1>1, <1>2, <1>6, BodyUntouched DEF NoReply
<1>7. CASE ConnRefused
  <2>1. /\ flag' = ConnectFailed /\ UNCHANGED body
        /\ conn'.read = conn.read /\ conn'.buf = conn.buf /\ conn'.bodyLen = conn.bodyLen
    BY <1>1, <1>7 DEF ConnRefused, Conn
  <2>. QED BY <1>2, <2>1, BodyRefused
<1>8. CASE srv.net = "open" /\ ConnWrote
  <2>1. /\ conn'.read = conn.read /\ conn'.buf = conn.buf /\ conn'.bodyLen = conn.bodyLen
        /\ conn'.drain = conn.drain
        /\ conn'.life = "killed" => srv.fin /\ conn.unsent
        /\ conn'.life \in {"open", "killed"}
    <3>1. /\ Opened \in Conn /\ Opened.life = "open" /\ Opened.read = conn.read
          /\ Opened.buf = conn.buf /\ Opened.bodyLen = conn.bodyLen
          /\ Opened.drain = conn.drain /\ Opened.unsent = conn.unsent
      BY <1>1, OpenedShape
    <3>2. \/ conn' = Opened
          \/ conn' = [Opened EXCEPT !.unsent = FALSE]
          \/ conn' = [Opened EXCEPT !.life = "killed"] /\ srv.fin /\ Opened.unsent
      BY <1>8, <3>1 DEF ConnWrote, Written
    <3>. HIDE DEF Opened
    <3>. QED BY <3>1, <3>2 DEF Conn
  <2>2. conn'.life = "open"
    BY <1>1, <2>1 DEF PostInv, ServerLife
  <2>3. conn.life # "gone"
    BY <1>1, <1>2 DEF PostInv, ConnLife
  <2>. QED BY <1>2, <1>8, <2>1, <2>2, <2>3, BodyUntouched DEF ConnWrote, NoReply
<1>9. CASE srv.net = "open" /\ \E n \in Nat \ {0} : ConnRead(n)
  BY <1>1, <1>2, <1>9, ReadBody
<1>10. CASE srv.net = "open" /\ ConnEnded
  <2>1. srv.sent = conn.read /\ srv.fin /\ flag' = 0 /\ UNCHANGED body
    BY <1>1, <1>10 DEF ConnEnded, NoReply
  <2>2. srv.fin /\ srv.sent <= Len(Stream)
    BY <1>4, <2>1
  <2>3. conn'.read = conn.read /\ conn'.buf = conn.buf /\ conn'.bodyLen = conn.bodyLen
    <3>1. /\ Opened \in Conn /\ Opened.read = conn.read
          /\ Opened.buf = conn.buf /\ Opened.bodyLen = conn.bodyLen
      BY <1>1, OpenedShape
    <3>. DEFINE c == [Opened EXCEPT !.drain = TRUE]
    <3>2. /\ c \in Conn /\ c.read = conn.read
          /\ c.buf = conn.buf /\ c.bodyLen = conn.bodyLen
      BY <3>1 DEF Conn
    <3>3. \/ conn' = [Opened EXCEPT !.life = "killed"]
          \/ conn' \in Written(c)
      BY <1>10 DEF ConnEnded
    <3>. HIDE DEF Opened, c
    <3>4. \/ conn' = [Opened EXCEPT !.life = "killed"]
          \/ conn' = c
          \/ conn' = [c EXCEPT !.unsent = FALSE]
          \/ conn' = [c EXCEPT !.life = "killed"]
      BY <3>3 DEF Written
    <3>. QED BY <3>1, <3>2, <3>4 DEF Conn
  <2>4. Reassembled'
    BY <1>1, <1>3, <2>1, <2>3 DEF BodyInv, Reassembled
  <2>5. Delivery'
    <3>1. flag' \notin Codes
      BY <2>1, CodesAre
    <3>. QED BY <1>2, <1>3, <1>4, <2>1, <2>2, <2>3, <3>1 DEF Delivery
  <2>. QED BY <2>4, <2>5 DEF BodyInv
<1>. QED BY <1>2, <1>5, <1>6, <1>7, <1>8, <1>9, <1>10

\* http_post and its loop leave buffer and body alone.
LEMMA LoopBody ==
  ASSUME BodyInv, PostInv', Call \/ Select \/ PollDone \/ Return \/ UNCHANGED vars
  PROVE  BodyInv'
<1>1. PostInv /\ conn \in Conn
  BY DEF BodyInv, PostInv, TypeOK
<1>2. CASE Call
  <2>1. /\ UNCHANGED <<flag, srv, body, todo>>
        /\ conn' = [conn EXCEPT !.life = "resolving", !.unsent = TRUE]
        /\ conn.life = "none"
    BY <1>1, <1>2 DEF Call, PostInv, ConnLife
  <2>2. /\ conn'.read = conn.read /\ conn'.buf = conn.buf /\ conn'.bodyLen = conn.bodyLen
        /\ conn'.drain = conn.drain /\ conn'.life = "resolving"
    BY <1>1, <2>1 DEF Conn
  <2>. QED BY <2>1, <2>2, BodyUntouched
<1>3. CASE Select
  <2>1. flag = 0 /\ UNCHANGED <<flag, srv, body, conn>>
    BY <1>3 DEF Select
  <2>. QED BY <2>1, BodyUntouched
<1>4. CASE PollDone \/ Return \/ UNCHANGED vars
  <2>1. UNCHANGED <<flag, srv, body, conn, todo>>
    BY <1>4 DEF PollDone, Return, vars
  <2>. QED BY <2>1, BodyUntouched
<1>. QED BY <1>2, <1>3, <1>4

\* Time and datagrams do, too.
LEMMA NetworkBody ==
  ASSUME BodyInv, PostInv', Timeout \/ (\E g \in Datagrams : NameServer(g)) \/ Lose
  PROVE  BodyInv'
<1>1. UNCHANGED <<flag, srv, body, conn, todo>>
  BY DEF Timeout, NameServer, Lose, clientVars
<1>. QED BY <1>1, BodyUntouched

\* Nothing has been read.
LEMMA BodyInit == ASSUME Init PROVE BodyInv
<1>1. PostInv
  BY PostInit
<1>2. conn.read = 0 /\ conn.buf = <<>> /\ conn.bodyLen = 0 /\ flag = 0 /\ conn.life = "none"
      /\ ~conn.drain /\ todo = {}
  BY DEF Init
<1>3. Reassembled
  <2>1. ~(conn.read > 0)
    BY <1>2
  <2>. QED BY <2>1 DEF Reassembled
<1>4. 0 <= Len(Stream)
  <2>1. srv.chunks \in Bodies
    BY <1>1 DEF PostInv, TypeOK, Srv
  <2>2. Stream \in Seq(Tokens)
    BY <2>1, StreamType DEF Stream
  <2>. QED BY <2>2
<1>5. Delivery
  BY <1>2, <1>4, CodesAre DEF Delivery
<1>. QED BY <1>1, <1>3, <1>5 DEF BodyInv

\* The invariant of the buffer and the delivered body, chunk by chunk.
THEOREM BodyInvariance == Spec => []BodyInv
<1>1. Init => BodyInv
  BY BodyInit
<1>2. BodyInv /\ LookupInv /\ PostInv' /\ [Next]_vars => BodyInv'
  <2>1. SUFFICES ASSUME BodyInv, LookupInv, PostInv', [Next]_vars PROVE BodyInv'
    OBVIOUS
  <2>2. CASE Call \/ Select \/ PollDone \/ Return \/ UNCHANGED vars
    BY <2>1, <2>2, LoopBody
  <2>3. CASE HandleDns
    BY <2>1, <2>3, HandleDnsBody
  <2>4. CASE HandleConn
    BY <2>1, <2>4, HandleConnBody
  <2>5. CASE Timeout \/ (\E g \in Datagrams : NameServer(g)) \/ Lose
    BY <2>1, <2>5, NetworkBody
  <2>6. CASE Server
    BY <2>1, <2>6, ServerBody
  <2>. QED BY <2>1, <2>2, <2>3, <2>4, <2>5, <2>6 DEF Next, Running, Terminated
<1>. QED BY <1>1, <1>2, LookupInvariance, PostInvariance, PTL DEF Spec

\* However the reply is cut into reads, the buffer holds what it should.
THEOREM ReassembledHolds == Spec => []Reassembled
<1>1. BodyInv => Reassembled
  BY DEF BodyInv
<1>. QED BY <1>1, BodyInvariance, PTL

\* The caller has the whole body and nothing else.
THEOREM BodyWholeHolds == Spec => []BodyWhole
<1>1. BodyInv => BodyWhole
  <2>1. SUFFICES ASSUME BodyInv, pc = "back", result # ConnectFailed,
                        ~(srv.fin /\ srv.sent <= Len(Stream))
                 PROVE  body = Payload[srv.chunks][Len(srv.chunks)]
    BY DEF BodyWhole
  <2>2. flag \in Codes
    <3>1. /\ flag # 0 /\ result = (IF flag = 200 THEN 0 ELSE flag)
          /\ flag \in {0, ConnectFailed} \cup Codes
      BY <2>1 DEF BodyInv, PostInv, Decided, TypeOK
    <3>. QED BY <2>1, <3>1 DEF ConnectFailed
  <2>. QED BY <2>1, <2>2 DEF BodyInv, Delivery
<1>. QED BY <1>1, BodyInvariance, PTL
=============================================================================
