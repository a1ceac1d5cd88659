-------------------------- MODULE CrestPost_proofs --------------------------
(***************************************************************************)
(* Proofs about CrestPost, for every number of posts, segmentation, status *)
(* code set and choice of faults, as long as the server sends one reply    *)
(* per connection.                                                         *)
(***************************************************************************)
EXTENDS CrestPost, SequenceTheorems, FiniteSetTheorems, TLAPS

\* The numbers among the constants.
LEMMA Sizes ==
  /\ MaxPosts \in Nat /\ ReqSegs \in Nat \ {0}
  /\ HeadSegs \in Nat \ {0} /\ ReplySegs \in Nat \ {0} /\ HeadSegs <= ReplySegs
  BY PostAssumption DEF PostAssumption

\* Status codes are positive: none is mistaken for an unset s_exit_flag, a
\* failed connect or a pending result.
LEMMA CodeRange == \A c \in Codes : c \in Nat /\ c >= 100
  BY PostAssumption DEF PostAssumption

\* The invariant holds before the first post.
LEMMA InitInv == ASSUME Init PROVE IInv
<1>1. TypeOK
  <2>1. conn \in [Posts -> Conn] /\ srv \in [Posts -> Srv]
    BY DEF Init, Conn, Srv
  <2>2. result \in [Posts -> [ret: {0, Pending, ConnectFailed} \cup Codes,
                              from: 0..MaxPosts]]
    BY Sizes DEF Init
  <2>3. cur \in 0..MaxPosts /\ userData \in 0..MaxPosts /\ setter \in 0..MaxPosts
    BY Sizes DEF Init
  <2>. QED BY <2>1, <2>2, <2>3 DEF Init, TypeOK
<1>2. StreamInv
  BY Sizes DEF StreamInv, Init
<1>3. ControlInv
  BY DEF ControlInv, Live, Init
<1>4. FlagInv /\ OldPostsSpent
  BY DEF FlagInv, OldPostsSpent, Init
<1>5. ResultInv /\ OwnResult
  BY Sizes DEF ResultInv, OwnResult, Returned, Posts, Pending, Init
<1>. QED BY <1>1, <1>2, <1>3, <1>4, <1>5 DEF IInv

-----------------------------------------------------------------------------
(* The caller: a post begins, a post returns, the handle is closed.        *)

LEMMA CallInv ==
  ASSUME IInv, NEW hasBuf \in Buffers, Call(hasBuf) PROVE IInv'
<1>0. /\ cur \in Nat /\ cur + 1 \in Posts /\ cur' = cur + 1
      /\ pc = "idle" /\ pc' = "loop" /\ exitFlag' = 0
      /\ UNCHANGED <<closing, todo, fd, result, wild>>
  BY Sizes DEF IInv, TypeOK, Call, ConnectHttp, Posts
<1>1. TypeOK'
  <2>1. conn[cur + 1] \in Conn /\ srv[cur + 1] \in Srv
    BY <1>0 DEF IInv, TypeOK
  <2>2. [conn[cur + 1] EXCEPT !.life = "live", !.connecting = TRUE,
                              !.unsent = ReqSegs] \in Conn
    BY <2>1, Sizes DEF Conn
  <2>3. [srv[cur + 1] EXCEPT !.net = "syn"] \in Srv
    BY <2>1 DEF Srv
  <2>4. conn' \in [Posts -> Conn] /\ srv' \in [Posts -> Srv]
    BY <1>0, <2>2, <2>3 DEF IInv, TypeOK, Call, ConnectHttp
  <2>5. cur' \in 0..MaxPosts /\ userData' \in 0..MaxPosts /\ setter' \in 0..MaxPosts
    BY <1>0, Sizes DEF IInv, TypeOK, Call, ConnectHttp, Posts
  <2>6. buffered' \subseteq Posts
    BY <1>0 DEF IInv, TypeOK, Call
  <2>. QED BY <1>0, <2>4, <2>5, <2>6 DEF IInv, TypeOK, Call, ConnectHttp
<1>2. \A p \in Posts :
        /\ p # cur + 1 => conn'[p] = conn[p] /\ srv'[p] = srv[p]
        /\ conn'[p].read = conn[p].read
        /\ conn'[p].msgs = conn[p].msgs
        /\ conn'[p].kill = conn[p].kill
        /\ srv'[p].codes = srv[p].codes
        /\ srv'[p].framing = srv[p].framing
        /\ srv'[p].sent = srv[p].sent
  <2>1. conn \in [Posts -> Conn] /\ srv \in [Posts -> Srv]
    BY DEF IInv, TypeOK
  <2>2. CASE UNCHANGED <<conn, srv>>
    BY <1>0, <2>2
  <2>3. CASE /\ conn' = [conn EXCEPT ![cur + 1] =
                           [@ EXCEPT !.life = "live", !.connecting = TRUE,
                                     !.unsent = ReqSegs]]
             /\ srv' = [srv EXCEPT ![cur + 1].net = "syn"]
    BY <1>0, <2>1, <2>3 DEF Conn, Srv
  <2>. QED BY <2>2, <2>3 DEF Call, ConnectHttp
<1>3. srv[cur + 1].net = "none" /\ srv[cur + 1].codes = <<>>
  BY <1>0 DEF IInv, ControlInv, StreamInv, Posts
<1>4. StreamInv'
  BY <1>0, <1>2, <1>3 DEF IInv, StreamInv
<1>5. ControlInv'
  <2>1. Live \subseteq Live'
    BY <1>0, <1>2 DEF IInv, ControlInv, Live, Posts
  <2>2. todo' \subseteq Live' /\ todo' = {}
    BY <1>0, <2>1 DEF IInv, ControlInv
  <2>3. \A p \in Posts : p > cur' => conn'[p].life = "none" /\ srv'[p].net = "none"
    BY <1>0, <1>2 DEF IInv, ControlInv, Posts
  <2>. QED BY <1>0, <2>2, <2>3 DEF IInv, ControlInv
<1>6. FlagInv'
  BY <1>0 DEF IInv, ControlInv, FlagInv, InProgress
<1>7. \A p \in 1..cur : /\ p \in Posts /\ p # cur + 1 /\ ~InProgress(p)
                        /\ conn'[p] = conn[p] /\ srv'[p] = srv[p]
  BY <1>0, <1>2, Sizes DEF InProgress, Posts
<1>8. OldPostsSpent'
  <2>. SUFFICES ASSUME NEW p \in 1..(cur + 1), ~InProgress(p)' \/ exitFlag' # 0
                PROVE /\ Decision(p)' # 0
                      /\ conn'[p].life = "live" => Spent(p)'
    BY <1>0 DEF OldPostsSpent
  <2>1. p \in 1..cur
    BY <1>0 DEF InProgress, IInv, ControlInv
  <2>. QED BY <2>1, <1>7 DEF IInv, OldPostsSpent, Decision, Spent
<1>9. ResultInv'
  BY <1>0 DEF IInv, ResultInv, Returned, InProgress, ControlInv, Posts
<1>10. OwnResult'
  <2>. SUFFICES ASSUME NEW p \in Posts, Returned(p)'
                PROVE /\ result'[p].from = p
                      /\ result'[p].ret = IF Decision(p)' = 200 THEN 0 ELSE Decision(p)'
                      /\ Decision(p)' # 0
    BY DEF OwnResult
  <2>1. p \in 1..cur /\ Returned(p)
    BY <1>0 DEF IInv, ResultInv, Returned, Posts
  <2>. QED BY <1>0, <2>1, <1>7 DEF IInv, OwnResult, Decision
<1>. QED BY <1>1, <1>4, <1>5, <1>6, <1>8, <1>9, <1>10 DEF IInv

LEMMA ReturnInv == ASSUME IInv, Return PROVE IInv'
<1>0. /\ cur \in Nat /\ cur \in 1..MaxPosts /\ cur \in Posts /\ setter = cur
      /\ exitFlag = Decision(cur) /\ exitFlag # 0 /\ exitFlag' = exitFlag
      /\ pc = "loop" /\ pc' = "idle" /\ ~closing /\ cur' = cur
      /\ UNCHANGED <<userData, closing, conn, todo, fd, srv, setter, buffered, wild>>
  BY Sizes DEF IInv, TypeOK, FlagInv, Return, Posts
<1>1. /\ result' = [result EXCEPT ![cur] = result'[cur]]
      /\ result'[cur].from = cur
      /\ result'[cur].ret = IF exitFlag = 200 THEN 0 ELSE exitFlag
      /\ result'[cur] \in [ret: {0, Pending, ConnectFailed} \cup Codes,
                           from: 0..MaxPosts]
  BY <1>0 DEF IInv, TypeOK, Return
<1>2. result'[cur].ret # Pending
  BY <1>0, <1>1, CodeRange DEF IInv, TypeOK, Pending, ConnectFailed
<1>3. TypeOK'
  BY <1>0, <1>1 DEF IInv, TypeOK
<1>4. \A p : Decision(p)' = Decision(p) /\ Spent(p)' = Spent(p)
  BY <1>0 DEF Decision, Spent
<1>5. StreamInv' /\ ControlInv' /\ FlagInv'
  BY <1>0, <1>4 DEF IInv, StreamInv, ControlInv, FlagInv, Live
<1>6. OldPostsSpent'
  BY <1>0, <1>4 DEF IInv, OldPostsSpent
<1>7. \A p \in Posts : p # cur => result'[p] = result[p]
  BY <1>0, <1>1 DEF IInv, TypeOK
<1>8. ResultInv'
  <2>. SUFFICES ASSUME NEW p \in Posts
                PROVE (result'[p].ret # Pending) <=> p <= cur
    BY <1>0 DEF ResultInv, Returned, InProgress
  <2>1. CASE p = cur
    BY <2>1, <1>0, <1>2
  <2>2. CASE p # cur
    BY <2>2, <1>0, <1>7 DEF IInv, ResultInv, Returned, InProgress, Posts
  <2>. QED BY <2>1, <2>2
<1>9. OwnResult'
  <2>. SUFFICES ASSUME NEW p \in Posts, Returned(p)'
                PROVE /\ result'[p].from = p
                      /\ result'[p].ret = IF Decision(p) = 200 THEN 0 ELSE Decision(p)
                      /\ Decision(p) # 0
    BY <1>4 DEF OwnResult
  <2>1. CASE p = cur
    BY <2>1, <1>0, <1>1
  <2>2. CASE p # cur
    BY <2>2, <1>7 DEF IInv, OwnResult, Returned
  <2>. QED BY <2>1, <2>2
<1>. QED BY <1>3, <1>5, <1>6, <1>8, <1>9 DEF IInv

LEMMA CloseHandleInv == ASSUME IInv, CloseHandle PROVE IInv'
<1>0. /\ pc = "idle" /\ pc' = "loop" /\ ~closing /\ closing' = TRUE
      /\ UNCHANGED <<cur, exitFlag, userData, conn, todo, fd, srv,
                     setter, result, buffered, wild>>
  BY DEF CloseHandle, historyVars
<1>1. \A p : /\ Decision(p)' = Decision(p) /\ Spent(p)' = Spent(p)
             /\ ~InProgress(p) /\ ~InProgress(p)' /\ Returned(p)' = Returned(p)
  BY <1>0 DEF Decision, Spent, InProgress, Returned
<1>2. TypeOK' /\ StreamInv'
  BY <1>0 DEF IInv, TypeOK, StreamInv
<1>3. ControlInv' /\ FlagInv'
  BY <1>0, <1>1 DEF IInv, ControlInv, FlagInv, Live
<1>4. OldPostsSpent' /\ ResultInv' /\ OwnResult'
  BY <1>0, <1>1 DEF IInv, OldPostsSpent, ResultInv, OwnResult
<1>. QED BY <1>2, <1>3, <1>4 DEF IInv

\* The steps of the event loop that handle no connection.
LEMMA LoopInv == ASSUME IInv, Select \/ PollDone \/ Freed PROVE IInv'
<1>0. /\ UNCHANGED <<cur, exitFlag, userData, closing, conn, srv,
                     setter, result, buffered, wild>>
      /\ fd' \in [Posts -> SUBSET {"r", "w"}]
      /\ pc' \in {"loop", "conns", "free", "closed"}
      /\ pc \in {"loop", "conns"} /\ ~closing => pc' \in {"loop", "conns"}
      /\ pc' \in {"free", "closed"} => closing
      /\ pc # "idle"
      /\ todo' \subseteq Live
      /\ pc' # "conns" => todo' = {}
      /\ ~closing => pc \in {"loop", "conns"}
  BY DEF IInv, TypeOK, ControlInv, Select, PollDone, Freed, Ready, historyVars
<1>1. \A p : /\ Decision(p)' = Decision(p) /\ Spent(p)' = Spent(p)
             /\ InProgress(p)' = InProgress(p) /\ Returned(p)' = Returned(p)
  BY <1>0 DEF Decision, Spent, InProgress, Returned
<1>2. TypeOK'
  BY <1>0 DEF IInv, TypeOK, Live
<1>3. StreamInv'
  BY <1>0 DEF IInv, StreamInv
<1>4. ControlInv' /\ FlagInv'
  BY <1>0, <1>1 DEF IInv, ControlInv, FlagInv, Live
<1>5. OldPostsSpent' /\ ResultInv' /\ OwnResult'
  BY <1>0, <1>1 DEF IInv, OldPostsSpent, ResultInv, OwnResult
<1>. QED BY <1>2, <1>3, <1>4, <1>5 DEF IInv

-----------------------------------------------------------------------------
(* The server.                                                             *)

\* What every server step does, seen from the client: it changes one entry of
\* srv, of a post already begun, and takes no decision back.
SrvStep(p) ==
  /\ UNCHANGED clientVars /\ UNCHANGED historyVars
  /\ srv' \in [Posts -> Srv]
  /\ \A q \in Posts : q # p => srv'[q] = srv[q]
  /\ srv[p].net # "none"
  /\ StreamInv'
  /\ Decision(p) # 0 => Decision(p)' = Decision(p)
  /\ srv[p].net = "refused" => srv'[p].net = "refused"

LEMMA SrvStepInv ==
  ASSUME IInv, NEW p \in Posts, SrvStep(p) PROVE IInv'
<1>0. UNCHANGED <<pc, cur, exitFlag, userData, closing, conn, todo, fd,
                  setter, result, buffered, wild>>
  BY DEF SrvStep, clientVars, historyVars
<1>1. TypeOK' /\ StreamInv'
  BY <1>0 DEF IInv, TypeOK, SrvStep
<1>2. \A q \in Posts : /\ Decision(q) # 0 => Decision(q)' = Decision(q)
                       /\ Spent(q) => Spent(q)'
                       /\ InProgress(q)' = InProgress(q)
                       /\ Returned(q)' = Returned(q)
  BY <1>0 DEF SrvStep, Decision, Spent, InProgress, Returned
<1>3. ControlInv'
  BY <1>0 DEF IInv, ControlInv, Live, SrvStep
<1>4. 1..cur \subseteq Posts /\ (cur > 0 => cur \in Posts)
  BY Sizes DEF IInv, TypeOK, Posts
<1>5. FlagInv'
  BY <1>0, <1>2, <1>4 DEF IInv, FlagInv, InProgress
<1>6. OldPostsSpent'
  <2>. SUFFICES ASSUME NEW q \in 1..cur, ~InProgress(q) \/ exitFlag # 0
                PROVE Decision(q)' # 0 /\ (conn[q].life = "live" => Spent(q)')
    BY <1>0, <1>2, <1>4 DEF OldPostsSpent
  <2>. QED BY <1>2, <1>4 DEF IInv, OldPostsSpent
<1>7. ResultInv'
  BY <1>0, <1>2 DEF IInv, ResultInv
<1>8. OwnResult'
  <2>. SUFFICES ASSUME NEW q \in Posts, Returned(q)
                PROVE /\ result[q].from = q
                      /\ result[q].ret = IF Decision(q)' = 200 THEN 0 ELSE Decision(q)'
                      /\ Decision(q)' # 0
    BY <1>0, <1>2 DEF OwnResult
  <2>. QED BY <1>2 DEF IInv, OwnResult
<1>. QED BY <1>1, <1>3, <1>5, <1>6, <1>7, <1>8 DEF IInv

LEMMA ConnectionAnswerInv ==
  ASSUME IInv, NEW p \in Posts, Accept(p) \/ Refuse(p) \/ Finish(p)
  PROVE  SrvStep(p)
<1>0. UNCHANGED clientVars /\ UNCHANGED historyVars /\ conn' = conn
  BY DEF Accept, Refuse, Finish, clientVars
<1>1. srv \in [Posts -> Srv] /\ srv[p] \in Srv
  BY DEF IInv, TypeOK
<1>2. /\ srv' \in [Posts -> Srv]
      /\ srv'[p].codes = srv[p].codes /\ srv'[p].framing = srv[p].framing
      /\ srv'[p].sent = srv[p].sent
      /\ srv[p].net \in {"syn", "open"}
      /\ srv'[p].net = srv[p].net \/ srv[p].net = "syn"
      /\ \A q \in Posts : q # p => srv'[q] = srv[q]
  <2>1. CASE Accept(p)
    BY <1>1, <2>1 DEF Srv, Accept
  <2>2. CASE Refuse(p)
    BY <1>1, <2>2 DEF Srv, Refuse
  <2>3. CASE Finish(p)
    BY <1>1, <2>3 DEF Srv, Finish
  <2>. QED BY <2>1, <2>2, <2>3
<1>3. srv[p].net = "syn" => srv[p].codes = <<>>
  BY DEF IInv, StreamInv
<1>4. StreamInv'
  BY <1>0, <1>2, <1>3 DEF IInv, StreamInv
<1>5. Decision(p) # 0 => Decision(p)' = Decision(p)
  BY <1>2, <1>3 DEF Decision
<1>. QED BY <1>0, <1>2, <1>4, <1>5 DEF SrvStep

LEMMA NonEmpty == ASSUME NEW s, Len(s) = 1 PROVE s # <<>>
  OBVIOUS

\* What Answer does to srv, without its guards.
LEMMA AnswerChoice ==
  ASSUME NEW p, Answer(p)
  PROVE  \E n \in 1..MaxReplies : \E codes \in [1..n -> Codes] :
           \E framing \in Framings :
             srv' = [srv EXCEPT ![p] = [@ EXCEPT !.codes = codes, !.framing = framing]]
  BY Zenon DEF Answer

LEMMA AnswerInv ==
  ASSUME MaxReplies = 1, IInv, NEW p \in Posts, Answer(p) PROVE SrvStep(p)
<1>0. UNCHANGED clientVars /\ UNCHANGED historyVars /\ conn' = conn
  BY DEF Answer, clientVars
<1>1. srv \in [Posts -> Srv] /\ srv[p] \in Srv
  BY DEF IInv, TypeOK
<1>2. PICK codes \in [1..1 -> Codes], framing \in Framings :
        srv' = [srv EXCEPT ![p] = [@ EXCEPT !.codes = codes, !.framing = framing]]
  <2>1. PICK n \in 1..MaxReplies : \E codes \in [1..n -> Codes] :
          \E framing \in Framings :
            srv' = [srv EXCEPT ![p] = [@ EXCEPT !.codes = codes, !.framing = framing]]
    BY AnswerChoice
  <2>2. n = 1
    OBVIOUS
  <2>. QED BY <2>1, <2>2
<1>3. codes \in Seq(Codes) /\ Len(codes) = 1 /\ codes # <<>>
  <2>1. codes \in Seq(Codes)
    BY <1>2, SeqDef
  <2>2. Len(codes) = 1
    BY <1>2, <2>1, LenProperties
  <2>. QED BY <2>1, <2>2, NonEmpty
<1>4. /\ srv[p].net = "open" /\ srv[p].codes = <<>>
      /\ srv[p].sent = 0 /\ conn[p].read <= 0 /\ srv[p].framing = "none"
  BY DEF Answer, IInv, StreamInv
<1>5. [srv[p] EXCEPT !.codes = codes, !.framing = framing] \in Srv
  BY <1>1, <1>3 DEF Srv
<1>6. /\ srv' \in [Posts -> Srv] /\ srv'[p].sent = 0 /\ srv'[p].net = "open"
      /\ srv'[p].codes = codes /\ srv'[p].framing = framing
      /\ \A q \in Posts : q # p => srv'[q] = srv[q]
  BY <1>1, <1>2, <1>4, <1>5 DEF Srv
<1>7. conn[p].read = 0
  BY <1>4 DEF IInv, TypeOK, Conn
<1>8. StreamInv'
  BY <1>0, <1>2, <1>3, <1>4, <1>6, <1>7, Sizes DEF IInv, StreamInv
<1>9. Decision(p) = 0
  BY <1>4 DEF Decision
<1>. QED BY <1>0, <1>4, <1>6, <1>8, <1>9 DEF SrvStep

LEMMA SendInv ==
  ASSUME IInv, NEW p \in Posts, SendSegment(p) PROVE SrvStep(p)
<1>0. UNCHANGED clientVars /\ UNCHANGED historyVars /\ conn' = conn
  BY DEF SendSegment, clientVars
<1>1. srv \in [Posts -> Srv] /\ srv[p] \in Srv /\ conn[p] \in Conn
  BY DEF IInv, TypeOK
<1>2. /\ srv' \in [Posts -> Srv] /\ srv'[p].sent = srv[p].sent + 1
      /\ srv'[p].codes = srv[p].codes /\ srv'[p].framing = srv[p].framing
      /\ srv'[p].net = srv[p].net
      /\ \A q \in Posts : q # p => srv'[q] = srv[q]
  <2>0. srv[p].sent + 1 \in Nat
    BY <1>1 DEF Srv
  <2>1. [srv[p] EXCEPT !.sent = srv[p].sent + 1] \in Srv
    BY <1>1, <2>0 DEF Srv
  <2>2. srv' = [srv EXCEPT ![p] = [srv[p] EXCEPT !.sent = srv[p].sent + 1]]
    BY DEF SendSegment
  <2>. QED BY <1>1, <2>1, <2>2 DEF Srv
<1>3. Len(srv[p].codes) = 1 /\ srv[p].codes # <<>> /\ srv[p].net = "open"
  BY DEF SendSegment, IInv, StreamInv
<1>4. srv[p].sent \in Nat /\ srv[p].sent + 1 <= ReplySegs /\ conn[p].read \in Nat
  BY <1>1, <1>3, Sizes DEF SendSegment, Srv, Conn
<1>5. StreamInv'
  BY <1>0, <1>1, <1>2, <1>3, <1>4, Sizes DEF IInv, StreamInv
<1>6. Decision(p)' = Decision(p)
  BY <1>2 DEF Decision
<1>. QED BY <1>0, <1>2, <1>3, <1>5, <1>6 DEF SrvStep

LEMMA ServerInv ==
  ASSUME MaxReplies = 1, IInv, NEW p \in Posts, Server(p) PROVE IInv'
  BY SrvStepInv, ConnectionAnswerInv, AnswerInv, SendInv DEF Server

-----------------------------------------------------------------------------
(* The event loop: one connection is handled, or freed.                    *)

\* What every step on connection p does: a spent connection stays spent and
\* makes no event, and an event carries the decision about post p.
ConnStep(p) ==
  /\ p \in Live
  /\ UNCHANGED <<pc, cur, userData, closing, fd, srv, result, buffered>>
  /\ todo' = todo \ {p}
  /\ conn' \in [Posts -> Conn]
  /\ \A q \in Posts : q # p => conn'[q] = conn[q]
  /\ StreamInv'
  /\ wild' \subseteq Posts
  /\ Spent(p) /\ conn'[p].life = "live" => Spent(p)'
  /\ \/ UNCHANGED <<exitFlag, setter, wild>>
     \/ /\ ~Spent(p) /\ Decision(p) # 0
        /\ exitFlag' = Decision(p) /\ setter' = p
        /\ wild' # wild => wild' = wild \cup {p} /\ ~(userData = p /\ FrameAlive)
        /\ conn'[p].life = "live" => Spent(p)'

Decided == \A p \in Posts : Decision(p) \in {0, ConnectFailed} \cup Codes

LEMMA DecisionType == TypeOK /\ StreamInv => Decided
<1>. SUFFICES ASSUME TypeOK, StreamInv, NEW p \in Posts
              PROVE  Decision(p) \in {0, ConnectFailed} \cup Codes
  BY DEF Decided
<1>1. srv[p] \in Srv
  BY DEF TypeOK
<1>2. srv[p].codes # <<>> => srv[p].codes[1] \in Codes
  <2>. SUFFICES ASSUME srv[p].codes # <<>> PROVE srv[p].codes[1] \in Codes
    OBVIOUS
  <2>1. srv[p].codes \in Seq(Codes) /\ Len(srv[p].codes) = 1
    BY <1>1 DEF StreamInv, Srv
  <2>. QED BY <2>1, ElementOfSeq
<1>. QED BY <1>2 DEF Decision

\* Only the post in progress can still get an event, and only one.
LEMMA EventOfCurrent ==
  ASSUME IInv, NEW p \in Live, ~Spent(p)
  PROVE  p = cur /\ InProgress(p) /\ exitFlag = 0
<1>1. p \in Posts /\ conn[p].life = "live" /\ p \in 1..cur
  BY DEF Live, IInv, ControlInv, TypeOK, Posts
<1>. QED BY <1>1 DEF IInv, OldPostsSpent, InProgress

LEMMA ConnStepInv ==
  ASSUME IInv, NEW p \in Posts, ConnStep(p) PROVE IInv'
<1>1. p \in Live /\ conn[p].life = "live" /\ p <= cur
  BY DEF ConnStep, Live, IInv, ControlInv, TypeOK, Posts
<1>2. TypeOK' /\ StreamInv'
  <2>1. exitFlag' \in {0, ConnectFailed} \cup Codes /\ setter' \in 0..MaxPosts
    BY DecisionType DEF Decided, ConnStep, IInv, TypeOK, Posts
  <2>. QED BY <2>1 DEF ConnStep, IInv, TypeOK
<1>3. \A q : /\ Decision(q)' = Decision(q)
             /\ InProgress(q)' = InProgress(q)
             /\ Returned(q)' = Returned(q)
  BY DEF ConnStep, Decision, InProgress, Returned
<1>4. ControlInv'
  <2>1. \A q \in Posts : q # p => (q \in Live <=> q \in Live')
    BY DEF ConnStep, Live
  <2>2. todo' \subseteq Live'
    BY <2>1 DEF ConnStep, IInv, ControlInv, Live
  <2>3. \A q \in Posts : q > cur' => conn'[q].life = "none" /\ srv'[q].net = "none"
    BY <1>1 DEF ConnStep, IInv, ControlInv, Posts, TypeOK
  <2>. QED BY <2>2, <2>3 DEF ConnStep, IInv, ControlInv
<1>5. \A q \in Posts : q # p => Spent(q)' = Spent(q) /\ conn'[q].life = conn[q].life
  BY DEF ConnStep, Spent
<1>6. 1..cur \subseteq Posts
  BY Sizes DEF IInv, TypeOK, Posts
<1>7. CASE UNCHANGED <<exitFlag, setter>>
  <2>1. FlagInv'
    BY <1>3, <1>7 DEF ConnStep, IInv, FlagInv
  <2>2. OldPostsSpent'
    <3>. SUFFICES ASSUME NEW q \in 1..cur, ~InProgress(q) \/ exitFlag # 0
                  PROVE Decision(q) # 0 /\ (conn'[q].life = "live" => Spent(q)')
      BY <1>3, <1>7 DEF ConnStep, OldPostsSpent
    <3>1. Decision(q) # 0 /\ (conn[q].life = "live" => Spent(q))
      BY DEF IInv, OldPostsSpent
    <3>2. CASE q = p
      BY <3>1, <3>2, <1>1 DEF ConnStep
    <3>3. CASE q # p
      BY <3>1, <3>3, <1>5, <1>6
    <3>. QED BY <3>2, <3>3
  <2>3. ResultInv' /\ OwnResult'
    BY <1>3 DEF ConnStep, IInv, ResultInv, OwnResult
  <2>. QED BY <1>2, <1>4, <2>1, <2>2, <2>3 DEF IInv
<1>8. CASE /\ ~Spent(p) /\ Decision(p) # 0
           /\ exitFlag' = Decision(p) /\ setter' = p
           /\ conn'[p].life = "live" => Spent(p)'
  <2>1. p = cur /\ InProgress(p) /\ cur > 0
    BY <1>1, <1>8, EventOfCurrent DEF Posts
  <2>2. FlagInv'
    BY <1>3, <1>8, <2>1 DEF ConnStep, FlagInv
  <2>3. OldPostsSpent'
    <3>. SUFFICES ASSUME NEW q \in 1..cur
                  PROVE Decision(q) # 0 /\ (conn'[q].life = "live" => Spent(q)')
      BY <1>3 DEF ConnStep, OldPostsSpent
    <3>1. CASE q = p
      BY <3>1, <1>8
    <3>2. CASE q # p
      BY <3>2, <2>1, <1>5, <1>6 DEF IInv, OldPostsSpent, InProgress
    <3>. QED BY <3>1, <3>2
  <2>4. ResultInv' /\ OwnResult'
    BY <1>3 DEF ConnStep, IInv, ResultInv, OwnResult
  <2>. QED BY <1>2, <1>4, <2>2, <2>3, <2>4 DEF IInv
<1>. QED BY <1>7, <1>8 DEF ConnStep

\* Headers in the buffer are those of the one reply, not yet delivered.
LEMMA BufferedReply ==
  ASSUME IInv, NEW p \in Posts, HeadersBuffered(p)
  PROVE  /\ conn[p].msgs = 0 /\ ~Spent(p)
         /\ Decision(p) = srv[p].codes[conn[p].msgs + 1] /\ Decision(p) # 0
<1>1. /\ conn[p].read \in Nat /\ conn[p].msgs \in {0, 1}
      /\ srv[p].codes # <<>> /\ srv[p].net = "open" /\ Len(srv[p].codes) = 1
      /\ srv[p].codes \in Seq(Codes)
  BY DEF IInv, TypeOK, Conn, Srv, StreamInv, HeadersBuffered
<1>2. conn[p].msgs = 0
  <2>1. CASE conn[p].msgs = 1
    <3>1. conn[p].read = ReplySegs
      BY <2>1 DEF IInv, StreamInv
    <3>. QED BY <2>1, <3>1, Sizes DEF HeadersBuffered
  <2>. QED BY <1>1, <2>1
<1>3. Decision(p) = srv[p].codes[1] /\ srv[p].codes[1] \in Codes
  BY <1>1, ElementOfSeq DEF Decision
<1>. QED BY <1>1, <1>2, <1>3, CodeRange DEF Spent

LEMMA CloseConnInv ==
  ASSUME IInv, NEW p \in Live, CloseConn(p), todo' = todo \ {p},
         UNCHANGED <<pc, cur, userData, closing, fd, srv, result, buffered>>
  PROVE  ConnStep(p)
<1>1. p \in Posts /\ conn \in [Posts -> Conn] /\ conn[p] \in Conn
  BY DEF Live, IInv, TypeOK
<1>2. [conn[p] EXCEPT !.life = "gone"] \in Conn
  BY <1>1 DEF Conn
<1>3. /\ conn' \in [Posts -> Conn] /\ conn'[p].life = "gone"
      /\ conn'[p].read = conn[p].read /\ conn'[p].msgs = conn[p].msgs
      /\ \A q \in Posts : q # p => conn'[q] = conn[q]
  BY <1>1, <1>2 DEF CloseConn, CloseEvent, Conn
<1>4. StreamInv'
  BY <1>3 DEF IInv, StreamInv
<1>5. wild' \subseteq Posts
  BY <1>1 DEF CloseConn, CloseEvent, ReplyEvent, NoEvent, IInv, TypeOK
<1>6. \/ UNCHANGED <<exitFlag, setter, wild>>
      \/ /\ ~Spent(p) /\ Decision(p) # 0 /\ exitFlag' = Decision(p) /\ setter' = p
         /\ wild' # wild => wild' = wild \cup {p} /\ ~(userData = p /\ FrameAlive)
  BY <1>1, BufferedReply DEF CloseConn, CloseEvent, ReplyEvent, NoEvent
<1>. QED BY <1>3, <1>4, <1>5, <1>6 DEF ConnStep

LEMMA ConnectErrorInv ==
  ASSUME IInv, NEW p \in Live, ConnectError(p), todo' = todo \ {p},
         ~MustClose(p), srv[p].net = "refused",
         UNCHANGED <<pc, cur, userData, closing, fd, srv, result, buffered>>
  PROVE  ConnStep(p)
<1>1. p \in Posts /\ conn \in [Posts -> Conn] /\ conn[p] \in Conn
  BY DEF Live, IInv, TypeOK
<1>2. [conn[p] EXCEPT !.connecting = FALSE, !.kill = TRUE] \in Conn
  BY <1>1 DEF Conn
<1>3. /\ conn' \in [Posts -> Conn] /\ conn'[p].kill
      /\ conn'[p].read = conn[p].read /\ conn'[p].msgs = conn[p].msgs
      /\ \A q \in Posts : q # p => conn'[q] = conn[q]
  BY <1>1, <1>2 DEF ConnectError, Conn
<1>4. StreamInv'
  BY <1>3 DEF IInv, StreamInv
<1>5. conn[p].msgs # 1 /\ ~conn[p].kill
  BY <1>1 DEF IInv, StreamInv, MustClose
<1>6. Decision(p) = ConnectFailed /\ ConnectFailed # 0
  BY DEF Decision, ConnectFailed
<1>7. Spent(p)'
  BY <1>3 DEF Spent
<1>. QED BY <1>1, <1>3, <1>4, <1>5, <1>6, <1>7
         DEF ConnStep, ConnectError, Spent, IInv, TypeOK

LEMMA SkipInv ==
  ASSUME IInv, NEW p \in Live, conn' = conn, NoEvent, todo' = todo \ {p},
         UNCHANGED <<pc, cur, userData, closing, fd, srv, result, buffered>>
  PROVE  ConnStep(p)
  BY DEF IInv, TypeOK, StreamInv, ConnStep, NoEvent, Spent

\* What a read leaves behind, whatever the split of the stream: the reply has
\* been delivered if and only if all of it has been read.
LEMMA RecvFacts ==
  ASSUME IInv, NEW p \in Posts, NEW in \in RecvOutcome(p), ~conn[p].kill
  PROVE  /\ in.read \in Nat /\ in.msgs \in Nat
         /\ in.drain \in BOOLEAN /\ in.kill \in BOOLEAN
         /\ conn[p].read <= in.read /\ in.read <= srv[p].sent
         /\ in.msgs = IF srv[p].framing = "length" /\ in.read = ReplySegs
                        THEN 1 ELSE 0
         /\ in.code = IF in.msgs > conn[p].msgs THEN srv[p].codes[1] ELSE 0
<1>1. /\ conn[p] \in Conn /\ srv[p] \in Srv
      /\ conn[p].read \in Nat /\ conn[p].drain \in BOOLEAN
      /\ srv[p].sent \in Nat /\ srv[p].sent <= ReplySegs
      /\ conn[p].read <= srv[p].sent
      /\ conn[p].msgs = IF srv[p].framing = "length" /\ conn[p].read = ReplySegs
                          THEN 1 ELSE 0
  BY DEF IInv, TypeOK, StreamInv, Conn, Srv
<1>2. CASE "r" \in fd[p] /\ srv[p].sent > conn[p].read
  <2>1. PICK r \in (conn[p].read + 1)..srv[p].sent : in \in Received(p, r)
    BY <1>2 DEF RecvOutcome
  <2>2. r \in Nat /\ conn[p].read < r /\ r <= srv[p].sent /\ r <= ReplySegs
    BY <1>1, <2>1, Sizes
  <2>3. srv[p].codes # <<>> /\ Len(srv[p].codes) = 1
    BY <1>1, <1>2 DEF IInv, StreamInv
  <2>4. conn[p].msgs = 0
    BY <1>1, <2>2, Sizes
  <2>5. PICK m \in (IF srv[p].framing = "length"
                      THEN {m \in 0..1 : /\ m * ReplySegs <= r
                                         /\ m < 1 => r < (m + 1) * ReplySegs}
                      ELSE {0}) :
          in = [read |-> r, msgs |-> m,
                drain |-> conn[p].drain \/ m > conn[p].msgs,
                kill |-> srv[p].framing = "junk",
                code |-> IF m > conn[p].msgs THEN srv[p].codes[m] ELSE 0]
    BY <2>1, <2>3, <2>4 DEF Received
  <2>6. m \in {0, 1}
    BY <2>5
  <2>7. m = IF srv[p].framing = "length" /\ r = ReplySegs THEN 1 ELSE 0
    BY <2>2, <2>5, <2>6, Sizes
  <2>. QED BY <1>1, <2>2, <2>4, <2>5, <2>6, <2>7
<1>3. CASE ~("r" \in fd[p] /\ srv[p].sent > conn[p].read)
  <2>1. /\ in.read = conn[p].read /\ in.msgs = conn[p].msgs
        /\ in.drain \in BOOLEAN /\ in.kill \in BOOLEAN /\ in.code = 0
    <3>. DEFINE same == [read |-> conn[p].read, msgs |-> conn[p].msgs,
                         drain |-> conn[p].drain, kill |-> FALSE, code |-> 0]
    <3>1. in \in {same, [same EXCEPT !.drain = TRUE], [same EXCEPT !.kill = TRUE]}
      BY <1>3 DEF RecvOutcome
    <3>2. CASE in = same
      BY <1>1, <3>2
    <3>3. CASE in = [same EXCEPT !.drain = TRUE]
      BY <1>1, <3>3
    <3>4. CASE in = [same EXCEPT !.kill = TRUE]
      BY <1>1, <3>4
    <3>. QED BY <3>1, <3>2, <3>3, <3>4
  <2>. QED BY <1>1, <2>1
<1>. QED BY <1>2, <1>3

LEMMA ServeInv ==
  ASSUME IInv, NEW p \in Live, Serve(p), todo' = todo \ {p}, ~MustClose(p),
         UNCHANGED <<pc, cur, userData, closing, fd, srv, result, buffered>>
  PROVE  ConnStep(p)
<1>1. /\ p \in Posts /\ conn \in [Posts -> Conn] /\ conn[p] \in Conn
      /\ ~conn[p].kill
  BY DEF Live, IInv, TypeOK, MustClose
<1>2. PICK in \in RecvOutcome(p) : \E out \in SendOutcome(p, in.kill) :
        /\ conn' = [conn EXCEPT ![p] =
                      [@ EXCEPT !.connecting = FALSE, !.unsent = out.unsent,
                                !.read = in.read, !.msgs = in.msgs,
                                !.drain = in.drain, !.kill = out.kill]]
        /\ IF in.code # 0 THEN ReplyEvent(p, in.code) ELSE NoEvent
  BY Zenon DEF Serve
<1>3. PICK out \in SendOutcome(p, in.kill) :
        conn' = [conn EXCEPT ![p] =
                   [@ EXCEPT !.connecting = FALSE, !.unsent = out.unsent,
                             !.read = in.read, !.msgs = in.msgs,
                             !.drain = in.drain, !.kill = out.kill]]
  BY <1>2
<1>4. /\ in.read \in Nat /\ in.msgs \in Nat
      /\ in.drain \in BOOLEAN /\ in.kill \in BOOLEAN
      /\ conn[p].read <= in.read /\ in.read <= srv[p].sent
      /\ in.msgs = IF srv[p].framing = "length" /\ in.read = ReplySegs
                     THEN 1 ELSE 0
      /\ in.code = IF in.msgs > conn[p].msgs THEN srv[p].codes[1] ELSE 0
  BY <1>1, RecvFacts
<1>5. out.unsent \in Nat /\ out.kill \in BOOLEAN
  <2>1. conn[p].unsent \in Nat
    BY <1>1 DEF Conn
  <2>. DEFINE same == [unsent |-> conn[p].unsent, kill |-> in.kill]
  <2>2. \/ out = same
        \/ conn[p].unsent # 0 /\ out = [same EXCEPT !.unsent = @ - 1]
        \/ out = [same EXCEPT !.kill = TRUE]
    BY <1>3 DEF SendOutcome
  <2>3. conn[p].unsent # 0 => conn[p].unsent - 1 \in Nat
    BY <2>1
  <2>4. CASE out = same
    BY <1>4, <2>1, <2>4
  <2>5. CASE conn[p].unsent # 0 /\ out = [same EXCEPT !.unsent = @ - 1]
    BY <1>4, <2>3, <2>5
  <2>6. CASE out = [same EXCEPT !.kill = TRUE]
    BY <1>4, <2>1, <2>6
  <2>. QED BY <2>2, <2>4, <2>5, <2>6
<1>6. [conn[p] EXCEPT !.connecting = FALSE, !.unsent = out.unsent,
                      !.read = in.read, !.msgs = in.msgs,
                      !.drain = in.drain, !.kill = out.kill] \in Conn
  BY <1>1, <1>4, <1>5 DEF Conn
<1>7. /\ conn' \in [Posts -> Conn] /\ conn'[p].read = in.read
      /\ conn'[p].msgs = in.msgs
      /\ \A q \in Posts : q # p => conn'[q] = conn[q]
  BY <1>1, <1>3, <1>6 DEF Conn
<1>8. StreamInv'
  BY <1>4, <1>7 DEF IInv, StreamInv
<1>9. Spent(p) => Spent(p)'
  <2>1. /\ conn[p].read \in Nat /\ srv[p].sent \in Nat /\ srv[p].sent <= ReplySegs
        /\ conn[p].msgs = IF srv[p].framing = "length" /\ conn[p].read = ReplySegs
                            THEN 1 ELSE 0
    BY <1>1 DEF IInv, StreamInv, TypeOK, Conn, Srv
  <2>2. conn[p].msgs = 1 => in.msgs = 1
    BY <1>4, <2>1, Sizes
  <2>. QED BY <1>1, <1>7, <2>2 DEF Spent
<1>10. CASE in.code = 0
  <2>1. NoEvent
    BY <1>2, <1>10
  <2>. QED BY <1>7, <1>8, <1>9, <2>1 DEF ConnStep, NoEvent, IInv, TypeOK
<1>11. CASE in.code # 0
  <2>1. ReplyEvent(p, in.code)
    BY <1>2, <1>11
  <2>2. in.msgs = 1 /\ conn[p].msgs = 0 /\ in.code = srv[p].codes[1]
    BY <1>1, <1>4, <1>11 DEF Conn
  <2>3. srv[p].framing = "length"
    BY <1>4, <2>2
  <2>4. srv[p].codes # <<>> /\ srv[p].net = "open"
    BY <1>1, <2>3 DEF IInv, StreamInv
  <2>5. ~Spent(p) /\ Decision(p) = in.code /\ Spent(p)'
    BY <1>7, <2>2, <2>4 DEF Spent, Decision
  <2>6. wild' \subseteq Posts
    BY <1>1, <2>1 DEF ReplyEvent, IInv, TypeOK
  <2>. QED BY <1>7, <1>8, <1>11, <2>1, <2>5, <2>6 DEF ConnStep, ReplyEvent
<1>. QED BY <1>10, <1>11

LEMMA HandleInv ==
  ASSUME IInv, NEW p \in Posts, Handle(p) PROVE ConnStep(p)
<1>1. /\ p \in Live /\ todo' = todo \ {p}
      /\ UNCHANGED <<pc, cur, userData, closing, fd, srv, result, buffered>>
  BY DEF Handle, Newest, IInv, ControlInv
<1>2. CASE MustClose(p) /\ CloseConn(p)
  BY <1>1, <1>2, CloseConnInv
<1>3. CASE UNCHANGED conn /\ NoEvent
  BY <1>1, <1>3, SkipInv
<1>4. CASE ~MustClose(p) /\ srv[p].net = "refused" /\ ConnectError(p)
  BY <1>1, <1>4, ConnectErrorInv
<1>5. CASE ~MustClose(p) /\ Serve(p)
  BY <1>1, <1>5, ServeInv
<1>. QED BY <1>2, <1>3, <1>4, <1>5 DEF Handle

LEMMA FreeConnInv ==
  ASSUME IInv, FreeConn PROVE \E p \in Posts : ConnStep(p)
<1>1. PICK p \in Live : CloseConn(p)
  BY DEF FreeConn
<1>2. todo' = todo \ {p}
  BY DEF FreeConn, IInv, ControlInv
<1>3. ConnStep(p)
  BY <1>1, <1>2, CloseConnInv DEF FreeConn
<1>. QED BY <1>1, <1>3 DEF Live

\* The inductive step: every action of the client, the event loop and the
\* server preserves the invariant.
LEMMA NextInv ==
  ASSUME MaxReplies = 1, IInv, [Next]_vars PROVE IInv'
<1>1. CASE \E hasBuf \in Buffers : Call(hasBuf)
  BY <1>1, CallInv
<1>2. CASE Return
  BY <1>2, ReturnInv
<1>3. CASE Select \/ PollDone \/ Freed
  BY <1>3, LoopInv
<1>4. CASE \E p \in Posts : Handle(p)
  BY <1>4, HandleInv, ConnStepInv
<1>5. CASE FreeConn
  BY <1>5, FreeConnInv, ConnStepInv
<1>6. CASE CloseHandle
  BY <1>6, CloseHandleInv
<1>7. CASE \E p \in Posts : Server(p)
  BY <1>7, ServerInv
<1>8. CASE UNCHANGED vars
  BY <1>8 DEF vars, IInv, TypeOK, StreamInv, ControlInv, FlagInv, OldPostsSpent,
              ResultInv, OwnResult, Decision, Spent, InProgress, Returned, Live
<1>. QED BY <1>1, <1>2, <1>3, <1>4, <1>5, <1>6, <1>7, <1>8
         DEF Next, Client, Terminated

\* The invariant holds of every run in which the server sends at most one
\* reply per connection.
THEOREM Invariance == ASSUME MaxReplies = 1 PROVE Spec => []IInv
<1>1. Init => IInv
  BY InitInv
<1>2. IInv /\ [Next]_vars => IInv'
  BY NextInv
<1>. QED BY <1>1, <1>2, PTL DEF Spec

\* The state stays well typed: the parser never reads a status code the server
\* did not send.
THEOREM TypeCorrect == ASSUME MaxReplies = 1 PROVE Spec => []TypeOK
<1>1. IInv => TypeOK
  BY DEF IInv
<1>. QED BY <1>1, Invariance, PTL

\* Each post returns what was decided about its own request, however requests
\* and replies are split, whatever the server's faults, and although the
\* connections of earlier posts are closed under the feet of later ones.
THEOREM OwnResultHolds == ASSUME MaxReplies = 1 PROVE Spec => []OwnResult
<1>1. IInv => OwnResult
  BY DEF IInv
<1>. QED BY <1>1, Invariance, PTL

-----------------------------------------------------------------------------
(* What follows from the invariant.                                        *)

\* A step on a connection makes no event once s_exit_flag is set.
LEMMA ConnStepKeepsFlag ==
  ASSUME IInv, NEW p \in Posts, ConnStep(p), exitFlag # 0
  PROVE  exitFlag' = exitFlag
  BY EventOfCurrent DEF ConnStep

\* Once a poll has decided a post, no other connection handled in the same
\* poll, and none freed by chaos_crest_close, changes s_exit_flag.
THEOREM FirstEventWinsHolds == ASSUME MaxReplies = 1 PROVE Spec => FirstEventWins
<1>1. ASSUME IInv, [Next]_vars, exitFlag # 0, exitFlag' # exitFlag
      PROVE  \E b \in Buffers : Call(b)
  <2>1. CASE Return \/ Select \/ PollDone \/ CloseHandle \/ Freed
    BY <1>1, <2>1 DEF Return, Select, PollDone, CloseHandle, Freed
  <2>2. CASE \E p \in Posts : Handle(p)
    BY <1>1, <2>2, HandleInv, ConnStepKeepsFlag
  <2>3. CASE FreeConn
    BY <1>1, <2>3, FreeConnInv, ConnStepKeepsFlag
  <2>4. CASE \E p \in Posts : Server(p)
    BY <1>1, <2>4 DEF Server, Accept, Refuse, Answer, SendSegment, Finish, clientVars
  <2>5. CASE UNCHANGED vars
    BY <1>1, <2>5 DEF vars
  <2>. QED BY <1>1, <2>1, <2>2, <2>3, <2>4, <2>5 DEF Next, Client, Terminated
<1>2. IInv /\ [Next]_vars =>
        [exitFlag # 0 => (exitFlag' = exitFlag \/ \E b \in Buffers : Call(b))]_vars
  BY <1>1
<1>. QED BY <1>2, Invariance, PTL DEF Spec, FirstEventWins

\* A post with a receive buffer leaves user_data pointing to its own frame for as
\* long as it is the current one.
UserDataInv ==
  /\ buffered \subseteq 1..cur /\ wild \subseteq 1..cur
  /\ cur \in buffered => userData = cur
  /\ OwnBuffer

\* The reply of a post that was given a receive buffer is written into that buffer
\* or not at all, not into the frame of an http_post that has returned, not into
\* the buffer of a later one, and not by mg_mgr_free; whether the other posts of
\* the handle have a buffer or not.
THEOREM OwnBufferHolds == ASSUME MaxReplies = 1 PROVE Spec => []OwnBuffer
<1>1. Init => UserDataInv
  BY DEF Init, UserDataInv, OwnBuffer
<1>2. ASSUME IInv, UserDataInv, [Next]_vars PROVE UserDataInv'
  <2>0. cur \in Nat /\ cur \in 0..MaxPosts
    BY <1>2 DEF IInv, TypeOK
  <2>1. ASSUME NEW hasBuf \in Buffers, Call(hasBuf) PROVE UserDataInv'
    <3>1. /\ cur' = cur + 1 /\ wild' = wild
          /\ buffered' = IF hasBuf THEN buffered \cup {cur + 1} ELSE buffered
          /\ userData' = IF hasBuf THEN cur + 1 ELSE userData
      BY <2>1 DEF Call
    <3>2. cur + 1 \notin wild /\ cur + 1 \notin buffered
      BY <1>2, <2>0 DEF UserDataInv
    <3>3. buffered' \subseteq 1..cur' /\ wild' \subseteq 1..cur'
      BY <1>2, <2>0, <3>1 DEF UserDataInv
    <3>4. cur' \in buffered' => userData' = cur'
      BY <3>1, <3>2
    <3>5. OwnBuffer'
      BY <1>2, <3>1, <3>2 DEF UserDataInv, OwnBuffer
    <3>. QED BY <3>3, <3>4, <3>5 DEF UserDataInv
  <2>2. CASE Return \/ Select \/ PollDone \/ CloseHandle \/ Freed
    BY <1>2, <2>2 DEF Return, Select, PollDone, CloseHandle, Freed, historyVars,
                      UserDataInv, OwnBuffer
  <2>3. ASSUME NEW p \in Posts, ConnStep(p) PROVE UserDataInv'
    <3>1. wild' # wild => /\ wild' = wild \cup {p} /\ p = cur /\ ~closing
                          /\ ~(userData = p /\ FrameAlive)
      BY <1>2, <2>3, EventOfCurrent DEF ConnStep, InProgress
    <3>2. wild' # wild => wild' = wild \cup {cur} /\ cur \notin buffered
      BY <1>2, <3>1 DEF UserDataInv, FrameAlive
    <3>3. cur' = cur /\ userData' = userData /\ buffered' = buffered
      BY <2>3 DEF ConnStep
    <3>4. wild' # wild => cur \in 1..cur
      BY <2>0, <3>1 DEF Posts
    <3>5. wild' \subseteq 1..cur'
      BY <1>2, <3>2, <3>3, <3>4 DEF UserDataInv
    <3>6. OwnBuffer'
      BY <1>2, <3>2, <3>3 DEF UserDataInv, OwnBuffer
    <3>. QED BY <1>2, <3>3, <3>5, <3>6 DEF UserDataInv
  <2>4. CASE \E p \in Posts : Handle(p)
    BY <1>2, <2>3, <2>4, HandleInv
  <2>5. CASE FreeConn
    BY <1>2, <2>3, <2>5, FreeConnInv
  <2>6. CASE \E p \in Posts : Server(p)
    BY <1>2, <2>6 DEF Server, Accept, Refuse, Answer, SendSegment, Finish,
                      clientVars, historyVars, UserDataInv, OwnBuffer
  <2>7. CASE UNCHANGED vars
    BY <1>2, <2>7 DEF vars, UserDataInv, OwnBuffer
  <2>. QED BY <1>2, <2>1, <2>2, <2>4, <2>5, <2>6, <2>7
           DEF Next, Client, Terminated
<1>3. UserDataInv => OwnBuffer
  BY DEF UserDataInv
<1>. QED BY <1>1, <1>2, <1>3, Invariance, PTL DEF Spec

-----------------------------------------------------------------------------
(* http_post implements PostRPC.                                           *)

Phase == IF closing THEN "closed" ELSE IF pc = "idle" THEN "idle" ELSE "calling"

\* A step that leaves phase, decisions and results alone is a stutter.
LEMMA Stutter ==
  ASSUME Phase' = Phase, cur' = cur,
         \A p \in Posts : Decision(p)' = Decision(p) /\ result'[p].ret = result[p].ret
  PROVE  UNCHANGED RPC!vars
<1>1. [p \in Posts |-> Decision(p)]' = [p \in Posts |-> Decision(p)]
  BY DEF Posts
<1>2. [p \in Posts |-> result[p].ret]' = [p \in Posts |-> result[p].ret]
  BY DEF Posts
<1>. QED BY <1>1, <1>2 DEF RPC!vars, Phase

\* The server's decision is taken once, for the call in progress.
LEMMA SrvStepDecides ==
  ASSUME IInv, NEW p \in Posts, SrvStep(p) PROVE [RPC!Next]_RPC!vars
<1>0. /\ UNCHANGED <<pc, cur, closing, result>> /\ p <= cur
      /\ \A q \in Posts : q # p => Decision(q)' = Decision(q)
  BY DEF SrvStep, clientVars, historyVars, IInv, ControlInv, TypeOK, Posts, Decision
<1>1. CASE Decision(p)' = Decision(p)
  <2>1. UNCHANGED RPC!vars
    BY <1>0, <1>1, Stutter DEF Phase
  <2>. QED BY <2>1
<1>2. CASE Decision(p)' # Decision(p)
  <2>1. Decision(p) = 0 /\ p \in 1..cur
    BY <1>0, <1>2 DEF SrvStep, Posts, IInv, TypeOK
  <2>2. InProgress(p)
    BY <2>1 DEF IInv, OldPostsSpent
  <2>3. TypeOK' /\ StreamInv'
    BY SrvStepInv DEF IInv
  <2>4. Decision(p)' \in Codes \cup {ConnectFailed}
    <3>1. Decided'
      BY <2>3, DecisionType, PTL
    <3>. QED BY <3>1, <2>1, <1>2 DEF Decided
  <2>5. [q \in Posts |-> Decision(q)]' =
          [[q \in Posts |-> Decision(q)] EXCEPT ![cur] = Decision(p)']
    BY <1>0, <2>2 DEF InProgress, Posts
  <2>6. Phase = "calling" /\ Phase' = Phase
    BY <1>0, <2>2 DEF Phase, InProgress
  <2>7. [q \in Posts |-> Decision(q)][cur] = 0
    BY <2>1, <2>2 DEF InProgress
  <2>8. [q \in Posts |-> result[q].ret]' = [q \in Posts |-> result[q].ret]
    BY <1>0 DEF Posts
  <2>9. RPC!Decide
    BY <1>0, <2>4, <2>5, <2>6, <2>7, <2>8
       DEF RPC!Decide, RPC!Undecided, RPC!ConnectFailed, ConnectFailed, Phase
  <2>. QED BY <2>9 DEF RPC!Next
<1>. QED BY <1>1, <1>2

LEMMA CallRefines ==
  ASSUME IInv, NEW hasBuf \in Buffers, Call(hasBuf) PROVE RPC!Call
<1>1. /\ Phase = "idle" /\ Phase' = "calling" /\ cur < MaxPosts /\ cur' = cur + 1
      /\ result' = result /\ cur \in Nat /\ cur + 1 \in Posts
  BY Sizes DEF Call, ConnectHttp, Phase, IInv, TypeOK, Posts
<1>2. srv[cur + 1].net = "none" /\ srv[cur + 1].codes = <<>>
  BY <1>1 DEF IInv, ControlInv, StreamInv, Posts
<1>3. \A p \in Posts : Decision(p)' = Decision(p)
  <2>1. srv \in [Posts -> Srv]
    BY DEF IInv, TypeOK
  <2>2. CASE srv' = srv
    BY <2>2 DEF Decision
  <2>3. CASE srv' = [srv EXCEPT ![cur + 1].net = "syn"]
    BY <1>1, <1>2, <2>1, <2>3 DEF Decision, Srv
  <2>. QED BY <2>2, <2>3 DEF Call, ConnectHttp
<1>4. [p \in Posts |-> Decision(p)]' = [p \in Posts |-> Decision(p)]
  BY <1>3 DEF Posts
<1>5. [p \in Posts |-> result[p].ret]' = [p \in Posts |-> result[p].ret]
  BY <1>1 DEF Posts
<1>. QED BY <1>1, <1>4, <1>5 DEF RPC!Call, Phase

LEMMA ReturnRefines == ASSUME IInv, Return PROVE RPC!Return
<1>1. /\ Phase = "calling" /\ Phase' = "idle" /\ cur' = cur /\ srv' = srv
      /\ cur \in Posts /\ exitFlag = Decision(cur) /\ exitFlag # 0
  BY Sizes DEF Return, Phase, IInv, TypeOK, FlagInv, Posts
<1>2. [p \in Posts |-> Decision(p)]' = [p \in Posts |-> Decision(p)]
  BY <1>1 DEF Posts, Decision
<1>3. [p \in Posts |-> Decision(p)][cur] = exitFlag
  BY <1>1
<1>4. [p \in Posts |-> result[p].ret]' =
        [[p \in Posts |-> result[p].ret] EXCEPT
           ![cur] = IF exitFlag = 200 THEN 0 ELSE exitFlag]
  BY <1>1 DEF Return, IInv, TypeOK, Posts
<1>. QED BY <1>1, <1>2, <1>3, <1>4
         DEF RPC!Return, RPC!Outcome, RPC!Undecided, Phase

\* Whatever happens on the connections, the callers of http_post see one call
\* at a time, each decided at most once and answered with its own decision.
THEOREM Refinement == ASSUME MaxReplies = 1 PROVE Spec => ImplementsRPC
<1>1. Init => RPC!Init
  <2>. SUFFICES ASSUME Init PROVE RPC!Init
    OBVIOUS
  <2>1. Phase = "idle" /\ cur = 0
    BY DEF Init, Phase
  <2>2. [p \in Posts |-> Decision(p)] = [p \in Posts |-> 0]
    BY DEF Init, Decision
  <2>3. [p \in Posts |-> result[p].ret] = [p \in Posts |-> -2]
    BY DEF Init, Pending
  <2>. QED BY <2>1, <2>2, <2>3
           DEF RPC!Init, RPC!Posts, RPC!Undecided, RPC!Pending, Posts, Phase
<1>2. ASSUME IInv, [Next]_vars PROVE [RPC!Next]_RPC!vars
  <2>1. CASE \E hasBuf \in Buffers : Call(hasBuf)
    BY <1>2, <2>1, CallRefines DEF RPC!Next
  <2>2. CASE Return
    BY <1>2, <2>2, ReturnRefines DEF RPC!Next
  <2>3. CASE Select \/ PollDone \/ Freed
    <3>1. /\ Phase' = Phase /\ cur' = cur
          /\ \A p \in Posts : Decision(p)' = Decision(p) /\ result'[p].ret = result[p].ret
      BY <1>2, <2>3 DEF Select, PollDone, Freed, historyVars, Phase, Decision,
                        IInv, ControlInv
    <3>. QED BY <3>1, Stutter
  <2>4. ASSUME NEW p \in Posts, ConnStep(p) PROVE UNCHANGED RPC!vars
    <3>1. /\ Phase' = Phase /\ cur' = cur
          /\ \A q \in Posts : Decision(q)' = Decision(q) /\ result'[q].ret = result[q].ret
      BY <2>4 DEF ConnStep, Phase, Decision
    <3>. QED BY <3>1, Stutter
  <2>5. CASE \E p \in Posts : Handle(p)
    BY <1>2, <2>4, <2>5, HandleInv
  <2>6. CASE FreeConn
    BY <1>2, <2>4, <2>6, FreeConnInv
  <2>7. CASE CloseHandle
    <3>1. /\ Phase = "idle" /\ Phase' = "closed"
          /\ cur' = cur /\ srv' = srv /\ result' = result
      BY <2>7 DEF CloseHandle, Phase, historyVars
    <3>2. [p \in Posts |-> Decision(p)]' = [p \in Posts |-> Decision(p)]
      BY <3>1 DEF Decision, Posts
    <3>3. [p \in Posts |-> result[p].ret]' = [p \in Posts |-> result[p].ret]
      BY <3>1 DEF Posts
    <3>. QED BY <3>1, <3>2, <3>3 DEF RPC!Next, RPC!Close, Phase
  <2>8. CASE \E p \in Posts : Server(p)
    <3>1. PICK p \in Posts : SrvStep(p)
      BY <1>2, <2>8, ConnectionAnswerInv, AnswerInv, SendInv DEF Server
    <3>. QED BY <1>2, <3>1, SrvStepDecides
  <2>9. CASE UNCHANGED vars
    <3>1. /\ Phase' = Phase /\ cur' = cur
          /\ \A p \in Posts : Decision(p)' = Decision(p) /\ result'[p].ret = result[p].ret
      BY <2>9 DEF vars, Phase, Decision
    <3>. QED BY <3>1, Stutter
  <2>. QED BY <1>2, <2>1, <2>2, <2>3, <2>5, <2>6, <2>7, <2>8, <2>9
           DEF Next, Client, Terminated
<1>. QED BY <1>1, <1>2, Invariance, PTL DEF Spec, RPC!Spec, ImplementsRPC

-----------------------------------------------------------------------------
(* A handle holds at most two connections.                                 *)

\* The write of Serve takes at most one segment and invents none.
LEMMA UnsentStaysZero ==
  ASSUME NEW p, NEW k, NEW out \in SendOutcome(p, k), conn[p].unsent = 0
  PROVE  out.unsent = 0
  BY DEF SendOutcome

\* What handling connection p means for the window.
LEMMA ServeWindow ==
  ASSUME IInv, RequestSent, NEW p \in Live, Serve(p), ~MustClose(p)
  PROVE  /\ conn[p].unsent = 0 => conn'[p].unsent = 0
         /\ \A q \in Posts : q # p => conn'[q] = conn[q]
         /\ \/ exitFlag' = exitFlag
            \/ exitFlag' # exitFlag /\ MustClose(p)'
<1>1. /\ p \in Posts /\ conn \in [Posts -> Conn] /\ conn[p] \in Conn
      /\ ~conn[p].kill
  BY DEF Live, IInv, TypeOK, MustClose
<1>2. PICK in \in RecvOutcome(p) : \E out \in SendOutcome(p, in.kill) :
        /\ conn' = [conn EXCEPT ![p] =
                      [@ EXCEPT !.connecting = FALSE, !.unsent = out.unsent,
                                !.read = in.read, !.msgs = in.msgs,
                                !.drain = in.drain, !.kill = out.kill]]
        /\ IF in.code # 0 THEN ReplyEvent(p, in.code) ELSE NoEvent
  BY Zenon DEF Serve
<1>3. PICK out \in SendOutcome(p, in.kill) :
        conn' = [conn EXCEPT ![p] =
                   [@ EXCEPT !.connecting = FALSE, !.unsent = out.unsent,
                             !.read = in.read, !.msgs = in.msgs,
                             !.drain = in.drain, !.kill = out.kill]]
  BY <1>2
<1>4. /\ conn'[p].unsent = out.unsent /\ conn'[p].drain = in.drain
      /\ \A q \in Posts : q # p => conn'[q] = conn[q]
  BY <1>1, <1>3 DEF Conn
<1>5. conn[p].unsent = 0 => conn'[p].unsent = 0
  BY <1>3, <1>4, UnsentStaysZero
<1>6. CASE in.code = 0
  BY <1>2, <1>4, <1>5, <1>6 DEF NoEvent
<1>7. CASE in.code # 0
  <2>1. in.drain = TRUE /\ srv[p].sent > conn[p].read
    <3>1. "r" \in fd[p] /\ srv[p].sent > conn[p].read
      BY <1>7 DEF RecvOutcome
    <3>2. PICK r \in (conn[p].read + 1)..srv[p].sent : in \in Received(p, r)
      BY <3>1 DEF RecvOutcome
    <3>3. PICK m :
            in = [read |-> r, msgs |-> m,
                  drain |-> conn[p].drain \/ m > conn[p].msgs,
                  kill |-> srv[p].framing = "junk",
                  code |-> IF m > conn[p].msgs THEN srv[p].codes[m] ELSE 0]
      BY <3>2, Zenon DEF Received
    <3>4. m > conn[p].msgs
      BY <1>7, <3>3
    <3>5. in.drain = (conn[p].drain \/ m > conn[p].msgs)
      BY <3>3
    <3>6. in.drain = TRUE
      BY <3>4, <3>5, Zenon
    <3>. QED BY <3>1, <3>6
  <2>2. conn[p].unsent = 0
    <3>1. conn[p].read \in Nat /\ srv[p].sent \in Nat
      BY <1>1 DEF IInv, TypeOK, Conn, Srv
    <3>2. srv[p].codes # <<>>
      BY <1>1, <2>1, <3>1 DEF IInv, StreamInv
    <3>. QED BY <1>1, <3>2 DEF RequestSent
  <2>. QED BY <1>4, <1>5, <2>1, <2>2 DEF MustClose
<1>. QED BY <1>6, <1>7

LEMMA WindowStep ==
  ASSUME MaxReplies = 1, "early" \notin Faults,
         IInv, RequestSent, WindowInv, [Next]_vars
  PROVE  RequestSent' /\ WindowInv'
<1>0. cur \in Nat /\ \A p \in Live : p \in Posts /\ p <= cur /\ conn[p].life = "live"
  BY DEF IInv, TypeOK, ControlInv, Live, Posts
<1>1. ASSUME NEW hasBuf \in Buffers, Call(hasBuf) PROVE RequestSent' /\ WindowInv'
  <2>1. /\ pc = "idle" /\ pc' = "loop" /\ exitFlag' = 0 /\ cur' = cur + 1
        /\ ~closing /\ closing' = closing /\ cur + 1 \in Posts
    BY <1>0, <1>1, Sizes DEF Call, ConnectHttp, IInv, ControlInv, TypeOK, Posts
  <2>2. \A p \in Posts : p # cur + 1 => conn'[p] = conn[p] /\ srv'[p] = srv[p]
    BY <1>1, <2>1 DEF Call, ConnectHttp, IInv, TypeOK
  <2>3. srv[cur + 1].codes = <<>> /\ srv'[cur + 1].codes = srv[cur + 1].codes
    <3>1. /\ cur + 1 > cur /\ srv[cur + 1].net = "none"
          /\ srv \in [Posts -> Srv]
      BY <1>0, <2>1 DEF IInv, ControlInv, TypeOK
    <3>2. srv[cur + 1].codes = <<>>
      BY <2>1, <3>1 DEF IInv, StreamInv
    <3>3. srv' = srv \/ srv' = [srv EXCEPT ![cur + 1].net = "syn"]
      BY <1>1 DEF Call, ConnectHttp
    <3>4. srv'[cur + 1].codes = srv[cur + 1].codes
      BY <2>1, <3>1, <3>3 DEF Srv
    <3>. QED BY <3>2, <3>4
  <2>4. RequestSent'
    BY <2>2, <2>3 DEF RequestSent
  <2>5. \A p \in Live : p = cur /\ MustClose(p)
    BY <1>0, <2>1 DEF WindowInv, IInv, FlagInv, InProgress, Posts
  <2>6. WindowInv'
    <3>. SUFFICES ASSUME NEW p \in Live', p # cur'
                  PROVE  p = cur' - 1 /\ ~closing' /\ MustClose(p)'
      BY <2>1 DEF WindowInv
    <3>1. p \in Posts /\ p # cur + 1 /\ p \in Live
      BY <2>1, <2>2 DEF Live
    <3>. QED BY <1>0, <2>1, <2>2, <2>5, <3>1 DEF MustClose
  <2>. QED BY <2>4, <2>6
<1>2. CASE Return \/ CloseHandle \/ PollDone \/ Freed
  <2>1. /\ UNCHANGED <<cur, exitFlag, conn, todo, srv>>
        /\ \A p \in Live : p = cur
    BY <1>2 DEF Return, CloseHandle, PollDone, Freed, WindowInv, historyVars
  <2>. QED BY <2>1 DEF RequestSent, WindowInv, Live, MustClose
<1>3. CASE Select
  BY <1>3 DEF Select, historyVars, RequestSent, WindowInv, Live, MustClose
<1>4. ASSUME NEW p \in Posts, Handle(p) PROVE RequestSent' /\ WindowInv'
  <2>1. /\ p \in Live /\ todo' = todo \ {p} /\ pc = "conns"
        /\ UNCHANGED <<pc, cur, closing, srv>>
    BY <1>4 DEF Handle, Newest, IInv, ControlInv
  <2>2. ConnStep(p)
    BY <1>4, HandleInv
  <2>3. \A q \in Posts : q # p => conn'[q] = conn[q]
    BY <2>2 DEF ConnStep
  <2>4. exitFlag' # exitFlag => p = cur
    BY <2>1, <2>2, EventOfCurrent DEF ConnStep
  <2>5. /\ conn[p].unsent = 0 => conn'[p].unsent = 0
        /\ MustClose(p) => conn'[p].life = "gone"
        /\ exitFlag' # exitFlag => conn'[p].life = "gone" \/ MustClose(p)'
    <3>0. conn \in [Posts -> Conn]
      BY DEF IInv, TypeOK
    <3>1. CASE MustClose(p) /\ CloseConn(p)
      BY <3>0, <3>1 DEF CloseConn, CloseEvent, Conn
    <3>2. CASE ~MustClose(p) /\ UNCHANGED conn /\ NoEvent
      BY <3>2 DEF NoEvent
    <3>3. CASE ~MustClose(p) /\ ConnectError(p)
      BY <3>0, <3>3 DEF ConnectError, Conn, MustClose
    <3>4. CASE ~MustClose(p) /\ Serve(p)
      BY <2>1, <3>4, ServeWindow
    <3>. QED BY <1>4, <3>1, <3>2, <3>3, <3>4 DEF Handle
  <2>6. RequestSent'
    BY <2>1, <2>3, <2>5 DEF RequestSent
  <2>7. WindowInv'
    <3>1. \A q \in Posts : q # p => /\ q \in Live' <=> q \in Live
                                    /\ MustClose(q)' = MustClose(q)
      BY <2>3 DEF Live, MustClose
    <3>2. p \in Live' => /\ p = cur
                         /\ exitFlag' # 0 => MustClose(p)'
      <4>. SUFFICES ASSUME p \in Live'
                    PROVE  p = cur /\ (exitFlag' # 0 => MustClose(p)')
        OBVIOUS
      <4>1. ~MustClose(p) /\ conn'[p].life = "live"
        BY <2>5 DEF Live
      <4>2. p = cur /\ exitFlag = 0
        BY <2>1, <4>1 DEF WindowInv
      <4>. QED BY <2>5, <4>1, <4>2
    <3>3. \A q \in Live' : q \in Posts
      BY DEF Live
    <3>4. \A q \in Live' : q # p /\ q = cur /\ exitFlag' # 0 => MustClose(q)'
      BY <2>4, <3>1, <3>3 DEF WindowInv
    <3>5. \A q \in Live' : q # p /\ q # cur =>
            q = cur - 1 /\ ~closing /\ MustClose(q)' /\ q \in todo'
      BY <2>1, <3>1, <3>3 DEF WindowInv
    <3>. QED BY <2>1, <3>2, <3>4, <3>5 DEF WindowInv
  <2>. QED BY <2>6, <2>7
<1>5. CASE FreeConn
  <2>1. PICK p \in Live : CloseConn(p)
    BY <1>5 DEF FreeConn
  <2>2. UNCHANGED <<pc, cur, closing, todo, srv>> /\ closing
    BY <1>5 DEF FreeConn, IInv, ControlInv
  <2>3. /\ \A q \in Posts : q # p => conn'[q] = conn[q]
        /\ conn'[p].life = "gone" /\ conn'[p].unsent = conn[p].unsent
    BY <1>0, <2>1 DEF CloseConn, CloseEvent, IInv, TypeOK, Conn
  <2>4. exitFlag' = exitFlag
    BY <1>0, <2>1, <2>2, BufferedReply, EventOfCurrent
       DEF CloseConn, CloseEvent, NoEvent, InProgress
  <2>5. RequestSent'
    BY <2>2, <2>3 DEF RequestSent
  <2>6. \A q \in Live' : q \in Live /\ MustClose(q)' = MustClose(q)
    BY <2>3 DEF Live, MustClose
  <2>. QED BY <2>2, <2>4, <2>5, <2>6 DEF WindowInv
<1>6. ASSUME NEW p \in Posts, Server(p) PROVE RequestSent' /\ WindowInv'
  <2>1. UNCHANGED <<pc, cur, exitFlag, closing, conn, todo>>
    BY <1>6 DEF Server, Accept, Refuse, Answer, SendSegment, Finish,
                clientVars, historyVars
  <2>2. \A q \in Posts : srv'[q].codes # <<>> =>
          srv[q].codes # <<>> \/ conn[q].unsent = 0
    <3>1. CASE Answer(p)
      <4>1. conn[p].unsent = 0
        BY <3>1 DEF Answer
      <4>2. \A q \in Posts : q # p => srv'[q] = srv[q]
        BY <3>1, AnswerInv DEF SrvStep
      <4>. QED BY <4>1, <4>2
    <3>0. srv \in [Posts -> Srv]
      BY DEF IInv, TypeOK
    <3>2. CASE Accept(p)
      BY <3>0, <3>2 DEF Accept, Srv
    <3>3. CASE Refuse(p)
      BY <3>0, <3>3 DEF Refuse, Srv
    <3>4. CASE SendSegment(p)
      BY <3>0, <3>4 DEF SendSegment, Srv
    <3>5. CASE Finish(p)
      BY <3>0, <3>5 DEF Finish, Srv
    <3>. QED BY <1>6, <3>1, <3>2, <3>3, <3>4, <3>5 DEF Server
  <2>3. RequestSent'
    BY <2>1, <2>2 DEF RequestSent
  <2>. QED BY <2>1, <2>3 DEF WindowInv, Live, MustClose
<1>7. CASE UNCHANGED vars
  BY <1>7 DEF vars, RequestSent, WindowInv, Live, MustClose
<1>. QED BY <1>1, <1>2, <1>3, <1>4, <1>5, <1>6, <1>7
         DEF Next, Client, Terminated

\* If the server answers only whole requests, a connection whose post is decided
\* is one the next poll closes, and only the last of the posts before is left.
THEOREM WindowInvHolds ==
  ASSUME MaxReplies = 1, "early" \notin Faults PROVE Spec => []WindowInv
<1>1. Init => RequestSent /\ WindowInv
  BY DEF Init, RequestSent, WindowInv, Live
<1>2. IInv /\ RequestSent /\ WindowInv /\ [Next]_vars => RequestSent' /\ WindowInv'
  BY WindowStep
<1>. QED BY <1>1, <1>2, Invariance, PTL DEF Spec

\* If the server answers only whole requests, a handle never holds more than
\* two connections, the current one and the one of the post before.
THEOREM AtMostTwoOpenHolds ==
  ASSUME MaxReplies = 1, "early" \notin Faults PROVE Spec => []AtMostTwoOpen
<1>1. WindowInv => AtMostTwoOpen
  <2>. SUFFICES ASSUME WindowInv PROVE Cardinality(Live) <= 2
    BY DEF AtMostTwoOpen
  <2>1. Live \subseteq {cur} \cup {cur - 1}
    BY DEF WindowInv
  <2>2. IsFiniteSet({cur}) /\ Cardinality({cur}) = 1
    BY FS_Singleton
  <2>3. /\ IsFiniteSet({cur} \cup {cur - 1})
        /\ Cardinality({cur} \cup {cur - 1}) <= 2
    BY <2>2, FS_AddElement
  <2>4. Cardinality(Live) <= Cardinality({cur} \cup {cur - 1})
    BY <2>1, <2>3, FS_Subset
  <2>5. Cardinality(Live) \in Nat /\ Cardinality({cur} \cup {cur - 1}) \in Nat
    BY <2>1, <2>3, FS_Subset, FS_CardinalityType
  <2>. QED BY <2>3, <2>4, <2>5
<1>. QED BY <1>1, WindowInvHolds, PTL
=============================================================================
