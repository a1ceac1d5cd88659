----------------------------- MODULE CrestPost -----------------------------
(***************************************************************************)
(* One REST handle posting requests: http_post and ev_handler of           *)
(* chaos_crest.c on top of the mongoose event loop they drive.             *)
(*                                                                         *)
(* A post resets the global s_exit_flag, opens a NEW connection in the     *)
(* handle's manager and polls the manager until an event handler has       *)
(* written s_exit_flag.  The connection is not closed by the post that     *)
(* opened it: it is only marked, and closed by whichever poll comes next,  *)
(* that is by the NEXT post, or by mg_mgr_free in chaos_crest_close.  All  *)
(* the connections of the handle share one s_exit_flag and one user_data.  *)
(*                                                                         *)
(* A request is ReqSegs segments; the server's byte stream is a sequence   *)
(* of replies of ReplySegs segments each, whose first HeadSegs hold the    *)
(* status line and headers.  Any split of the stream into recv calls is    *)
(* explored.                                                               *)
(*                                                                         *)
(* An operator whose name starts with Bad is a seeded fault: the           *)
(* definition that follows it with one mistake in it.  No specification    *)
(* uses them; README.md says which property each of them breaks.           *)
(***************************************************************************)
EXTENDS Integers, Sequences, FiniteSets

CONSTANTS
  MaxPosts,    \* bound on the posts made through the handle
  ReqSegs,     \* segments of a request
  HeadSegs,    \* segments that complete the headers of a reply
  ReplySegs,   \* segments of a whole reply
  Codes,       \* HTTP status codes the server answers with
  Framings,    \* how a reply ends: "length", "close" (of the socket), "junk"
  MaxReplies,  \* replies sent on one connection: 1 for an HTTP server
  Faults,      \* what may go wrong: "refuse", "early", "silent", "nullconn"
  Buffers      \* may a caller pass rx_buffer (TRUE), NULL (FALSE)?

ASSUME PostAssumption ==
  /\ MaxPosts \in Nat
  /\ ReqSegs \in Nat \ {0}
  /\ HeadSegs \in Nat \ {0}
  /\ ReplySegs \in Nat \ {0}
  /\ HeadSegs <= ReplySegs
  /\ MaxReplies \in Nat \ {0}
  /\ Codes \subseteq 100..599       \* mg_parse_http rejects any other code
  /\ Framings \subseteq {"length", "close", "junk"}
  /\ Faults \subseteq {"refuse", "early", "silent", "nullconn"}
  /\ Buffers \subseteq BOOLEAN

Posts == 1..MaxPosts

VARIABLES
  \* the client thread
  pc,        \* "idle", "loop" (while test), "conns" (in a poll), "free", "closed"
  cur,       \* number of posts begun: connection p belongs to post p
  exitFlag,  \* s_exit_flag
  userData,  \* mgr.user_data: the post whose frame holds it, 0 for NULL
  closing,   \* chaos_crest_close was called
  conn,      \* the mg_connection of each post
  todo,      \* connections the current poll still has to handle
  fd,        \* fd_flags of each connection, as select returned them
  \* the other end
  srv,       \* the server's side of each connection
  \* history
  setter,    \* connection whose event wrote exitFlag last, 0 if none
  result,    \* what each post returned, and whose event decided it
  buffered,  \* posts that were given a receive buffer
  wild       \* posts whose reply was copied into a frame other than their own

clientVars == <<pc, cur, exitFlag, userData, closing, conn, todo, fd>>
historyVars == <<setter, result, buffered, wild>>
vars == <<pc, cur, exitFlag, userData, closing, conn, todo, fd, srv,
          setter, result, buffered, wild>>

Pending == -2          \* the result of a post that has not returned
ConnectFailed == -1    \* s_exit_flag after a failed connect

Conn == [life: {"none", "live", "gone"},
         connecting: BOOLEAN,    \* MG_F_CONNECTING
         drain: BOOLEAN,         \* MG_F_SEND_AND_CLOSE
         kill: BOOLEAN,          \* MG_F_CLOSE_IMMEDIATELY
         unsent: Nat,            \* segments in send_mbuf
         read: Nat,              \* segments received so far
         msgs: Nat]              \* whole replies consumed from recv_mbuf

Srv == [net: {"none", "syn", "open", "refused"},
        codes: Seq(Codes),       \* status codes of the replies it sends
        framing: Framings \cup {"none"},
        sent: Nat,               \* segments of its stream sent so far
        fin: BOOLEAN]            \* it has closed its end

Live == {p \in Posts : conn[p].life = "live"}

\* The connection list is newest first (mg_add_conn inserts at the head).
Newest(p, S) == p \in S /\ \A q \in S : q <= p

-----------------------------------------------------------------------------
Init ==
  /\ pc = "idle"
  /\ cur = 0
  /\ exitFlag = 0
  /\ userData = 0
  /\ closing = FALSE
  /\ conn = [p \in Posts |-> [life |-> "none", connecting |-> FALSE,
                              drain |-> FALSE, kill |-> FALSE,
                              unsent |-> 0, read |-> 0, msgs |-> 0]]
  /\ todo = {}
  /\ fd = [p \in Posts |-> {}]
  /\ srv = [p \in Posts |-> [net |-> "none", codes |-> <<>>,
                             framing |-> "none", sent |-> 0, fin |-> FALSE]]
  /\ setter = 0
  /\ result = [p \in Posts |-> [ret |-> Pending, from |-> 0]]
  /\ buffered = {} /\ wild = {}

-----------------------------------------------------------------------------
(* The post: entry, while loop, return.                                    *)

\* mg_connect_http: a connection at the head of the list, with the request in
\* its send buffer and the connect under way.  It returns NULL for a URL it
\* cannot parse, if it cannot start a DNS lookup, and without memory.
ConnectHttp(p) ==
  \/ /\ conn' = [conn EXCEPT ![p] =
                  [@ EXCEPT !.life = "live", !.connecting = TRUE,
                            !.unsent = ReqSegs]]
     /\ srv' = [srv EXCEPT ![p].net = "syn"]
  \/ "nullconn" \in Faults /\ UNCHANGED <<conn, srv>>

\* http_post up to its loop; the result of mg_connect_http is not looked at.
Call(hasBuf) ==
  /\ pc = "idle" /\ ~closing /\ cur < MaxPosts
  /\ pc' = "loop"
  /\ cur' = cur + 1
  /\ exitFlag' = 0
  /\ setter' = 0
  /\ userData' = IF hasBuf THEN cur + 1 ELSE userData
  /\ buffered' = IF hasBuf THEN buffered \cup {cur + 1} ELSE buffered
  /\ ConnectHttp(cur + 1)
  /\ UNCHANGED <<closing, todo, fd, result, wild>>

\* Seeded fault: the HTTP status is returned as it is.
BadReturnStatus ==
  /\ pc = "loop" /\ ~closing /\ exitFlag # 0
  /\ pc' = "idle"
  /\ result' = [result EXCEPT ![cur] = [ret |-> exitFlag, from |-> setter]]
  /\ UNCHANGED <<cur, exitFlag, userData, closing, conn, todo, fd, srv,
                 setter, buffered, wild>>

\* s_exit_flag is tested between two polls only.
Return ==
  /\ pc = "loop" /\ ~closing /\ exitFlag # 0
  /\ pc' = "idle"
  /\ result' = [result EXCEPT ![cur] =
                  [ret |-> IF exitFlag = 200 THEN 0 ELSE exitFlag,
                   from |-> setter]]
  /\ UNCHANGED <<cur, exitFlag, userData, closing, conn, todo, fd, srv,
                 setter, buffered, wild>>

\* What select reports of connection p.
Ready(p) ==
  LET readable == \/ srv[p].net = "refused"
                  \/ srv[p].net = "open"
                     /\ (srv[p].sent > conn[p].read \/ srv[p].fin)
      writable == IF conn[p].connecting THEN srv[p].net \in {"open", "refused"}
                                        ELSE conn[p].unsent > 0
  IN  {f \in {"r", "w"} : (f = "r" /\ readable) \/ (f = "w" /\ writable)}

\* mg_mgr_poll: the select, then the list is walked connection by connection.
Select ==
  /\ pc = "loop" /\ (closing \/ exitFlag = 0)
  /\ pc' = "conns"
  /\ todo' = Live
  /\ fd' = [p \in Posts |-> IF p \in Live THEN Ready(p) ELSE {}]
  /\ UNCHANGED <<cur, exitFlag, userData, closing, conn, srv>>
  /\ UNCHANGED historyVars

PollDone ==
  /\ pc = "conns" /\ todo = {}
  /\ pc' = IF closing THEN "free" ELSE "loop"
  /\ UNCHANGED <<cur, exitFlag, userData, closing, conn, todo, fd, srv>>
  /\ UNCHANGED historyVars

-----------------------------------------------------------------------------
(* Events: ev_handler, called from mongoose while it handles connection p. *)

\* user_data is a local variable of the call that is running.
FrameAlive == userData = cur /\ ~closing

\* MG_EV_HTTP_REPLY: the body is copied through user_data, if that is not NULL,
\* and the flag is set.
ReplyEvent(p, code) ==
  /\ exitFlag' = code
  /\ setter' = p
  /\ wild' = IF userData # 0 /\ ~(userData = p /\ FrameAlive)
               THEN wild \cup {p} ELSE wild

NoEvent == UNCHANGED <<exitFlag, setter, wild>>

\* The recv buffer of p starts with the complete headers of a reply.
HeadersBuffered(p) ==
  /\ srv[p].framing \in {"length", "close"}
  /\ conn[p].read - conn[p].msgs * ReplySegs >= HeadSegs

\* Seeded fault: the connection is not taken out of the list.
BadCloseKeeps(p) == UNCHANGED conn /\ NoEvent

\* MG_EV_CLOSE: a reply whose headers are in the buffer is delivered as it is,
\* complete or not; ev_handler ignores the event itself.
CloseEvent(p) ==
  IF HeadersBuffered(p)
    THEN ReplyEvent(p, srv[p].codes[conn[p].msgs + 1])
    ELSE NoEvent

\* mg_close_conn: the connection leaves the list.
CloseConn(p) ==
  /\ conn' = [conn EXCEPT ![p].life = "gone"]
  /\ CloseEvent(p)

MustClose(p) == conn[p].kill \/ (conn[p].drain /\ conn[p].unsent = 0)

\* Seeded fault: no flag is set.
BadConnectSilent(p) ==
  /\ conn' = [conn EXCEPT ![p] = [@ EXCEPT !.connecting = FALSE, !.kill = TRUE]]
  /\ NoEvent

\* mg_if_connect_cb with an error: neither recv nor send follow, since both
\* refuse a connection that is to be closed immediately.
ConnectError(p) ==
  /\ conn' = [conn EXCEPT ![p] = [@ EXCEPT !.connecting = FALSE, !.kill = TRUE]]
  /\ exitFlag' = ConnectFailed
  /\ setter' = p
  /\ UNCHANGED wild

\* Seeded faults: a delivered reply stays in the buffer; MG_F_SEND_AND_CLOSE is
\* not set when a reply is delivered.
BadReceivedKept(p, r) ==
  LET whole == srv[p].framing = "length" /\ r = ReplySegs
  IN  {[read |-> r, msgs |-> 0, drain |-> conn[p].drain \/ whole,
        kill |-> srv[p].framing = "junk",
        code |-> IF whole THEN srv[p].codes[1] ELSE 0]}

BadReceivedNoDrain(p, r) ==
  LET whole == srv[p].framing = "length" /\ r = ReplySegs
  IN  {[read |-> r, msgs |-> IF whole THEN 1 ELSE 0, drain |-> conn[p].drain,
        kill |-> srv[p].framing = "junk",
        code |-> IF whole THEN srv[p].codes[1] ELSE 0]}

\* The effect of reading up to stream position r: the counters and flags, and
\* the code of the last reply delivered (0 if none).  Whole replies are
\* delivered one after the other and removed from the buffer (goto again).
Received(p, r) ==
  LET n == Len(srv[p].codes)
      whole == {m \in 0..n : /\ m * ReplySegs <= r
                             /\ m < n => r < (m + 1) * ReplySegs}
  IN  {[read |-> r, msgs |-> m,
        drain |-> conn[p].drain \/ m > conn[p].msgs,
        kill |-> srv[p].framing = "junk",
        code |-> IF m > conn[p].msgs THEN srv[p].codes[m] ELSE 0] :
       m \in IF srv[p].framing = "length" THEN whole ELSE {conn[p].msgs}}

\* mg_do_recv: some of what is on the wire, or the end of the stream, which
\* only marks the connection, or (error) a reset after the peer's close.
RecvOutcome(p) ==
  LET same == [read |-> conn[p].read, msgs |-> conn[p].msgs,
               drain |-> conn[p].drain, kill |-> FALSE, code |-> 0]
  IN  IF "r" \notin fd[p] THEN {same}
      ELSE IF srv[p].sent > conn[p].read
        THEN UNION {Received(p, r) : r \in (conn[p].read + 1)..srv[p].sent}
        ELSE {[same EXCEPT !.drain = TRUE], [same EXCEPT !.kill = TRUE]}

\* mg_if_can_send_cb: one write; it may fail once the peer has closed.
SendOutcome(p, killed) ==
  LET same == [unsent |-> conn[p].unsent, kill |-> killed]
  IN  IF "w" \notin fd[p] \/ killed \/ conn[p].unsent = 0 THEN {same}
      ELSE {[same EXCEPT !.unsent = @ - 1]} \cup
           (IF srv[p].fin THEN {[same EXCEPT !.kill = TRUE]} ELSE {})

\* mg_mgr_handle_conn on an established connection, or one whose connect
\* has just succeeded: first the read, then the write.
Serve(p) ==
  \E in \in RecvOutcome(p) : \E out \in SendOutcome(p, in.kill) :
    /\ conn' = [conn EXCEPT ![p] =
                 [@ EXCEPT !.connecting = FALSE, !.unsent = out.unsent,
                           !.read = in.read, !.msgs = in.msgs,
                           !.drain = in.drain, !.kill = out.kill]]
    /\ IF in.code # 0 THEN ReplyEvent(p, in.code) ELSE NoEvent

\* One connection of the list, in list order.
Handle(p) ==
  /\ pc = "conns" /\ Newest(p, todo)
  /\ todo' = todo \ {p}
  /\ \/ MustClose(p) /\ CloseConn(p)
     \/ /\ ~MustClose(p) /\ conn[p].connecting /\ fd[p] = {}
        /\ UNCHANGED conn /\ NoEvent
     \/ /\ ~MustClose(p) /\ conn[p].connecting /\ fd[p] # {}
        /\ srv[p].net = "refused" /\ ConnectError(p)
     \/ /\ ~MustClose(p)
        /\ conn[p].connecting => fd[p] # {} /\ srv[p].net = "open"
        /\ Serve(p)
  /\ UNCHANGED <<pc, cur, userData, closing, fd, srv, result, buffered>>

-----------------------------------------------------------------------------
(* chaos_crest_close: mg_mgr_free polls once more, then closes what is     *)
(* left, newest first.                                                     *)

CloseHandle ==
  /\ pc = "idle" /\ ~closing
  /\ closing' = TRUE
  /\ pc' = "loop"
  /\ UNCHANGED <<cur, exitFlag, userData, conn, todo, fd, srv>>
  /\ UNCHANGED historyVars

FreeConn ==
  /\ pc = "free"
  /\ \E p \in Live : Newest(p, Live) /\ CloseConn(p)
  /\ UNCHANGED <<pc, cur, userData, closing, todo, fd, srv, result, buffered>>

Freed ==
  /\ pc = "free" /\ Live = {}
  /\ pc' = "closed"
  /\ UNCHANGED <<cur, exitFlag, userData, closing, conn, todo, fd, srv>>
  /\ UNCHANGED historyVars

-----------------------------------------------------------------------------
(* The server, one step per connection.  Only as far as http_post depends  *)
(* on it: whether it accepts, what it answers, and when it closes.         *)

Accept(p) ==
  /\ srv[p].net = "syn"
  /\ srv' = [srv EXCEPT ![p].net = "open"]
  /\ UNCHANGED clientVars /\ UNCHANGED historyVars

Refuse(p) ==
  /\ srv[p].net = "syn" /\ "refuse" \in Faults
  /\ srv' = [srv EXCEPT ![p].net = "refused"]
  /\ UNCHANGED clientVars /\ UNCHANGED historyVars

\* The server takes the request and decides its answer: a status code, and
\* more of them on the same stream if MaxReplies allows it.
Answer(p) ==
  /\ srv[p].net = "open" /\ ~srv[p].fin /\ srv[p].codes = <<>>
  /\ conn[p].life = "live"
  /\ (conn[p].unsent = 0 /\ ~conn[p].connecting) \/ "early" \in Faults
  /\ \E n \in 1..MaxReplies : \E codes \in [1..n -> Codes] :
       \E framing \in Framings :
         /\ framing = "length" \/ n = 1
         /\ srv' = [srv EXCEPT ![p] =
                        [@ EXCEPT !.codes = codes, !.framing = framing]]
  /\ UNCHANGED clientVars /\ UNCHANGED historyVars

SendSegment(p) ==
  /\ srv[p].codes # <<>> /\ ~srv[p].fin
  /\ srv[p].sent < Len(srv[p].codes) * ReplySegs
  /\ srv' = [srv EXCEPT ![p].sent = @ + 1]
  /\ UNCHANGED clientVars /\ UNCHANGED historyVars

\* The server closes its end after its last reply; a "silent" one (crash,
\* restart, idle timeout) at any time.
Finish(p) ==
  /\ srv[p].net = "open" /\ ~srv[p].fin
  /\ \/ /\ srv[p].codes # <<>>
        /\ srv[p].sent = Len(srv[p].codes) * ReplySegs
     \/ "silent" \in Faults
  /\ srv' = [srv EXCEPT ![p].fin = TRUE]
  /\ UNCHANGED clientVars /\ UNCHANGED historyVars

Terminated == pc = "closed" /\ UNCHANGED vars

-----------------------------------------------------------------------------
Client ==
  \/ \E hasBuf \in Buffers : Call(hasBuf)
  \/ Return \/ Select \/ PollDone
  \/ \E p \in Posts : Handle(p)
  \/ CloseHandle \/ FreeConn \/ Freed

Server(p) == Accept(p) \/ Refuse(p) \/ Answer(p) \/ SendSegment(p) \/ Finish(p)

Next == Client \/ (\E p \in Posts : Server(p)) \/ Terminated

Spec == Init /\ [][Next]_vars

\* The thread inside http_post or chaos_crest_close keeps running; the caller
\* is free to make no further call.  The server takes every connection up,
\* answers it, sends its answer and closes.
Running ==
  \/ Return \/ Select \/ PollDone \/ FreeConn \/ Freed
  \/ \E p \in Posts : Handle(p)

ServerFairness ==
  \A p \in Posts : /\ WF_vars(Accept(p) \/ Refuse(p)) /\ WF_vars(Answer(p))
                   /\ WF_vars(SendSegment(p)) /\ WF_vars(Finish(p))

FairSpec == Spec /\ WF_vars(Running) /\ ServerFairness
-----------------------------------------------------------------------------
(* Properties.                                                             *)

TypeOK ==
  /\ pc \in {"idle", "loop", "conns", "free", "closed"}
  /\ cur \in 0..MaxPosts
  /\ exitFlag \in {0, ConnectFailed} \cup Codes
  /\ userData \in 0..MaxPosts
  /\ closing \in BOOLEAN
  /\ conn \in [Posts -> Conn]
  /\ todo \subseteq Posts
  /\ fd \in [Posts -> SUBSET {"r", "w"}]
  /\ srv \in [Posts -> Srv]
  /\ setter \in 0..MaxPosts
  /\ result \in [Posts -> [ret: {0, Pending, ConnectFailed} \cup Codes,
                           from: 0..MaxPosts]]
  /\ buffered \subseteq Posts /\ wild \subseteq Posts

\* What the other end decided about post p: the status it answered, or that
\* it takes no connection.
Decision(p) ==
  IF srv[p].net = "refused" THEN ConnectFailed
  ELSE IF srv[p].codes # <<>> THEN srv[p].codes[1] ELSE 0

Returned(p) == result[p].ret # Pending

\* A post returns what was decided about its OWN request.  s_exit_flag is one
\* variable for all the connections of a handle, and connections of earlier
\* posts are still served and closed while a later post is waiting.
OwnResult ==
  \A p \in Posts : Returned(p) =>
    /\ result[p].from = p
    /\ result[p].ret = IF Decision(p) = 200 THEN 0 ELSE Decision(p)
    /\ Decision(p) # 0

\* The reply of a post that was called with a receive buffer is copied into that
\* buffer or nowhere: never into the frame of a post that has returned, to which
\* mgr.user_data is left pointing, and never to a later post that waits for its
\* own reply.  NoWildWrite says it of posts without a buffer too.
OwnBuffer == buffered \cap wild = {}

\* The reply of every post goes to the buffer of its own caller: false, since a post
\* without one (rx_buffer NULL) leaves mgr.user_data as an earlier post has left it,
\* and its reply is copied through the frame of that post.
NoWildWrite == wild = {}

\* Between the poll that decides a post and the test of the while loop, other
\* connections of the list are handled; none of them overwrites the result.
FirstEventWins ==
  [][exitFlag # 0 => (exitFlag' = exitFlag \/ \E b \in Buffers : Call(b))]_vars

\* Although a post does not close its connection, the next one does: a handle
\* never holds more than two connections.
AtMostTwoOpen == Cardinality(Live) <= 2

\* http_post returns (chaos_crest.h: "int zero if success").
PostReturns == (pc = "loop" /\ ~closing) ~> (pc = "idle")

\* chaos_crest_close returns.
HandleCloses == closing ~> (pc = "closed")

\* The calls as the rest of chaos_crest.c sees them.
RPC == INSTANCE PostRPC WITH
  phase <- IF closing THEN "closed" ELSE IF pc = "idle" THEN "idle" ELSE "calling",
  answer <- [p \in Posts |-> Decision(p)],
  result <- [p \in Posts |-> result[p].ret]

\* Each call returns the decision taken for it, and each is decided once.
ImplementsRPC == RPC!Spec

-----------------------------------------------------------------------------
(* The inductive invariant behind OwnResult, for a server that sends one   *)
(* reply per connection.                                                   *)

\* The post whose caller is still waiting.
InProgress(p) == p = cur /\ pc \in {"loop", "conns"} /\ ~closing

\* No event can come from connection p any more: its only reply has been taken
\* out of the buffer, or it was refused and is closed before it is read again.
Spent(p) ==
  \/ conn[p].msgs = 1
  \/ srv[p].net = "refused" /\ conn[p].kill

\* One reply per connection, on an open connection, of a post already begun.
StreamInv ==
  \A p \in Posts :
    /\ srv[p].codes = <<>> => srv[p].sent = 0 /\ srv[p].framing = "none"
    /\ srv[p].codes # <<>> => /\ Len(srv[p].codes) = 1
                              /\ srv[p].net = "open"
                              /\ srv[p].framing \in Framings
    /\ srv[p].sent <= ReplySegs
    /\ conn[p].read <= srv[p].sent
    /\ conn[p].msgs = IF srv[p].framing = "length" /\ conn[p].read = ReplySegs
                        THEN 1 ELSE 0

\* Where the client thread can be; connections of posts not begun are unused.
ControlInv ==
  /\ pc = "idle" => ~closing
  /\ pc \in {"free", "closed"} => closing
  /\ todo \subseteq Live
  /\ pc # "conns" => todo = {}
  /\ \A p \in Posts : p > cur => conn[p].life = "none" /\ srv[p].net = "none"

\* s_exit_flag speaks of the current post.
FlagInv ==
  /\ exitFlag # 0 => cur > 0 /\ setter = cur /\ exitFlag = Decision(cur)
  /\ cur > 0 /\ ~InProgress(cur) => exitFlag # 0

\* Every post but the one in progress has been decided, and its connection, if
\* it is still in the list, is spent.  The same holds of the current post as
\* soon as s_exit_flag is set.
OldPostsSpent ==
  \A p \in 1..cur : ~InProgress(p) \/ exitFlag # 0 =>
    /\ Decision(p) # 0
    /\ conn[p].life = "live" => Spent(p)

ResultInv ==
  \A p \in Posts : Returned(p) <=> (p <= cur /\ ~InProgress(p))

IInv ==
  TypeOK /\ StreamInv /\ ControlInv /\ FlagInv /\ OldPostsSpent /\ ResultInv
         /\ OwnResult

\* Why at most two connections are open, if the server answers only whole
\* requests: the first poll of a post closes the connection of the post before.
RequestSent ==
  \A p \in Posts : srv[p].codes # <<>> => conn[p].unsent = 0

WindowInv ==
  \A p \in Live :
    /\ p = cur /\ exitFlag # 0 => MustClose(p)
    /\ p # cur => /\ p = cur - 1 /\ ~closing /\ MustClose(p)
                  /\ \/ pc = "loop" /\ exitFlag = 0
                     \/ pc = "conns" /\ p \in todo
=============================================================================
