----------------------------- MODULE NamedPost -----------------------------
(***************************************************************************)
(* One http_post to a server that is given by name and answers in chunks:  *)
(* mg_connect_opt looks the name up through a UDP connection of the same   *)
(* manager, resolve_cb connects, and mg_http_handler puts the body         *)
(* together as it arrives.  CrestPost has the rest: several posts on one   *)
(* handle and replies of other framings.                                   *)
(*                                                                         *)
(* The connection of the post is in the manager's list only from the       *)
(* answer of the lookup on, and then ahead of the lookup's.                *)
(***************************************************************************)
EXTENDS ChunkedBody

CONSTANTS
  MaxRetries,  \* req->max_retries: two
  Bodies,      \* what the server may answer: chunks, each with its size in digits
  Codes,       \* status codes it may answer with
  MaxInbox,    \* bound: datagrams in the socket of the lookup
  Faults       \* "lose", "duplicate", "unsendable", "refuse", "cut"

Tokens == Digits \cup {Newline, "a", "b"}

\* A chunk that is not the last has data, and its size is written in digits that
\* say so; zeros in front of them are allowed.
Chunk == {c \in [size: Seq(Digits), data: Seq(Tokens)] :
            /\ Len(c.size) \in 1..MaxDigits
            /\ Len(c.data) > 0 /\ SizeOf(c.size, 0, Len(c.size)) = Len(c.data)}

ASSUME NamedAssumption ==
  /\ MaxRetries \in Nat \ {0} /\ MaxInbox \in Nat
  /\ <<>> \in Bodies /\ Bodies \subseteq Seq(Chunk)
  /\ Codes \subseteq 100..599
  /\ Faults \subseteq {"lose", "duplicate", "unsendable", "refuse", "cut"}

VARIABLES
  pc,       \* "idle", "loop", "poll", "back": http_post has returned
  flag,     \* s_exit_flag
  todo,     \* connections the current poll has still to handle
  fd,       \* what select reported of each
  dns,      \* the connection of the lookup
  due,      \* req->timeout seconds have passed since the last query
  wire,     \* queries on their way or with the name server
  inbox,    \* datagrams that wait in the socket of the lookup
  conn,     \* the connection of the post
  srv,      \* the server's side of it
  body,     \* what was copied to the caller's buffer
  result,   \* what http_post returned
  asked,    \* history: datagrams the lookup has sent
  calls     \* history: how often resolve_cb has run

lookupVars == <<dns, due, wire, inbox, asked, calls>>
vars == <<pc, flag, todo, fd, lookupVars, conn, srv, body, result>>

Pending == -2
ConnectFailed == -1

\* Datagrams: with an address, with answers of other types only, with none.
Datagrams == {"address", "other", "none"}

Dns == [life: {"none", "connecting", "open", "killed", "closed"},
        queued: Nat,           \* queries in send_mbuf
        retries: Nat,          \* req->retries
        req: BOOLEAN]          \* user_data still holds the request

Conn == [life: {"none", "resolving", "connecting", "open", "killed", "gone"},
         drain: BOOLEAN,       \* MG_F_SEND_AND_CLOSE
         unsent: BOOLEAN,      \* the request is in send_mbuf
         read: Nat,            \* tokens received, the headers being the first
         buf: Seq(Tokens),     \* recv_mbuf behind the headers
         bodyLen: Nat]         \* pd->chunk.body_len

Srv == [net: {"none", "syn", "open", "refused"},
        code: {0} \cup Codes,
        chunks: Bodies,
        sent: Nat, fin: BOOLEAN]

Init ==
  /\ pc = "idle" /\ flag = 0 /\ todo = {} /\ fd = [c \in {"conn", "dns"} |-> {}]
  /\ dns = [life |-> "none", queued |-> 0, retries |-> 0, req |-> FALSE]
  /\ due = FALSE /\ wire = 0 /\ inbox = <<>>
  /\ conn = [life |-> "none", drain |-> FALSE, unsent |-> FALSE, read |-> 0,
             buf |-> <<>>, bodyLen |-> 0]
  /\ srv = [net |-> "none", code |-> 0, chunks |-> <<>>, sent |-> 0, fin |-> FALSE]
  /\ body = <<>> /\ result = Pending /\ asked = 0 /\ calls = 0

-----------------------------------------------------------------------------
(* What the server sends.                                                  *)

Wire(c) == c.size \o <<Newline>> \o c.data \o <<Newline>>

\* The first k chunks of each body on the wire, and put together.
Encoded == [chunks \in Bodies |->
  LET f[k \in 0..Len(chunks)] == IF k = 0 THEN <<>> ELSE f[k - 1] \o Wire(chunks[k])
  IN  f]

Payload == [chunks \in Bodies |->
  LET f[k \in 0..Len(chunks)] == IF k = 0 THEN <<>> ELSE f[k - 1] \o chunks[k].data
  IN  f]

\* The reply behind its headers.
Streams == [chunks \in Bodies |->
  Encoded[chunks][Len(chunks)] \o <<"0", Newline, Newline>>]
Stream == Streams[srv.chunks]

-----------------------------------------------------------------------------
(* http_post.                                                              *)

Call ==
  /\ pc = "idle"
  /\ pc' = "loop"
  /\ conn' = [conn EXCEPT !.life = "resolving", !.unsent = TRUE]
  /\ dns' = [dns EXCEPT !.life = "connecting", !.req = TRUE]
  /\ UNCHANGED <<flag, todo, fd, due, wire, inbox, srv, body, result, asked, calls>>

Listed == {c \in {"conn", "dns"} :
             \/ c = "conn" /\ conn.life \in {"connecting", "open", "killed"}
             \/ c = "dns" /\ dns.life \in {"connecting", "open", "killed"}}

Ready(c) ==
  IF c = "dns"
    THEN {f \in {"r", "w"} : \/ f = "r" /\ inbox # <<>>
                             \/ f = "w" /\ (dns.life = "connecting" \/ dns.queued > 0)}
    ELSE {f \in {"r", "w"} :
            \/ f = "r" /\ (\/ srv.net = "refused"
                           \/ srv.net = "open" /\ (srv.sent > conn.read \/ srv.fin))
            \/ f = "w" /\ IF conn.life = "connecting" THEN srv.net \in {"open", "refused"}
                                                      ELSE conn.unsent}

Select ==
  /\ pc = "loop" /\ flag = 0
  /\ pc' = "poll" /\ todo' = Listed
  /\ fd' = [c \in {"conn", "dns"} |-> IF c \in Listed THEN Ready(c) ELSE {}]
  /\ UNCHANGED <<flag, lookupVars, conn, srv, body, result>>

PollDone ==
  /\ pc = "poll" /\ todo = {}
  /\ pc' = "loop"
  /\ UNCHANGED <<flag, todo, fd, lookupVars, conn, srv, body, result>>

Return ==
  /\ pc = "loop" /\ flag # 0
  /\ pc' = "back"
  /\ result' = IF flag = 200 THEN 0 ELSE flag
  /\ UNCHANGED <<flag, todo, fd, lookupVars, conn, srv, body>>

-----------------------------------------------------------------------------
(* The lookup: mg_resolve_async_eh and resolve_cb.                         *)

\* Seeded fault: a failed lookup hands on the number of its error.
BadResolveFailed ==
  /\ calls' = calls + 1 /\ flag' = 3
  /\ conn' = [conn EXCEPT !.life = "gone"]
  /\ UNCHANGED srv

\* resolve_cb without an address: the event of a failed connect, and the
\* connection is destroyed.
ResolveFailed ==
  /\ calls' = calls + 1 /\ flag' = ConnectFailed
  /\ conn' = [conn EXCEPT !.life = "gone"]
  /\ UNCHANGED srv

\* With one: the connect is begun, and the connection joins the list.
ResolveTo ==
  /\ calls' = calls + 1 /\ UNCHANGED flag
  /\ conn' = [conn EXCEPT !.life = "connecting"]
  /\ srv' = [srv EXCEPT !.net = "syn"]

Unresolved == UNCHANGED <<calls, flag, conn, srv>>

\* A query, unless there has been one that may still be answered.
Ask(d) == IF d.retries = 0 \/ due
            THEN [d EXCEPT !.queued = @ + 1, !.retries = @ + 1] ELSE d

\* Seeded fault: the retries are counted from zero.
BadPolled(d) ==
  IF d.retries > MaxRetries + 1 THEN [d EXCEPT !.life = "killed"]
  ELSE IF d.life = "connecting" THEN d ELSE Ask(d)

\* MG_EV_POLL: give up, or ask again once the timeout has passed.
Polled(d) ==
  IF d.retries > MaxRetries THEN [d EXCEPT !.life = "killed"]
  ELSE IF d.life = "connecting" THEN d ELSE Ask(d)

\* MG_EV_CONNECT, at once for UDP.
Connected(d) == IF d.life = "connecting" THEN [Ask(d) EXCEPT !.life = "open"] ELSE d

\* Seeded fault: the request is still the connection's after its answer.
BadAnswered(d, g) ==
  /\ IF g = "none" THEN Unresolved
     ELSE IF g = "address" THEN ResolveTo ELSE ResolveFailed
  /\ dns' = [d EXCEPT !.life = "killed"]

\* MG_EV_RECV: the first datagram ends the lookup, whatever is in it.  Without
\* any answer the callback waits for the close.
Answered(d, g) ==
  /\ IF g = "none" THEN Unresolved
     ELSE IF g = "address" THEN ResolveTo ELSE ResolveFailed
  /\ dns' = [d EXCEPT !.life = "killed", !.req = (g = "none")]

\* mg_if_can_send_cb, if select said so: a datagram of all that is queued; an
\* error is not one of the connection, the buffer is emptied all the same.
Sent(d) ==
  IF "w" \in fd["dns"] /\ d.queued > 0
    THEN /\ dns' = [d EXCEPT !.queued = 0]
         /\ \/ asked' = asked + 1 /\ wire' = wire + 1
            \/ "unsendable" \in Faults /\ UNCHANGED <<asked, wire>>
    ELSE dns' = d /\ UNCHANGED <<asked, wire>>

\* The socket is closed, with what is still to come to it.
DestroyDns ==
  /\ dns' = [life |-> "closed", queued |-> 0, retries |-> 0, req |-> FALSE]
  /\ due' = FALSE /\ wire' = 0 /\ inbox' = <<>>
  /\ UNCHANGED asked

\* Seeded fault: MG_EV_CLOSE does not report a lookup that is still open.
BadDnsClosed == DestroyDns /\ Unresolved

\* MG_EV_CLOSE.
DnsClosed == DestroyDns /\ IF dns.req THEN ResolveFailed ELSE Unresolved

\* Poll, connect, read, write; nothing follows once the connection is killed.
DnsServed ==
  LET d == Connected(Polled(dns))
  IN  /\ due' = (due /\ d.retries = dns.retries)
      /\ \/ /\ d.life = "killed"
            /\ dns' = d /\ Unresolved /\ UNCHANGED <<wire, inbox, asked>>
         \/ /\ d.life # "killed" /\ "r" \in fd["dns"]
            /\ Answered(d, Head(inbox)) /\ inbox' = Tail(inbox)
            /\ UNCHANGED <<wire, asked>>
         \/ /\ d.life # "killed" /\ "r" \notin fd["dns"]
            /\ Sent(d) /\ Unresolved /\ UNCHANGED inbox

\* mg_mgr_handle_conn for the connection of the lookup, the last of the list.
HandleDns ==
  /\ pc = "poll" /\ todo = {"dns"}
  /\ todo' = {}
  /\ IF dns.life = "killed" THEN DnsClosed ELSE DnsServed
  /\ UNCHANGED <<pc, fd, body, result>>

-----------------------------------------------------------------------------
(* The connection of the post: mg_http_handler and ev_handler.             *)

\* MG_EV_HTTP_REPLY.
Reply(tokens) == body' = tokens /\ flag' = srv.code

NoReply == UNCHANGED <<body, flag>>

\* mg_close_conn: a reply whose headers have arrived is delivered with what is
\* behind them.
CloseConn ==
  /\ conn' = [conn EXCEPT !.life = "gone"]
  /\ IF conn.read > 0 /\ flag = 0 THEN Reply(conn.buf) ELSE NoReply

\* The receive buffer after n more tokens, the headers being the first.
Appended(n) ==
  conn.buf \o SubSeq(Stream, conn.read + IF conn.read = 0 THEN 1 ELSE 0, conn.read + n - 1)

\* mg_if_can_send_cb: the request; the write may fail once the peer has closed.
Written(c) ==
  IF "w" \notin fd["conn"] \/ c.life = "killed" \/ ~c.unsent THEN {c}
  ELSE {[c EXCEPT !.unsent = FALSE]} \cup
       (IF srv.fin THEN {[c EXCEPT !.life = "killed"]} ELSE {})

\* MG_EV_RECV: the empty chunk completes the reply, which is delivered and removed.
Received(c, n, h) ==
  IF h.last
    THEN /\ Reply(h.buf)
         /\ conn' \in Written([c EXCEPT !.read = @ + n, !.buf = <<>>, !.bodyLen = 0,
                                        !.drain = TRUE])
    ELSE /\ NoReply
         /\ conn' \in Written([c EXCEPT !.read = @ + n, !.buf = h.buf,
                                        !.bodyLen = h.bodyLen])

\* A read and a write, as select allows: some of what has arrived, or the end of
\* the stream, or an error.
Serve(c) ==
  \/ "r" \notin fd["conn"] /\ conn' \in Written(c) /\ NoReply
  \/ /\ "r" \in fd["conn"] /\ srv.sent > conn.read
     /\ \E n \in 1..(srv.sent - conn.read) : \E buf \in {Appended(n)} :
          \E h \in {HandleChunked(buf, conn.bodyLen)} : Received(c, n, h)
  \/ /\ "r" \in fd["conn"] /\ srv.sent = conn.read
     /\ \/ conn' \in Written([c EXCEPT !.drain = TRUE])
        \/ conn' = [c EXCEPT !.life = "killed"]
     /\ NoReply

MustClose == conn.life = "killed" \/ (conn.drain /\ ~conn.unsent)

HandleConn ==
  /\ pc = "poll" /\ "conn" \in todo
  /\ todo' = todo \ {"conn"}
  /\ \/ MustClose /\ CloseConn
     \/ /\ ~MustClose /\ conn.life = "connecting" /\ fd["conn"] = {}
        /\ UNCHANGED conn /\ NoReply
     \/ /\ ~MustClose /\ conn.life = "connecting" /\ fd["conn"] # {}
        /\ srv.net = "refused"
        /\ conn' = [conn EXCEPT !.life = "killed"]
        /\ flag' = ConnectFailed /\ UNCHANGED body
     \/ /\ ~MustClose
        /\ conn.life = "connecting" => fd["conn"] # {} /\ srv.net = "open"
        /\ Serve([conn EXCEPT !.life = "open"])
  /\ UNCHANGED <<pc, fd, lookupVars, srv, result>>

-----------------------------------------------------------------------------
(* The rest of the world.                                                  *)

clientVars == <<pc, flag, todo, fd, dns, conn, body, result, asked, calls>>

\* The seconds of req->timeout pass.
Timeout ==
  /\ dns.life = "open" /\ dns.retries > 0 /\ ~due
  /\ due' = TRUE
  /\ UNCHANGED <<clientVars, wire, inbox, srv>>

\* The name server answers a query; the network may double the datagram.
NameServer(g) ==
  /\ dns.life = "open" /\ wire > 0 /\ Len(inbox) < MaxInbox
  /\ inbox' = Append(inbox, g)
  /\ wire' = wire - 1 \/ ("duplicate" \in Faults /\ wire' = wire)
  /\ UNCHANGED <<clientVars, due, srv>>

Lose ==
  /\ "lose" \in Faults /\ dns.life = "open" /\ wire > 0
  /\ wire' = wire - 1
  /\ UNCHANGED <<clientVars, due, inbox, srv>>

Accept == srv.net = "syn" /\ srv' = [srv EXCEPT !.net = "open"]

Refuse ==
  /\ "refuse" \in Faults /\ srv.net = "syn"
  /\ srv' = [srv EXCEPT !.net = "refused"]

Answer ==
  /\ srv.net = "open" /\ ~srv.fin /\ srv.code = 0 /\ ~conn.unsent
  /\ \E code \in Codes, chunks \in Bodies :
       srv' = [srv EXCEPT !.code = code, !.chunks = chunks]

SendToken ==
  /\ srv.code # 0 /\ ~srv.fin /\ srv.sent <= Len(Stream)
  /\ srv' = [srv EXCEPT !.sent = @ + 1]

\* The server closes its end behind the reply, or ("cut") anywhere in it.
Finish ==
  /\ srv.code # 0 /\ ~srv.fin
  /\ srv.sent > Len(Stream) \/ ("cut" \in Faults /\ srv.sent > 0)
  /\ srv' = [srv EXCEPT !.fin = TRUE]

Server ==
  /\ Accept \/ Refuse \/ Answer \/ SendToken \/ Finish
  /\ UNCHANGED <<clientVars, due, wire, inbox>>

Terminated == pc = "back" /\ UNCHANGED vars

Running == Select \/ PollDone \/ Return \/ HandleDns \/ HandleConn

Next ==
  \/ Call \/ Running
  \/ Timeout \/ (\E g \in Datagrams : NameServer(g)) \/ Lose
  \/ Server \/ Terminated

Spec == Init /\ [][Next]_vars

\* http_post keeps polling, time passes, and a server that has been reached
\* answers and closes.  Nothing is assumed of the name server.
FairSpec == Spec /\ WF_vars(Running) /\ WF_vars(Timeout) /\ WF_vars(Server)

-----------------------------------------------------------------------------
(* Properties.                                                             *)

TypeOK ==
  /\ pc \in {"idle", "loop", "poll", "back"}
  /\ flag \in {0, ConnectFailed} \cup Codes
  /\ todo \subseteq {"conn", "dns"}
  /\ fd \in [{"conn", "dns"} -> SUBSET {"r", "w"}]
  /\ dns \in Dns /\ due \in BOOLEAN /\ wire \in Nat /\ inbox \in Seq(Datagrams)
  /\ conn \in Conn /\ srv \in Srv /\ body \in Seq(Tokens)
  /\ result \in {Pending, 0, ConnectFailed} \cup Codes
  /\ asked \in Nat /\ calls \in Nat

\* However the reply is split into reads, the receive buffer holds what the first
\* chunks carry, put together, and behind it the beginning of the next one as it
\* came: data that look like the framing of a chunk are never taken for one.
Reassembled ==
  conn.read > 0 /\ flag = 0 =>
    LET got == conn.read - 1
        k == Cardinality({j \in 1..Len(srv.chunks) : Len(Encoded[srv.chunks][j]) <= got})
        whole == Payload[srv.chunks][k]
    IN  /\ conn.bodyLen = Len(whole)
        /\ conn.buf = whole \o SubSeq(Stream, Len(Encoded[srv.chunks][k]) + 1, got)

\* The caller of a post that was answered has the whole body and nothing else,
\* unless the server closed in the middle of it.
BodyWhole ==
  pc = "back" /\ result # ConnectFailed /\ ~(srv.fin /\ srv.sent <= Len(Stream)) =>
    body = Payload[srv.chunks][Len(srv.chunks)]

\* The caller of a post that returned 0 has the whole body: false if the server closes
\* in the middle of it, for the close delivers what has come by then as the reply.
WholeOnSuccess == result = 0 => body = Payload[srv.chunks][Len(srv.chunks)]

\* A lookup ends once: resolve_cb runs at most once, and its request is freed with
\* that call.  Datagrams that come late, or twice, or between the last retry and
\* the close find no request.
CalledOnce ==
  calls = IF dns.life # "none" /\ ~dns.req THEN 1 ELSE 0

\* The last retry is counted but never sent: the poll after the one that queues it
\* gives up before it writes.  A lookup asks max_retries times, not one more.
LastRetryUnsent == asked <= MaxRetries

\* What became of the post: no address or no connection, or the server's status.
Decision ==
  IF srv.net = "refused" \/ (conn.life = "gone" /\ srv.net = "none") THEN ConnectFailed
  ELSE srv.code

RPC == INSTANCE PostRPC WITH
  MaxPosts <- 1,
  phase <- IF pc \in {"idle", "back"} THEN "idle" ELSE "calling",
  cur <- IF pc = "idle" THEN 0 ELSE 1,
  answer <- <<Decision>>,
  result <- <<result>>

\* A post by name is a post like any other: it is decided once, by the lookup, the
\* connect or the server, and returns that decision.
ImplementsRPC == RPC!Spec

\* http_post returns although the name server may never answer.
NamedPostReturns == pc = "loop" ~> pc = "back"

-----------------------------------------------------------------------------
(* The inductive invariant behind CalledOnce and LastRetryUnsent.          *)

\* The lookup is handled while its connection is there, and its request is there
\* until the connection is killed.
LookupLife ==
  /\ pc = "idle" => dns.life = "none"
  /\ "dns" \in todo => dns.life \in {"connecting", "open", "killed"}
  /\ dns.life \in {"connecting", "open"} => dns.req
  /\ dns.life \in {"none", "closed"} => ~dns.req

\* A query is counted when it is queued, and sent by a later poll.
QueryCount ==
  /\ dns.life \in {"none", "connecting"} => dns.retries = 0 /\ dns.queued = 0 /\ asked = 0
  /\ dns.life = "open" => asked + (IF dns.queued > 0 THEN 1 ELSE 0) <= dns.retries
  /\ dns.life = "open" /\ "dns" \in todo /\ "w" \in fd["dns"] => dns.queued > 0

LookupInv ==
  /\ dns \in Dns /\ asked \in Nat /\ calls \in Nat
  /\ LookupLife /\ QueryCount /\ CalledOnce /\ LastRetryUnsent

-----------------------------------------------------------------------------
(* The inductive invariant behind ImplementsRPC, Reassembled and BodyWhole. *)

\* The post's connection exists while http_post runs, is resolving as long as the
\* lookup holds its request, and is handled only between the connect and the close.
ConnLife ==
  /\ pc = "idle" <=> conn.life = "none"
  /\ pc = "idle" => todo = {} /\ flag = 0
  /\ dns.req => conn.life = "resolving"
  /\ "conn" \in todo => conn.life \in {"connecting", "open", "killed"}
  /\ conn.life \in {"none", "resolving"} => srv.net = "none"
  /\ conn.life \in {"connecting", "open", "killed"} => srv.net # "none"
  /\ conn.life = "open" => srv.net = "open"

\* The server answers a request it has, and nothing is read that was not sent.
ServerLife ==
  /\ srv.net # "open" => srv.code = 0
  /\ srv.code = 0 => srv.sent = 0 /\ ~srv.fin
  /\ srv.fin => srv.sent > 0
  /\ conn.unsent => srv.code = 0
  /\ conn.read <= srv.sent /\ srv.sent <= Len(Stream) + 1

\* What select reported still holds when the connection is handled.
StillReady ==
  /\ "conn" \in todo /\ "r" \in fd["conn"] =>
       srv.net = "refused" \/ srv.sent > conn.read \/ srv.fin
  /\ "dns" \in todo /\ "r" \in fd["dns"] => inbox # <<>>

\* The event handler writes the decision and http_post returns it.
Decided ==
  /\ flag # 0 => flag = Decision
  /\ pc = "back" => flag # 0
  /\ result = IF pc # "back" THEN Pending ELSE IF flag = 200 THEN 0 ELSE flag

PostInv ==
  /\ TypeOK /\ conn.bodyLen <= Len(conn.buf)
  /\ ConnLife /\ ServerLife /\ StillReady /\ Decided

\* The connection is handled only while nothing is decided, and ends without a
\* reply only when the server closed in the middle of one; a reply is delivered
\* when all of it was read, or at such an end.
Delivery ==
  LET cut == srv.fin /\ srv.sent <= Len(Stream)
  IN  /\ "conn" \in todo => flag = 0
      /\ conn.read = 0 => conn.buf = <<>> /\ conn.bodyLen = 0
      /\ flag = 0 => conn.read <= Len(Stream)
      /\ flag = 0 /\ (conn.life = "killed" \/ conn.drain) => cut
      /\ flag \in Codes => /\ conn.life = "gone" \/ conn.read > Len(Stream)
                           /\ cut \/ body = Payload[srv.chunks][Len(srv.chunks)]

BodyInv == PostInv /\ Reassembled /\ Delivery
=============================================================================
