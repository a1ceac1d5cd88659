------------------------------- MODULE HttpLib -------------------------------
(***************************************************************************)
(* http_lib.c: an HTTP client with a receiving thread.  http_request       *)
(* writes a request and waits on a condition variable; the receiver reads  *)
(* replies byte by byte into one shared answer buffer, under a mutex, and  *)
(* signals.  One thread makes requests, one at a time, as the handle API   *)
(* does.                                                                   *)
(*                                                                         *)
(* The bytes from the server are tokens: the text of a header line, the    *)
(* digits of a chunk size, or a single byte.  The receiver's retry counters are   *)
(* not kept: read returns 0 only at the end of the stream, for good, so a  *)
(* loop that retries leaves as it would at once.                           *)
(***************************************************************************)
EXTENDS Integers, Sequences

CONSTANTS
  MaxRequests,   \* bound on the requests made through the handle
  MaxBuffer,     \* MAXBUFFER
  Room,          \* size of the message buffer the caller passes with each request
  Replies,       \* what the server may answer with
  Faults         \* "cut": the server may close its end inside a reply;
                 \* "spurious": a wait may end without a signal

\* A reply has a status code (0: its status line cannot be parsed), a framing
\* and a body, the sequence of its chunks, each a sequence of bytes.
Bytes == {"a", "b", "cr", "lf"}
Reply == [code: Nat, framing: {"length", "chunked", "none"},
          chunks: Seq(Seq(Bytes))]

ASSUME HttpAssumption ==
  /\ MaxRequests \in Nat
  /\ MaxBuffer \in Nat \ {0}
  /\ Room \in [1..MaxRequests -> Nat]
  /\ Replies \subseteq Reply
  /\ \A r \in Replies : Len(r.chunks) <= 2
  /\ Faults \subseteq {"cut", "spurious"}

Requests == 1..MaxRequests

VARIABLES
  cpc,       \* the requesting thread: where it is in http_request or deinit
  rpc,       \* the receiving thread
  mutex,     \* "free", "client" or "receiver": who locked it last
  life,      \* the handle: "open", "destroyed" (its mutex), "freed"
  exit,      \* p->exit
  req,       \* number of requests begun
  sendid,    \* p->sendid
  recvid,    \* p->recvid
  answer,    \* p->answer
  retcode,   \* p->retcode
  msg,       \* what was written to the caller's message buffer
  rc,        \* retcode of getResponseHeader and getResponse
  line,      \* stringa, the header line being read
  body,      \* the locals of getResponse
  last,      \* last_char
  pos,       \* tokens of the stream read so far
  replied,   \* the replies the server has decided on
  wire,      \* the tokens of them that ever arrive
  eof,       \* the server has closed its end
  framed,    \* no header has failed before the end of the stream (history)
  returned,  \* what each request returned (history)
  spurious   \* the first request woken without a signal, 0 if none (history)

clientVars == <<cpc, req, sendid, msg, returned, spurious>>
receiverVars ==
  <<rpc, recvid, answer, retcode, rc, line, body, last, pos, framed>>
serverVars == <<replied, wire, eof>>
handleVars == <<mutex, life, exit>>
vars == <<clientVars, receiverVars, serverVars, handleVars>>

ParsingHeader == -111    \* HTTP_ERROR_PARSING_HEADER
Pending == [ret |-> 0, msg |-> <<>>]
Failed == [ret |-> -4, msg |-> <<>>]     \* the write failed

-----------------------------------------------------------------------------
(* The stream of tokens a reply consists of.                               *)

Kinds == {"status", "length", "chunked", "size"} \cup Bytes
Toks == [t: Kinds, n: Nat]
Token(t, n) == [t |-> t, n |-> n]
Byte(b) == Token(b, 0)
CrLf == <<Byte("cr"), Byte("lf")>>
Content(r) == IF r.chunks = <<>> THEN <<>>
              ELSE IF Len(r.chunks) = 1 THEN r.chunks[1]
              ELSE r.chunks[1] \o r.chunks[2]
Raw(s) == [i \in 1..Len(s) |-> Byte(s[i])]
Chunk(s) == <<Token("size", Len(s))>> \o CrLf \o Raw(s) \o CrLf
ChunkedBody(r) ==
  (IF Len(r.chunks) >= 1 THEN Chunk(r.chunks[1]) ELSE <<>>) \o
  (IF Len(r.chunks) >= 2 THEN Chunk(r.chunks[2]) ELSE <<>>) \o
  <<Token("size", 0)>> \o CrLf \o CrLf

\* The status line, the line that says how the body is framed, a blank line.
Tokens(r) ==
  (IF r.code = 0 THEN <<>> ELSE <<Token("status", r.code)>> \o CrLf) \o
  (CASE r.framing = "length" ->
          <<Token("length", Len(Content(r)))>> \o CrLf \o CrLf \o Raw(Content(r))
     [] r.framing = "none"    -> CrLf \o Raw(Content(r))
     [] r.framing = "chunked" ->
          <<Token("chunked", 0)>> \o CrLf \o CrLf \o ChunkedBody(r))

\* size is response_size, copy is copy_buffer, fterm and fblank are fetch_term
\* and fetch_blank_line, enc is encoding_buf.
Body == [size: Nat, chunked: BOOLEAN, copy: Nat, fterm: BOOLEAN,
         fblank: BOOLEAN, enc: Seq(Toks)]
Locals == [size |-> 0, chunked |-> FALSE, copy |-> 0, fterm |-> FALSE,
           fblank |-> FALSE, enc |-> <<>>]

-----------------------------------------------------------------------------
Init ==
  /\ cpc = "idle" /\ rpc = "loop"
  /\ mutex = "free" /\ life = "open" /\ exit = FALSE
  /\ req = 0 /\ sendid = 0 /\ recvid = 0
  /\ answer = <<>> /\ retcode = 0 /\ msg = <<>>
  /\ rc = ParsingHeader /\ line = <<>> /\ body = Locals /\ last = "none"
  /\ pos = 0 /\ framed = TRUE
  /\ replied = <<>> /\ wire = <<>> /\ eof = FALSE
  /\ returned = [k \in Requests |-> Pending] /\ spurious = 0

-----------------------------------------------------------------------------
(* The requesting thread: http_perform_request, http_wait_answer,          *)
(* http_get_answer.                                                        *)

\* A write to a connection the server has closed may still succeed.
Perform ==
  /\ cpc = "idle" /\ life = "open" /\ req < MaxRequests
  /\ req' = req + 1
  /\ \/ cpc' = "lock" /\ sendid' = sendid + 1 /\ UNCHANGED returned
     \/ /\ eof /\ cpc' = "idle" /\ UNCHANGED sendid
        /\ returned' = [returned EXCEPT ![req + 1] = Failed]
  /\ UNCHANGED <<msg, spurious, receiverVars, serverVars, handleVars>>

ClientLock(from, to) ==
  /\ cpc = from /\ mutex = "free"
  /\ cpc' = to /\ mutex' = "client"
  /\ UNCHANGED <<req, sendid, msg, returned, spurious, receiverVars, serverVars, life, exit>>

ClientUnlock(from, to) ==
  /\ cpc = from
  /\ cpc' = to /\ mutex' = "free"
  /\ UNCHANGED <<req, sendid, msg, returned, spurious, receiverVars, serverVars, life, exit>>

\* Seeded fault: the wait is only for a reply that has not begun to arrive.
BadTest ==
  /\ cpc = "test"
  /\ IF sendid > recvid THEN cpc' = "wait" /\ mutex' = "free"
                        ELSE cpc' = "unlock" /\ UNCHANGED mutex
  /\ UNCHANGED <<req, sendid, msg, returned, spurious, receiverVars, serverVars, life, exit>>

\* The condition is tested once; the wait releases the mutex.
Test ==
  /\ cpc = "test"
  /\ IF sendid >= recvid THEN cpc' = "wait" /\ mutex' = "free"
                         ELSE cpc' = "unlock" /\ UNCHANGED mutex
  /\ UNCHANGED <<req, sendid, msg, returned, spurious, receiverVars, serverVars, life, exit>>

\* A wait may end although nobody signalled.
WakeUp ==
  /\ cpc = "wait" /\ "spurious" \in Faults
  /\ cpc' = "woken"
  /\ spurious' = IF spurious = 0 THEN req ELSE spurious
  /\ UNCHANGED <<req, sendid, msg, returned, receiverVars, serverVars, handleVars>>

\* memcpy of size bytes of a longer text, which are not terminated, or of the
\* text with its NUL: one byte more than there is room for if it is size bytes long.
Copied(text, size) ==
  IF size < Len(text) THEN SubSeq(text, 1, size) ELSE Append(text, "nul")

Copy ==
  /\ cpc = "copy"
  /\ msg' = Copied(answer, Room[req])
  /\ cpc' = "unlock2"
  /\ UNCHANGED <<req, sendid, returned, spurious, receiverVars, serverVars, handleVars>>

\* p->retcode is read after the mutex was released.
Return ==
  /\ cpc = "return"
  /\ returned' = [returned EXCEPT ![req] = [ret |-> retcode, msg |-> msg]]
  /\ cpc' = "idle"
  /\ UNCHANGED <<req, sendid, msg, spurious, receiverVars, serverVars, handleVars>>

\* http_client_deinit; nobody waits for the receiver to end.
Destroy ==
  /\ cpc = "idle" /\ life = "open"
  /\ exit' = TRUE /\ life' = "destroyed"
  /\ UNCHANGED <<clientVars, receiverVars, serverVars, mutex>>

Free ==
  /\ life = "destroyed"
  /\ life' = "freed"
  /\ UNCHANGED <<clientVars, receiverVars, serverVars, mutex, exit>>

\* What the thread does of itself once it has begun a request.
Waiting ==
  \/ ClientLock("lock", "test") \/ Test \/ ClientLock("woken", "unlock")
  \/ ClientUnlock("unlock", "lock2") \/ ClientLock("lock2", "copy") \/ Copy
  \/ ClientUnlock("unlock2", "return") \/ Return

Client == Perform \/ Waiting \/ WakeUp \/ Destroy \/ Free

-----------------------------------------------------------------------------
(* The receiving thread: receive, getResponseHeader, getResponse.          *)

\* What is left in a freed handle is anything.
Loop ==
  /\ rpc = "loop"
  /\ \E stop \in IF life = "freed" THEN BOOLEAN ELSE {exit} :
       rpc' = IF stop THEN "ended" ELSE "header"
  /\ rc' = ParsingHeader /\ line' = <<>> /\ body' = Locals /\ last' = "none"
  /\ UNCHANGED <<recvid, answer, retcode, pos, framed>>
  /\ UNCHANGED <<clientVars, serverVars, handleVars>>

\* read is a point where a cancelled thread ends.
CanRead == pos < Len(wire) /\ life # "freed"

Cancelled ==
  /\ rpc \in {"header", "body"} /\ life = "freed"
  /\ rpc' = "ended"
  /\ UNCHANGED <<recvid, answer, retcode, rc, line, body, last, pos, framed>>
  /\ UNCHANGED <<clientVars, serverVars, handleVars>>

Term(k) == k.t = "lf" /\ last = "cr"

\* The header is over: its code decides whether a body is read.
HeaderEnds(code) == rpc' = IF code > 0 THEN "lock" ELSE "unlock"

\* A complete line of the header; lines that say nothing are ignored.  The text of a
\* modem, NO CARRIER, for which the code ends the header with -6, is not a token.
HeaderLine(k) ==
  /\ rc' = IF k.t = "status" THEN k.n ELSE rc
  /\ body' = CASE k.t = "length"  -> [body EXCEPT !.size = k.n,
                           !.copy = IF body.chunked THEN 0 ELSE k.n]
               [] k.t = "chunked" -> [body EXCEPT !.chunked = TRUE, !.copy = 0]
               [] OTHER           -> body

ReadHeader ==
  /\ rpc = "header" /\ CanRead
  /\ LET k == wire[pos + 1]
     IN  /\ IF ~Term(k)
              THEN line' = Append(line, k) /\ UNCHANGED <<rpc, rc, body>>
            ELSE IF line = <<Byte("cr")>>
              THEN HeaderEnds(rc) /\ UNCHANGED <<line, rc, body>>
              ELSE HeaderLine(Head(line)) /\ line' = <<>> /\ UNCHANGED rpc
         /\ last' = k.t
  /\ pos' = pos + 1
  /\ UNCHANGED <<recvid, answer, retcode, framed, clientVars, serverVars, handleVars>>

\* The end of the stream, or an error: what was parsed so far is the result.
HeaderEof ==
  /\ rpc = "header" /\ pos = Len(wire) /\ eof /\ life # "freed"
  /\ HeaderEnds(rc)
  /\ UNCHANGED <<recvid, answer, retcode, rc, line, body, last, pos, framed>>
  /\ UNCHANGED <<clientVars, serverVars, handleVars>>

\* Seeded faults: the receiver does not take the mutex; the old answer stays.
BadLockNone ==
  /\ rpc = "lock"
  /\ rpc' = "body"
  /\ answer' = <<>> /\ recvid' = recvid + 1 /\ last' = "none"
  /\ UNCHANGED <<retcode, rc, line, body, pos, framed>>
  /\ UNCHANGED <<clientVars, serverVars, mutex, life, exit>>

BadLockKeeps ==
  /\ rpc = "lock" /\ (mutex = "free" \/ life # "open")
  /\ rpc' = "body" /\ mutex' = "receiver"
  /\ recvid' = recvid + 1 /\ last' = "none"
  /\ UNCHANGED <<answer, retcode, rc, line, body, pos, framed>>
  /\ UNCHANGED <<clientVars, serverVars, life, exit>>

\* A destroyed mutex does not block.
Lock ==
  /\ rpc = "lock" /\ (mutex = "free" \/ life # "open")
  /\ rpc' = "body" /\ mutex' = "receiver"
  /\ answer' = <<>> /\ recvid' = recvid + 1 /\ last' = "none"
  /\ UNCHANGED <<retcode, rc, line, body, pos, framed>>
  /\ UNCHANGED <<clientVars, serverVars, life, exit>>

\* strtoul of encoding_buf, whose last character is overwritten with NUL.
ChunkSize(enc) ==
  LET first == {i \in 1..(Len(enc) - 1) :
                  enc[i].t # "cr" /\ \A j \in 1..(i - 1) : enc[j].t = "cr"}
  IN  IF \E i \in first : enc[i].t = "size"
        THEN enc[CHOOSE i \in first : TRUE].n ELSE 0

\* The three ways a byte of the body is taken: the line end after copied bytes
\* is dropped; it is copied; or, with nothing to copy, it belongs to a chunk
\* size, or (no chunks) is skipped on the way to the end of the line.
DropByte ==
  /\ body' = [body EXCEPT !.fterm = FALSE]
  /\ UNCHANGED <<answer, rpc>>

\* Seeded fault: the end of a copied body is not noticed.
BadCopyByte(k) ==
  /\ answer' = IF Len(answer) < MaxBuffer - 1 THEN Append(answer, k.t) ELSE answer
  /\ body' = [body EXCEPT !.copy = @ - 1, !.fterm = TRUE]
  /\ UNCHANGED rpc

CopyByte(k) ==
  /\ answer' = IF Len(answer) < MaxBuffer - 1 THEN Append(answer, k.t) ELSE answer
  /\ IF Len(answer') = body.size
       THEN rpc' = "unlock" /\ body' = [body EXCEPT !.copy = @ - 1]
       ELSE UNCHANGED rpc /\ body' = [body EXCEPT !.copy = @ - 1, !.fterm = TRUE]

SizeByte(k) ==
  /\ body' =
       IF ~body.chunked THEN [body EXCEPT !.fblank = TRUE]
       ELSE IF ~Term(k) THEN [body EXCEPT !.enc = Append(@, k)]
       ELSE IF body.enc = <<>> THEN body
       ELSE [body EXCEPT !.copy = ChunkSize(body.enc), !.enc = <<>>,
                         !.fblank = (ChunkSize(body.enc) = 0)]
  /\ UNCHANGED <<answer, rpc>>

ReadBody ==
  /\ rpc = "body" /\ CanRead
  /\ LET k == wire[pos + 1]
     IN  /\ IF Term(k) /\ body.fblank
              THEN rpc' = "unlock" /\ UNCHANGED <<answer, body>>
            ELSE IF Term(k) /\ body.fterm THEN DropByte
            ELSE IF body.copy > 0 THEN CopyByte(k)
            ELSE SizeByte(k)
         /\ last' = k.t
  /\ pos' = pos + 1
  /\ UNCHANGED <<recvid, retcode, rc, line, framed, clientVars, serverVars, handleVars>>

\* The reply is taken for complete, whatever has come of it.
BodyEof ==
  /\ rpc = "body" /\ pos = Len(wire) /\ eof /\ life # "freed"
  /\ rpc' = "unlock"
  /\ UNCHANGED <<recvid, answer, retcode, rc, line, body, last, pos, framed>>
  /\ UNCHANGED <<clientVars, serverVars, handleVars>>

\* Nothing more is to be read.
Drained == eof /\ pos = Len(wire)

\* Unlocks the mutex even when the header could not be read and nothing was
\* locked: a mutex of the default type is then free, whoever held it.
Unlock ==
  /\ rpc = "unlock"
  /\ rpc' = "publish" /\ mutex' = "free"
  /\ framed' = (framed /\ (rc > 0 \/ Drained))
  /\ UNCHANGED <<recvid, answer, retcode, rc, line, body, last, pos>>
  /\ UNCHANGED <<clientVars, serverVars, life, exit>>

Publish ==
  /\ rpc = "publish"
  /\ retcode' = rc /\ rpc' = "signal"
  /\ UNCHANGED <<recvid, answer, rc, line, body, last, pos, framed>>
  /\ UNCHANGED <<clientVars, serverVars, handleVars>>

\* Seeded fault: only a reply is signalled, not a failure.
BadSignal ==
  /\ rpc = "signal"
  /\ rpc' = "loop"
  /\ cpc' = IF cpc = "wait" /\ rc > 0 THEN "woken" ELSE cpc
  /\ UNCHANGED <<recvid, answer, retcode, rc, line, body, last, pos, framed>>
  /\ UNCHANGED <<req, sendid, msg, returned, spurious, serverVars, handleVars>>

\* A signal with nobody waiting is lost.
Signal ==
  /\ rpc = "signal"
  /\ rpc' = "loop"
  /\ cpc' = IF cpc = "wait" THEN "woken" ELSE cpc
  /\ UNCHANGED <<recvid, answer, retcode, rc, line, body, last, pos, framed>>
  /\ UNCHANGED <<req, sendid, msg, returned, spurious, serverVars, handleVars>>

Receiver ==
  \/ Loop \/ Cancelled \/ ReadHeader \/ HeaderEof \/ Lock
  \/ ReadBody \/ BodyEof \/ Unlock \/ Publish \/ Signal

-----------------------------------------------------------------------------
(* The server: one reply per request, in order.  The receiver reads single *)
(* bytes, so a reply that arrives in pieces is one read slowly.            *)

Answer ==
  /\ Len(replied) < sendid /\ ~eof
  /\ \E r \in Replies :
       /\ replied' = Append(replied, r)
       /\ \/ wire' = wire \o Tokens(r) /\ UNCHANGED eof
          \/ /\ "cut" \in Faults
             /\ \E n \in 0..(Len(Tokens(r)) - 1) :
                  wire' = wire \o SubSeq(Tokens(r), 1, n)
             /\ eof' = TRUE
  /\ UNCHANGED <<clientVars, receiverVars, handleVars>>

CloseEnd ==
  /\ ~eof
  /\ eof' = TRUE
  /\ UNCHANGED <<replied, wire, clientVars, receiverVars, handleVars>>

Server == Answer \/ CloseEnd

Terminated == rpc = "ended" /\ life = "freed" /\ UNCHANGED vars

Next == Client \/ Receiver \/ Server \/ Terminated

Spec == Init /\ [][Next]_vars

\* Both threads are scheduled; the server need not do more than close its end.
FairSpec == Spec /\ WF_vars(Waiting) /\ WF_vars(Receiver) /\ WF_vars(CloseEnd)

-----------------------------------------------------------------------------
(* Properties.                                                             *)

TypeOK ==
  /\ cpc \in {"idle", "lock", "test", "wait", "woken", "unlock", "lock2",
              "copy", "unlock2", "return"}
  /\ rpc \in {"loop", "header", "lock", "body", "unlock", "publish", "signal",
              "ended"}
  /\ mutex \in {"free", "client", "receiver"}
  /\ life \in {"open", "destroyed", "freed"}
  /\ exit \in BOOLEAN
  /\ req \in 0..MaxRequests /\ (cpc # "idle" => req > 0)
  /\ sendid \in 0..req /\ recvid \in Nat
  /\ answer \in Seq(Kinds) /\ Len(answer) < MaxBuffer
  /\ msg \in Seq(Kinds \cup {"nul"})
  /\ retcode \in Int /\ rc \in Int
  /\ line \in Seq(Toks) /\ (rpc = "header" /\ last = "cr" => line # <<>>)
  /\ body \in Body
  /\ last \in Kinds \cup {"none"}
  /\ pos \in Nat
  /\ framed \in BOOLEAN
  /\ replied \in Seq(Reply)
  /\ wire \in Seq(Toks)
  /\ eof \in BOOLEAN
  /\ returned \in [Requests -> [ret: Int, msg: Seq(Kinds \cup {"nul"})]]
  /\ spurious \in 0..MaxRequests

\* The last position of reply k in the stream.
End[k \in 0..Len(replied)] ==
  IF k = 0 THEN 0 ELSE End[k - 1] + Len(Tokens(replied[k]))

Unbroken(s) == \A i \in 1..(Len(s) - 1) : ~(s[i] = "cr" /\ s[i + 1] = "lf")

\* A reply the receiver is made for: it has a body, shorter than the buffer,
\* announced by its length or its chunks, without a line end inside.
Plain(r) ==
  /\ r.code > 0 /\ r.framing # "none"
  /\ Len(Content(r)) \in 1..(MaxBuffer - 1)
  /\ Unbroken(Content(r))

\* A positive result of a request is the status of its own reply.  If that reply is
\* plain and came whole, the message is its body: cut, without a NUL, if the caller's
\* buffer is shorter than the body, else all of it with its NUL, which is outside the
\* buffer if the body fills it.  The two ids that should match them up are never
\* compared for equality.  Nothing is said after a wait that ended without a signal.
OwnAnswer ==
  \A k \in Requests : returned[k].ret > 0 /\ spurious = 0 =>
    /\ k <= Len(replied)
    /\ returned[k].ret = replied[k].code
    /\ Plain(replied[k]) /\ Len(wire) >= End[k] =>
         LET s == Content(replied[k])
         IN  returned[k].msg = IF Room[k] < Len(s) THEN SubSeq(s, 1, Room[k])
                                                   ELSE Append(s, "nul")

\* The receiver never changes the answer while the caller copies it, although
\* it unlocks the mutex without holding it whenever a header fails: unless a
\* header failed with more of the stream to come.
CopyExclusive == ~(framed /\ cpc = "copy" /\ rpc = "body")

\* A plain reply does not leave the receiver reading, with the mutex locked,
\* for bytes that do not come.
NeverStarves ==
  rpc = "body" /\ pos = Len(wire) /\ ~eof /\ spurious = 0 => ~Plain(replied[Len(replied)])

\* http_client_deinit does not wait for the receiver, which goes on with a destroyed
\* mutex and a freed handle.  It is not in the middle of a reply then: it neither
\* writes the answer nor is about to, and what it still has to unlock, publish and
\* signal is the failure that ends the stream.  With more of the stream to come, all
\* it has left to do on the handle is the test of p->exit before it is cancelled.
QuietAtDeinit ==
  life # "open" /\ spurious = 0 =>
    /\ rpc \notin {"lock", "body"}
    /\ rpc \in {"unlock", "publish", "signal"} => Drained /\ rc <= 0

\* Every request returns once the server closes the connection, even if the
\* signal for its own reply was lost.
RequestReturns == (cpc # "idle") ~> (cpc = "idle")

-----------------------------------------------------------------------------
(* The inductive invariant behind CopyExclusive.                           *)

\* The thread is between its lock and its unlock.
ClientInside == cpc \in {"test", "unlock", "copy", "unlock2"}
ReceiverInside == rpc = "body" \/ (rpc = "unlock" /\ rc > 0)

\* The receiver has read everything and will not lock the mutex again.
Finished ==
  /\ Drained
  /\ rpc # "lock" /\ ~ReceiverInside
  /\ rpc = "header" => ~(rc > 0)

\* The mutex is held by the thread inside, unless the receiver has taken it
\* from the caller at the end of the stream; then it has nothing more to write.
MutexInv ==
  /\ life = "open" /\ ReceiverInside => mutex = "receiver"
  /\ ClientInside => mutex = "client" \/ Finished

HttpInv ==
  /\ cpc # "idle" => life = "open"
  /\ rpc \in {"lock", "body"} => rc > 0
  /\ framed => MutexInv

-----------------------------------------------------------------------------
(* The inductive invariant behind OwnAnswer and NeverStarves, for servers  *)
(* whose replies can be told apart.                                        *)

\* A reply with a status, whose body is announced; no chunk but the last is empty,
\* and none has a line end inside.
Orderly(r) ==
  /\ r.code > 0 /\ r.framing # "none"
  /\ r.framing = "chunked" =>
       \A j \in 1..Len(r.chunks) : r.chunks[j] # <<>> /\ Unbroken(r.chunks[j])

OrderlyServer == MaxBuffer > 1 /\ \A r \in Replies : Orderly(r)

\* The replies lie in the stream one behind the other; the last may be cut short.
StreamInv ==
  /\ replied \in Seq(Replies) /\ Len(replied) <= sendid
  /\ Len(wire) <= End[Len(replied)] /\ (~eof => Len(wire) = End[Len(replied)])
  /\ pos <= Len(wire) /\ recvid <= Len(replied)
  /\ \A k \in 1..Len(replied) :
       /\ End[k - 1] <= Len(wire)
       /\ \A i \in 1..Len(Tokens(replied[k])) : End[k - 1] + i <= Len(wire) =>
            wire[End[k - 1] + i] = Tokens(replied[k])[i]

\* The header has eight tokens: the status line, the line that announces the body,
\* and the blank line.
FrameLocals(r) ==
  IF r.framing = "length"
    THEN [Locals EXCEPT !.size = Len(Content(r)), !.copy = Len(Content(r))]
    ELSE [Locals EXCEPT !.chunked = TRUE]

\* The receiver has read o tokens of the header of r.
InHeader(r, o) ==
  /\ o \in 0..7
  /\ rc = (IF o < 3 THEN ParsingHeader ELSE r.code)
  /\ body = (IF o < 6 THEN Locals ELSE FrameLocals(r))
  /\ line = SubSeq(Tokens(r), IF o < 3 THEN 1 ELSE IF o < 6 THEN 4 ELSE 7, o)
  /\ last = (IF o = 0 THEN "none" ELSE Tokens(r)[o].t)

\* It has read o bytes of a body announced by its length.
InLength(r, o) ==
  LET s == Content(r)
  IN  /\ o \in 0..Len(s) /\ Len(answer) <= o
      /\ ~body.chunked /\ ~body.fblank /\ body.size = Len(s)
      /\ body.copy >= Len(s) - o /\ (o = Len(s) /\ o > 0 => Len(answer) < o)
      /\ Plain(r) =>
           /\ o < Len(s) /\ body.copy = Len(s) - o /\ answer = SubSeq(s, 1, o)
           /\ last = IF o = 0 THEN "none" ELSE s[o]

\* The chunks, the empty one at the end included; where one begins in the body, and
\* how much of the content is in front of it.
Parts(r) == Append(r.chunks, <<>>)
Before(r, j) == IF j = 1 THEN 0 ELSE IF j = 2 THEN Len(r.chunks[1]) ELSE Len(Content(r))
Offset(r, j) == Before(r, j) + 5 * (j - 1)

\* It has read o tokens of chunk s: of its size line, its bytes, their line end.
InChunk(s, o) ==
  /\ body.chunked /\ body.size = 0 /\ o \in 0..(Len(s) + 4)
  /\ IF o = 0 THEN last # "cr" ELSE last = Chunk(s)[o].t
  /\ o < 3 =>
       /\ body.copy = 0 /\ ~body.fterm /\ ~body.fblank
       /\ \E e \in {<<>>, <<Byte("cr")>>} : body.enc = e \o SubSeq(Chunk(s), 1, o)
  /\ o >= 3 =>
       /\ body.copy = (IF o = Len(s) + 4 THEN 0 ELSE Len(s) + 3 - o)
       /\ body.fterm = (o > 3 /\ s # <<>>) /\ body.fblank = (s = <<>>)
       /\ body.enc = (IF o = Len(s) + 4 THEN <<Byte("cr")>> ELSE <<>>)

\* It has read o tokens of a chunked body.
InChunked(r, o) ==
  \E j \in 1..(Len(r.chunks) + 1) :
    LET s == Parts(r)[j]
        k == o - Offset(r, j)
        read == IF k < 3 THEN 0 ELSE IF k > Len(s) + 3 THEN Len(s) ELSE k - 3
    IN  /\ InChunk(s, k)
        /\ Plain(r) => answer = SubSeq(Content(r), 1, Before(r, j) + read)

InBody(r, o) == IF r.framing = "length" THEN InLength(r, o) ELSE InChunked(r, o)

\* The stream ended inside reply k: nothing more is to be read of it.
CutShort(k) == Drained /\ Len(wire) < End[k]

\* The receiver is working on a reply it has locked for.
Delivering == rpc = "body" \/ (rpc \in {"unlock", "publish", "signal"} /\ rc > 0)

\* It is where the tokens it has read say.
PlaceInv ==
  LET n == Len(replied)
  IN  /\ rpc = "loop" => pos = End[recvid] \/ Drained
      /\ rpc = "header" =>
           \/ Drained /\ rc = ParsingHeader
           \/ pos = End[recvid] /\ rc = ParsingHeader /\ body = Locals
                /\ line = <<>> /\ last = "none"
           \/ recvid < n /\ InHeader(replied[recvid + 1], pos - End[recvid])
      /\ rpc = "lock" =>
           /\ recvid < n /\ rc = replied[recvid + 1].code
           /\ \/ pos = End[recvid] + 8 /\ body = FrameLocals(replied[recvid + 1])
              \/ CutShort(recvid + 1)
      /\ rpc = "body" =>
           \/ InBody(replied[recvid], pos - End[recvid - 1] - 8)
           \/ CutShort(recvid)
      /\ rpc \in {"unlock", "publish", "signal"} =>
           Drained \/ (rc > 0 /\ pos = End[recvid])
      /\ Delivering => recvid > 0 /\ rc = replied[recvid].code

\* What the buffer and the status are of: the reply that was delivered last, and
\* the one whose status was published last.
ShownInv ==
  /\ rpc # "body" /\ recvid > 0 /\ Plain(replied[recvid]) /\ Len(wire) >= End[recvid] =>
       answer = Content(replied[recvid])
  /\ rpc = "signal" => retcode = rc
  /\ retcode > 0 =>
       LET k == IF Delivering /\ rpc # "signal" THEN recvid - 1 ELSE recvid
       IN  k > 0 /\ retcode = replied[k].code

\* The stream is over and the last result was a failure; so will all others be.
Over ==
  /\ Drained /\ retcode <= 0 /\ rpc \notin {"lock", "body"}
  /\ rpc \in {"header", "unlock", "publish", "signal"} => rc <= 0

\* A request is answered by its own signal or by none: replies come one at a time,
\* each when the requests before it have returned.
TurnInv ==
  LET n == Len(replied)
      signalled == IF Delivering THEN recvid - 1 ELSE recvid
  IN  /\ n <= req /\ (~eof => sendid = req)
      /\ cpc = "idle" => Over \/ (signalled = n /\ (eof \/ n = req))
      /\ cpc \in {"lock", "test", "wait"} =>
           \/ Over
           \/ signalled = n /\ (eof \/ n >= req - 1)
           \/ signalled = n - 1 /\ n = req
      /\ cpc \in {"woken", "unlock", "lock2", "copy", "unlock2", "return"} =>
           Over \/ (signalled = n /\ n = req)
      /\ cpc \in {"unlock2", "return"} => Over \/ msg = Copied(answer, Room[req])

AnswerInv ==
  spurious = 0 => StreamInv /\ PlaceInv /\ ShownInv /\ TurnInv /\ OwnAnswer
=============================================================================
