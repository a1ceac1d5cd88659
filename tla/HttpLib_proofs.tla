--------------------------- MODULE HttpLib_proofs ---------------------------
(***************************************************************************)
(* Proofs about the two HTTP clients.  HttpLib: for every number of        *)
(* requests, buffer size, set of replies and choice of faults.  RestRetry: *)
(* for every number of tries, of calls and of late requests.               *)
(***************************************************************************)
EXTENDS HttpLib, RestRetry, SequenceTheorems, WellFoundedInduction, TLAPS

-----------------------------------------------------------------------------
(* Who may touch the answer.                                               *)

LEMMA HttpInitInv == ASSUME Init PROVE HttpInv
BY DEF Init, HttpInv, MutexInv, ClientInside, ReceiverInside

\* The requesting thread reads neither the receiver's state nor the stream.
LEMMA ClientKeepsInv == ASSUME HttpInv, Client PROVE HttpInv'
<1>. USE DEF HttpInv, MutexInv, ClientInside, ReceiverInside, Finished, Drained
<1>1. CASE Perform
  BY <1>1 DEF Perform, receiverVars, serverVars, handleVars
<1>2. CASE Waiting
  <2>1. ASSUME NEW from, NEW to,
               <<from, to>> \in {<<"lock", "test">>, <<"woken", "unlock">>,
                                 <<"lock2", "copy">>},
               ClientLock(from, to)
        PROVE  HttpInv'
    <3>1. cpc # "idle" /\ life = "open" /\ mutex = "free" /\ mutex' = "client"
      BY <2>1 DEF ClientLock
    <3>. QED BY <2>1, <3>1 DEF ClientLock, receiverVars, serverVars
  <2>2. ASSUME NEW from, NEW to,
               <<from, to>> \in {<<"unlock", "lock2">>, <<"unlock2", "return">>},
               ClientUnlock(from, to)
        PROVE  HttpInv'
    BY <2>2 DEF ClientUnlock, receiverVars, serverVars
  <2>3. CASE Test
    BY <2>3 DEF Test, receiverVars, serverVars
  <2>4. CASE Copy \/ Return
    BY <2>4 DEF Copy, Return, receiverVars, serverVars, handleVars
  <2>. QED BY <1>2, <2>1, <2>2, <2>3, <2>4 DEF Waiting
<1>3. CASE WakeUp
  BY <1>3 DEF WakeUp, receiverVars, serverVars, handleVars
<1>4. CASE Destroy \/ Free
  BY <1>4 DEF Destroy, Free, clientVars, receiverVars, serverVars
<1>. QED BY <1>1, <1>2, <1>3, <1>4 DEF Client

\* The receiver locks only a free mutex, and unlocks one it does not hold only
\* if the stream is over, or else framed becomes false.
LEMMA ReceiverKeepsInv ==
  ASSUME HttpInv, pos \in Nat, Receiver PROVE HttpInv'
<1>. USE DEF HttpInv, MutexInv, ClientInside, ReceiverInside, Finished, Drained
<1>1. CASE Loop
  <2>1. rc' = -111 /\ ~(rc' > 0)
    BY <1>1 DEF Loop, ParsingHeader
  <2>2. rpc = "loop" /\ rpc' \in {"ended", "header"}
    BY <1>1 DEF Loop
  <2>. QED BY <1>1, <2>1, <2>2 DEF Loop, clientVars, serverVars, handleVars
<1>2. CASE Cancelled
  BY <1>2 DEF Cancelled, clientVars, serverVars, handleVars
<1>3. CASE ReadHeader
  <2>1. ~Drained /\ rpc = "header" /\ UNCHANGED <<framed, clientVars, handleVars>>
    BY <1>3 DEF ReadHeader, CanRead
  <2>2. \/ rpc' \in {"header", "unlock"} /\ (rpc' = "unlock" => ~(rc' > 0))
        \/ rpc' = "lock" /\ rc' > 0
    BY <1>3 DEF ReadHeader, HeaderEnds, HeaderLine
  <2>. QED BY <2>1, <2>2 DEF clientVars, handleVars
<1>4. CASE HeaderEof
  BY <1>4 DEF HeaderEof, HeaderEnds, clientVars, serverVars, handleVars
<1>5. CASE Lock
  BY <1>5 DEF Lock, clientVars, serverVars
<1>6. CASE ReadBody
  <2>1. rpc = "body" /\ rpc' \in {"body", "unlock"} /\ ~Drained
        /\ UNCHANGED <<rc, framed, clientVars, serverVars, handleVars>>
    BY <1>6 DEF ReadBody, CanRead, DropByte, CopyByte, SizeByte
  <2>. QED BY <2>1 DEF clientVars, serverVars, handleVars
<1>7. CASE BodyEof
  BY <1>7 DEF BodyEof, clientVars, serverVars, handleVars
<1>8. CASE Unlock
  BY <1>8 DEF Unlock, clientVars, serverVars
<1>9. CASE Publish
  BY <1>9 DEF Publish, clientVars, serverVars, handleVars
<1>10. CASE Signal
  BY <1>10 DEF Signal, serverVars, handleVars
<1>. QED
  BY <1>1, <1>2, <1>3, <1>4, <1>5, <1>6, <1>7, <1>8, <1>9, <1>10 DEF Receiver

\* The server's steps need an open stream.
LEMMA ServerKeepsInv == ASSUME HttpInv, Server PROVE HttpInv'
BY DEF Server, Answer, CloseEnd, HttpInv, MutexInv, ClientInside,
       ReceiverInside, Finished, Drained, clientVars, receiverVars, handleVars

-----------------------------------------------------------------------------
(* Types.                                                                  *)

LEMMA HttpConstants ==
  /\ MaxRequests \in Nat /\ MaxBuffer \in Nat /\ MaxBuffer > 0
  /\ Replies \subseteq Reply
  BY HttpAssumption DEF HttpAssumption

LEMMA TokenType ==
  /\ \A t \in Kinds, n \in Nat : Token(t, n) \in Toks
  /\ \A k \in Toks : k.t \in Kinds /\ k.n \in Nat
<1>1. ASSUME NEW t \in Kinds, NEW n \in Nat PROVE Token(t, n) \in Toks
  BY DEF Token, Toks
<1>2. ASSUME NEW k \in Toks PROVE k.t \in Kinds /\ k.n \in Nat
  BY DEF Toks
<1>. QED BY <1>1, <1>2

LEMMA ByteType == \A b \in Bytes : b \in Kinds /\ Byte(b) \in Toks
  BY TokenType DEF Byte, Bytes, Kinds

\* A reply is a sequence of tokens.
LEMMA TokensType == ASSUME NEW r \in Replies PROVE Tokens(r) \in Seq(Toks)
<1>1. /\ r.code \in Nat /\ r.chunks \in Seq(Seq(Bytes)) /\ Len(r.chunks) \in Nat
      /\ Len(r.chunks) <= 2 /\ r.framing \in {"length", "chunked", "none"}
  BY HttpAssumption DEF HttpAssumption, Reply
<1>2. ASSUME NEW s \in Seq(Bytes) PROVE Raw(s) \in Seq(Toks)
  <2>1. Len(s) \in Nat /\ \A i \in 1..Len(s) : Byte(s[i]) \in Toks
    BY ByteType, ElementOfSeq, LenProperties
  <2>. QED BY <2>1 DEF Raw
<1>3. CrLf \in Seq(Toks)
  <2>1. Byte("cr") \in Toks /\ Byte("lf") \in Toks
    BY ByteType DEF Bytes
  <2>. QED BY <2>1 DEF CrLf
<1>4. Content(r) \in Seq(Bytes)
  <2>1. CASE r.chunks = <<>>
    BY <2>1 DEF Content
  <2>2. CASE r.chunks # <<>> /\ Len(r.chunks) = 1
    BY <1>1, <2>2 DEF Content
  <2>3. CASE r.chunks # <<>> /\ Len(r.chunks) # 1
    <3>1. Len(r.chunks) = 2
      <4>1. Len(r.chunks) \in Nat \ {0}
        BY <1>1, <2>3, EmptySeq
      <4>2. \A n \in Nat : n # 0 /\ n # 1 /\ n <= 2 => n = 2
        OBVIOUS
      <4>3. Len(r.chunks) # 0 /\ Len(r.chunks) # 1
        BY <2>3, <4>1
      <4>. QED BY <1>1, <4>2, <4>3, Zenon
    <3>2. r.chunks[1] \in Seq(Bytes) /\ r.chunks[2] \in Seq(Bytes)
      BY <1>1, <3>1, ElementOfSeq
    <3>. QED BY <2>3, <3>2, ConcatProperties DEF Content
  <2>. QED BY <2>1, <2>2, <2>3
<1>5. ASSUME NEW s \in Seq(Bytes) PROVE Chunk(s) \in Seq(Toks)
  <2>1. <<Token("size", Len(s))>> \in Seq(Toks)
    BY TokenType, LenProperties DEF Kinds
  <2>. QED BY <1>2, <1>3, <2>1, ConcatProperties DEF Chunk
<1>6. ChunkedBody(r) \in Seq(Toks)
  <2>1. <<Token("size", 0)>> \in Seq(Toks)
    BY TokenType DEF Kinds
  <2>2. Len(r.chunks) >= 1 => Chunk(r.chunks[1]) \in Seq(Toks)
    BY <1>1, <1>5, ElementOfSeq
  <2>3. Len(r.chunks) >= 2 => Chunk(r.chunks[2]) \in Seq(Toks)
    BY <1>1, <1>5, ElementOfSeq
  <2>4. (IF Len(r.chunks) >= 1 THEN Chunk(r.chunks[1]) ELSE <<>>) \in Seq(Toks)
    BY <2>2
  <2>5. (IF Len(r.chunks) >= 2 THEN Chunk(r.chunks[2]) ELSE <<>>) \in Seq(Toks)
    BY <2>3
  <2>. QED BY <1>3, <2>1, <2>4, <2>5, ConcatProperties DEF ChunkedBody
<1>7. /\ <<Token("status", r.code)>> \in Seq(Toks)
      /\ <<Token("length", Len(Content(r)))>> \in Seq(Toks)
      /\ <<Token("chunked", 0)>> \in Seq(Toks)
  BY <1>1, <1>4, TokenType, LenProperties DEF Kinds
<1>8. (IF r.code = 0 THEN <<>> ELSE <<Token("status", r.code)>> \o CrLf) \in Seq(Toks)
  BY <1>3, <1>7, ConcatProperties
<1>9. CASE r.framing = "length"
  BY <1>2, <1>3, <1>4, <1>7, <1>8, <1>9, ConcatProperties DEF Tokens
<1>10. CASE r.framing = "none"
  BY <1>2, <1>3, <1>4, <1>8, <1>10, ConcatProperties DEF Tokens
<1>11. CASE r.framing = "chunked"
  BY <1>3, <1>6, <1>7, <1>8, <1>11, ConcatProperties DEF Tokens
<1>. QED BY <1>1, <1>9, <1>10, <1>11

LEMMA HttpInitType == ASSUME Init PROVE TypeOK
<1>1. body \in Body
  BY DEF Init, Locals, Body
<1>2. returned \in [Requests -> [ret: Int, msg: Seq(Kinds \cup {"nul"})]]
  BY DEF Init, Pending
<1>3. answer \in Seq(Kinds) /\ Len(answer) < MaxBuffer
  BY HttpConstants, EmptySeq DEF Init
<1>4. /\ req \in 0..MaxRequests /\ sendid \in 0..req /\ recvid \in Nat
      /\ spurious \in 0..MaxRequests /\ pos \in Nat
      /\ retcode \in Int /\ rc \in Int
  BY HttpConstants DEF Init, ParsingHeader
<1>5. line \in Seq(Toks) /\ wire \in Seq(Toks) /\ msg \in Seq(Kinds \cup {"nul"})
      /\ replied \in Seq(Reply)
  BY DEF Init
<1>. QED BY <1>1, <1>2, <1>3, <1>4, <1>5 DEF Init, TypeOK

\* What is copied are bytes of the answer and perhaps a NUL.
LEMMA CopiedType ==
  ASSUME NEW text \in Seq(Kinds), NEW size \in Nat
  PROVE  Copied(text, size) \in Seq(Kinds \cup {"nul"})
<1>1. text \in Seq(Kinds \cup {"nul"})
  OBVIOUS
<1>2. CASE size < Len(text)
  <2>1. \A i \in 1..size : text[i] \in Kinds \cup {"nul"}
    BY <1>1, <1>2, ElementOfSeq, LenProperties
  <2>. QED BY <1>1, <1>2, <2>1, SubSeqProperties, LenProperties DEF Copied
<1>3. CASE ~(size < Len(text))
  BY <1>1, <1>3, AppendProperties DEF Copied
<1>. QED BY <1>2, <1>3

LEMMA ClientKeepsType == ASSUME TypeOK, Client PROVE TypeOK'
<1>. USE HttpConstants DEF TypeOK
<1>1. CASE Perform
  <2>1. /\ req' \in 0..MaxRequests /\ req' = req + 1 /\ req + 1 \in Requests
        /\ sendid' \in {sendid, sendid + 1} /\ sendid' \in 0..req'
    <3>1. /\ req' = req + 1 /\ req < MaxRequests
          /\ sendid' = sendid \/ sendid' = sendid + 1
      BY <1>1 DEF Perform
    <3>2. req \in Nat /\ sendid \in 0..req
      OBVIOUS
    <3>. QED BY <3>1, <3>2 DEF Requests
  <2>2. returned' \in [Requests -> [ret: Int, msg: Seq(Kinds \cup {"nul"})]]
    <3>1. Failed \in [ret: Int, msg: Seq(Kinds \cup {"nul"})]
      BY DEF Failed
    <3>. QED BY <1>1, <2>1, <3>1 DEF Perform
  <2>3. UNCHANGED <<receiverVars, serverVars, handleVars, msg, spurious>>
        /\ cpc' \in {"lock", "idle"}
    BY <1>1 DEF Perform
  <2>4. req' > 0
    BY <2>1
  <2>. QED BY <2>1, <2>2, <2>3, <2>4, SMTT(30) DEF receiverVars, serverVars, handleVars
<1>2. CASE Waiting
  <2>1. CASE Return
    <3>1. [ret |-> retcode, msg |-> msg] \in [ret: Int, msg: Seq(Kinds \cup {"nul"})]
      OBVIOUS
    <3>2. returned' \in [Requests -> [ret: Int, msg: Seq(Kinds \cup {"nul"})]]
      BY <2>1, <3>1 DEF Return
    <3>. QED BY <2>1, <3>2 DEF Return, receiverVars, serverVars, handleVars
  <2>2. CASE Copy
    <3>1. Room[req] \in Nat
      BY <2>2, HttpAssumption DEF Copy
    <3>2. msg' \in Seq(Kinds \cup {"nul"})
      BY <2>2, <3>1, CopiedType DEF Copy
    <3>. QED BY <2>2, <3>2 DEF Copy, receiverVars, serverVars, handleVars
  <2>3. CASE Test
    BY <2>3 DEF Test, receiverVars, serverVars
  <2>4. ASSUME NEW from \in {"lock", "woken", "lock2"},
               NEW to \in {"test", "unlock", "copy"},
               ClientLock(from, to)
        PROVE  TypeOK'
    <3>1. req > 0
      BY <2>4 DEF ClientLock
    <3>. QED BY <2>4, <3>1 DEF ClientLock, receiverVars, serverVars
  <2>5. ASSUME NEW from \in {"unlock", "unlock2"}, NEW to \in {"lock2", "return"},
               ClientUnlock(from, to)
        PROVE  TypeOK'
    <3>1. req > 0
      BY <2>5 DEF ClientUnlock
    <3>. QED BY <2>5, <3>1 DEF ClientUnlock, receiverVars, serverVars
  <2>. QED BY <1>2, <2>1, <2>2, <2>3, <2>4, <2>5 DEF Waiting
<1>3. CASE WakeUp
  BY <1>3 DEF WakeUp, receiverVars, serverVars, handleVars
<1>4. CASE Destroy
  BY <1>4 DEF Destroy, clientVars, receiverVars, serverVars
<1>5. CASE Free
  BY <1>5 DEF Free, clientVars, receiverVars, serverVars
<1>. QED BY <1>1, <1>2, <1>3, <1>4, <1>5 DEF Client

\* What is read is a token of the stream.
LEMMA NextToken ==
  ASSUME TypeOK, CanRead
  PROVE  /\ wire[pos + 1] \in Toks
         /\ wire[pos + 1].t \in Kinds /\ wire[pos + 1].n \in Nat
<1>1. pos + 1 \in 1..Len(wire)
  BY LenProperties DEF TypeOK, CanRead
<1>. QED BY <1>1, ElementOfSeq, TokenType DEF TypeOK

LEMMA ChunkSizeType ==
  ASSUME NEW enc \in Seq(Toks) PROVE ChunkSize(enc) \in Nat
<1>. DEFINE first == {i \in 1..(Len(enc) - 1) :
               enc[i].t # "cr" /\ \A j \in 1..(i - 1) : enc[j].t = "cr"}
<1>1. \A i \in first : enc[i].n \in Nat
  <2>. SUFFICES ASSUME NEW i \in first PROVE enc[i].n \in Nat
    OBVIOUS
  <2>1. i \in 1..Len(enc)
    BY LenProperties
  <2>. QED BY <2>1, ElementOfSeq, TokenType
<1>2. first # {} => (CHOOSE i \in first : TRUE) \in first
  OBVIOUS
<1>. HIDE DEF first
<1>3. CASE \E i \in first : enc[i].t = "size"
  BY <1>1, <1>2, <1>3 DEF ChunkSize, first
<1>4. CASE ~ \E i \in first : enc[i].t = "size"
  BY <1>4 DEF ChunkSize, first
<1>. QED BY <1>3, <1>4

\* The buffer of the answer is never overrun: its last byte is left for NUL.
LEMMA ReadBodyType == ASSUME TypeOK, ReadBody PROVE TypeOK'
<1>. DEFINE k == wire[pos + 1]
<1>1. k \in Toks /\ k.t \in Kinds
  BY NextToken DEF ReadBody
<1>2. answer' \in Seq(Kinds) /\ Len(answer') < MaxBuffer
  <2>1. ASSUME Len(answer) < MaxBuffer - 1
        PROVE  Append(answer, k.t) \in Seq(Kinds) /\ Len(Append(answer, k.t)) < MaxBuffer
    BY <1>1, <2>1, AppendProperties, HttpConstants DEF TypeOK
  <2>2. answer' \in {answer, Append(answer, k.t)}
        /\ (answer' # answer => Len(answer) < MaxBuffer - 1)
    BY DEF ReadBody, DropByte, CopyByte, SizeByte
  <2>. QED BY <2>1, <2>2 DEF TypeOK
<1>3. rpc' \in {"body", "unlock"}
  BY DEF ReadBody, DropByte, CopyByte, SizeByte
<1>4. body' \in Body
  <2>1. CASE body' = body
    BY <2>1 DEF TypeOK
  <2>2. CASE DropByte
    BY <2>2 DEF DropByte, TypeOK, Body
  <2>3. CASE body.copy > 0 /\ CopyByte(k)
    <3>1. body.copy \in Nat /\ body.copy - 1 \in Nat
      BY <2>3 DEF TypeOK, Body
    <3>2. [body EXCEPT !.copy = @ - 1] \in Body
      BY <3>1 DEF TypeOK, Body
    <3>3. [body EXCEPT !.copy = @ - 1, !.fterm = TRUE] \in Body
      BY <3>1 DEF TypeOK, Body
    <3>. QED BY <2>3, <3>2, <3>3 DEF CopyByte
  <2>4. CASE SizeByte(k)
    <3>1. ChunkSize(body.enc) \in Nat /\ body.enc \in Seq(Toks)
      BY ChunkSizeType DEF TypeOK, Body
    <3>2. Append(body.enc, k) \in Seq(Toks)
      BY <1>1, <3>1, AppendProperties
    <3>3. [body EXCEPT !.fblank = TRUE] \in Body
      BY DEF TypeOK, Body
    <3>4. [body EXCEPT !.enc = Append(@, k)] \in Body
      BY <3>2 DEF TypeOK, Body
    <3>5. \A n \in Nat, b \in BOOLEAN :
            [body EXCEPT !.copy = n, !.enc = <<>>, !.fblank = b] \in Body
      BY EmptySeq DEF TypeOK, Body
    <3>6. (ChunkSize(body.enc) = 0) \in BOOLEAN
      OBVIOUS
    <3>. QED BY <2>4, <3>1, <3>3, <3>4, <3>5, <3>6 DEF SizeByte, TypeOK
  <2>. QED BY <2>1, <2>2, <2>3, <2>4 DEF ReadBody
<1>5. /\ last' = k.t /\ pos' = pos + 1
      /\ UNCHANGED <<recvid, retcode, rc, line, framed, clientVars, serverVars, handleVars>>
  BY DEF ReadBody
<1>. QED BY <1>1, <1>2, <1>3, <1>4, <1>5
         DEF TypeOK, clientVars, serverVars, handleVars

LEMMA ReadHeaderType == ASSUME TypeOK, ReadHeader PROVE TypeOK'
<1>. DEFINE k == wire[pos + 1]
<1>1. k \in Toks /\ k.t \in Kinds
  BY NextToken DEF ReadHeader
<1>2. line' \in Seq(Toks) /\ (rpc' = "header" /\ last' = "cr" => line' # <<>>)
  <2>1. /\ Append(line, k) \in Seq(Toks)
        /\ Len(Append(line, k)) = Len(line) + 1 /\ Len(line) \in Nat
    BY <1>1, AppendProperties, LenProperties DEF TypeOK
  <2>2. Append(line, k) # <<>>
    BY <2>1, EmptySeq
  <2>3. Term(k) => k.t # "cr"
    BY DEF Term
  <2>4. CASE Term(k)
    <3>1. last' # "cr" /\ line' \in {line, <<>>}
      BY <2>3, <2>4 DEF ReadHeader
    <3>. QED BY <3>1, EmptySeq DEF TypeOK
  <2>5. CASE ~Term(k)
    BY <2>1, <2>2, <2>5 DEF ReadHeader
  <2>. QED BY <2>4, <2>5
<1>3. rpc' \in {"header", "lock", "unlock"}
  BY DEF ReadHeader, HeaderEnds
<1>4. rc' \in Int /\ body' \in Body
  <2>1. CASE UNCHANGED <<rc, body>>
    BY <2>1 DEF TypeOK
  <2>2. CASE line # <<>> /\ HeaderLine(Head(line))
    <3>1. Head(line) \in Toks /\ Head(line).n \in Nat
      BY <2>2, HeadTailProperties, TokenType DEF TypeOK
    <3>2. \A n, c \in Nat : [body EXCEPT !.size = n, !.copy = c] \in Body
      BY DEF TypeOK, Body
    <3>3. [body EXCEPT !.chunked = TRUE, !.copy = 0] \in Body
      BY DEF TypeOK, Body
    <3>4. CASE Head(line).t = "length"
      <4>1. (IF body.chunked THEN 0 ELSE Head(line).n) \in Nat
        BY <3>1
      <4>. QED BY <2>2, <3>1, <3>2, <3>4, <4>1 DEF HeaderLine, TypeOK
    <3>5. CASE Head(line).t = "chunked"
      BY <2>2, <3>3, <3>5 DEF HeaderLine, TypeOK
    <3>6. CASE Head(line).t \notin {"length", "chunked"}
      BY <2>2, <3>1, <3>6 DEF HeaderLine, TypeOK
    <3>. QED BY <3>4, <3>5, <3>6
  <2>3. \/ UNCHANGED <<rc, body>>
        \/ line # <<>> /\ HeaderLine(Head(line))
    BY DEF ReadHeader, Term, TypeOK
  <2>. QED BY <2>1, <2>2, <2>3
<1>5. /\ last' = k.t /\ pos' = pos + 1
      /\ UNCHANGED <<recvid, answer, retcode, framed, clientVars, serverVars, handleVars>>
  BY DEF ReadHeader
<1>. QED BY <1>1, <1>2, <1>3, <1>4, <1>5
         DEF TypeOK, clientVars, serverVars, handleVars

LEMMA ReceiverKeepsType == ASSUME TypeOK, Receiver PROVE TypeOK'
<1>1. CASE Loop
  <2>1. body' \in Body /\ line' \in Seq(Toks) /\ rc' \in Int
    BY <1>1 DEF Loop, Locals, Body, ParsingHeader
  <2>. QED BY <1>1, <2>1 DEF Loop, TypeOK, clientVars, serverVars, handleVars
<1>2. CASE Cancelled \/ HeaderEof \/ BodyEof \/ Publish
  BY <1>2 DEF Cancelled, HeaderEof, HeaderEnds, BodyEof, Publish, TypeOK,
              clientVars, serverVars, handleVars
<1>3. CASE Lock
  <2>1. recvid' \in Nat /\ answer' \in Seq(Kinds) /\ Len(answer') < MaxBuffer
    BY <1>3, HttpConstants DEF Lock, TypeOK
  <2>. QED BY <1>3, <2>1 DEF Lock, TypeOK, clientVars, serverVars
<1>4. CASE Unlock
  BY <1>4 DEF Unlock, TypeOK, clientVars, serverVars
<1>5. CASE Signal
  BY <1>5 DEF Signal, TypeOK, serverVars, handleVars
<1>. QED BY <1>1, <1>2, <1>3, <1>4, <1>5, ReadHeaderType, ReadBodyType DEF Receiver

LEMMA ServerKeepsType == ASSUME TypeOK, Server PROVE TypeOK'
<1>1. CASE Answer
  <2>1. PICK r \in Replies :
          /\ replied' = Append(replied, r)
          /\ \/ wire' = wire \o Tokens(r) /\ UNCHANGED eof
             \/ /\ \E n \in 0..(Len(Tokens(r)) - 1) :
                     wire' = wire \o SubSeq(Tokens(r), 1, n)
                /\ eof' = TRUE
    BY <1>1 DEF Answer
  <2>2. Tokens(r) \in Seq(Toks) /\ r \in Reply
    BY TokensType, HttpConstants
  <2>3. ASSUME NEW n \in 0..(Len(Tokens(r)) - 1)
        PROVE  SubSeq(Tokens(r), 1, n) \in Seq(Toks)
    BY <2>2, SubSeqProperties
  <2>4. wire' \in Seq(Toks) /\ eof' \in BOOLEAN
    <3>1. CASE wire' = wire \o Tokens(r) /\ UNCHANGED eof
      BY <2>2, <3>1, ConcatProperties DEF TypeOK
    <3>2. CASE eof' = TRUE /\ \E n \in 0..(Len(Tokens(r)) - 1) :
                 wire' = wire \o SubSeq(Tokens(r), 1, n)
      <4>1. PICK n \in 0..(Len(Tokens(r)) - 1) :
              wire' = wire \o SubSeq(Tokens(r), 1, n)
        BY <3>2
      <4>. QED BY <2>3, <3>2, <4>1, ConcatProperties DEF TypeOK
    <3>. QED BY <2>1, <3>1, <3>2
  <2>5. replied' \in Seq(Reply)
    BY <2>1, <2>2, AppendProperties DEF TypeOK
  <2>. QED BY <1>1, <2>4, <2>5
           DEF Answer, TypeOK, clientVars, receiverVars, handleVars
<1>2. CASE CloseEnd
  BY <1>2 DEF CloseEnd, TypeOK, clientVars, receiverVars, handleVars
<1>. QED BY <1>1, <1>2 DEF Server

-----------------------------------------------------------------------------
(* The stream: what the tokens of a reply are.                             *)

\* What two sequences joined hold.
LEMMA JoinedAt ==
  ASSUME NEW S, NEW s \in Seq(S), NEW t \in Seq(S)
  PROVE  /\ s \o t \in Seq(S) /\ Len(s \o t) = Len(s) + Len(t)
         /\ \A i \in 1..Len(s) : (s \o t)[i] = s[i]
         /\ \A i \in 1..Len(t) : (s \o t)[Len(s) + i] = t[i]
<1>1. s \o t \in Seq(S) /\ Len(s \o t) = Len(s) + Len(t) /\ Len(s) \in Nat /\ Len(t) \in Nat
  BY ConcatProperties, LenProperties
<1>2. \A i \in 1..(Len(s) + Len(t)) : (s \o t)[i] = IF i <= Len(s) THEN s[i] ELSE t[i - Len(s)]
  BY ConcatProperties
<1>3. ASSUME NEW i \in 1..Len(t) PROVE (s \o t)[Len(s) + i] = t[i]
  <2>1. Len(s) + i \in 1..(Len(s) + Len(t)) /\ ~(Len(s) + i <= Len(s)) /\ (Len(s) + i) - Len(s) = i
    BY <1>1
  <2>. QED BY <1>2, <2>1
<1>. QED BY <1>1, <1>2, <1>3

LEMMA ReplyShape ==
  ASSUME NEW r \in Replies
  PROVE  /\ r.code \in Nat /\ r.framing \in {"length", "chunked", "none"}
         /\ Len(r.chunks) \in 0..2 /\ \A j \in 1..Len(r.chunks) : r.chunks[j] \in Seq(Bytes)
         /\ Len(r.chunks) = 0 => r.chunks = <<>>
         /\ r.chunks \in Seq(Seq(Bytes))
<1>1. /\ r.code \in Nat /\ r.framing \in {"length", "chunked", "none"}
      /\ r.chunks \in Seq(Seq(Bytes)) /\ Len(r.chunks) <= 2
  BY HttpAssumption DEF HttpAssumption, Reply
<1>2. Len(r.chunks) \in Nat /\ (Len(r.chunks) = 0 => r.chunks = <<>>)
  BY <1>1, LenProperties, EmptySeq
<1>3. \A j \in 1..Len(r.chunks) : r.chunks[j] \in Seq(Bytes)
  BY <1>1, ElementOfSeq
<1>4. \A n \in Nat : n <= 2 => n \in 0..2
  OBVIOUS
<1>. QED BY <1>1, <1>2, <1>3, <1>4

\* The content, chunk by chunk.
LEMMA ContentShape ==
  ASSUME NEW r \in Replies
  PROVE  /\ Content(r) \in Seq(Bytes) /\ Len(Content(r)) \in Nat
         /\ \A j \in 1..(Len(r.chunks) + 1) :
              /\ Parts(r)[j] \in Seq(Bytes) /\ Len(Parts(r)[j]) \in Nat
              /\ Before(r, j) \in Nat /\ Before(r, j) + Len(Parts(r)[j]) <= Len(Content(r))
              /\ \A i \in 1..Len(Parts(r)[j]) : Content(r)[Before(r, j) + i] = Parts(r)[j][i]
         /\ \A j \in 1..Len(r.chunks) :
              Parts(r)[j] = r.chunks[j] /\ Before(r, j + 1) = Before(r, j) + Len(Parts(r)[j])
         /\ Parts(r)[Len(r.chunks) + 1] = <<>> /\ Before(r, Len(r.chunks) + 1) = Len(Content(r))
<1>. DEFINE c == r.chunks
            C == Content(r)
<1>1. /\ Len(c) \in 0..2 /\ \A j \in 1..Len(c) : c[j] \in Seq(Bytes) /\ Len(c[j]) \in Nat
      /\ Len(c) = 0 => c = <<>>
      /\ c \in Seq(Seq(Bytes))
  BY ReplyShape, LenProperties
<1>2. /\ \A j \in 1..Len(c) : Parts(r)[j] = c[j]
      /\ Parts(r)[Len(c) + 1] = <<>>
  <2>1. <<>> \in Seq(Bytes)
    BY EmptySeq
  <2>. QED BY <1>1, <2>1, AppendProperties DEF Parts
<1>3. Len(<<>>) = 0 /\ <<>> \in Seq(Bytes)
  BY EmptySeq
<1>. DEFINE Piece(j) ==
              /\ Parts(r)[j] \in Seq(Bytes) /\ Len(Parts(r)[j]) \in Nat
              /\ Before(r, j) \in Nat /\ Before(r, j) + Len(Parts(r)[j]) <= Len(C)
              /\ \A i \in 1..Len(Parts(r)[j]) : C[Before(r, j) + i] = Parts(r)[j][i]
            Follows(j) == Before(r, j + 1) = Before(r, j) + Len(Parts(r)[j])
<1>4. CASE Len(c) = 0
  <2>1. C = <<>> /\ Before(r, 1) = 0 /\ Parts(r)[1] = <<>>
    BY <1>1, <1>2, <1>4 DEF Content, Before
  <2>2. Piece(1)
    BY <1>3, <2>1
  <2>3. \A j \in 1..(Len(c) + 1) : j = 1
    BY <1>4
  <2>4. \A j \in 1..Len(c) : FALSE
    BY <1>4
  <2>5. Before(r, Len(c) + 1) = Len(C) /\ C \in Seq(Bytes) /\ Len(C) \in Nat
    BY <1>3, <1>4, <2>1
  <2>. HIDE DEF Piece, Follows, C
  <2>. QED BY <1>2, <2>2, <2>3, <2>4, <2>5 DEF Piece, C
<1>5. CASE Len(c) = 1
  <2>1. c # <<>> /\ C = c[1] /\ Before(r, 1) = 0 /\ Before(r, 2) = Len(c[1])
    BY <1>1, <1>3, <1>5 DEF Content, Before
  <2>2. Parts(r)[1] = c[1] /\ Parts(r)[2] = <<>> /\ c[1] \in Seq(Bytes) /\ Len(c[1]) \in Nat
    BY <1>1, <1>2, <1>5
  <2>3. Piece(1) /\ Piece(2) /\ Follows(1)
    <3>. DEFINE x == c[1]
    <3>1. /\ C = x /\ Before(r, 1) = 0 /\ Before(r, 1 + 1) = Len(x) /\ Before(r, 2) = Len(x)
          /\ Parts(r)[1] = x /\ Parts(r)[2] = <<>> /\ x \in Seq(Bytes) /\ Len(x) \in Nat
      BY <2>1, <2>2
    <3>. HIDE DEF x, C, c
    <3>. QED BY <1>3, <3>1
  <2>4. \A j \in 1..(Len(c) + 1) : j = 1 \/ j = 2
    BY <1>5
  <2>5. \A j \in 1..Len(c) : j = 1
    BY <1>5
  <2>6. Before(r, Len(c) + 1) = Len(C) /\ C \in Seq(Bytes) /\ Len(C) \in Nat
    BY <1>3, <1>5, <2>1, <2>2
  <2>. HIDE DEF Piece, Follows, C
  <2>. QED BY <1>2, <2>3, <2>4, <2>5, <2>6 DEF Piece, Follows, C
<1>6. CASE Len(c) = 2
  <2>. DEFINE x == c[1]
              y == c[2]
  <2>0. c # <<>>
    BY <1>3, <1>6
  <2>1. C = x \o y
    <3>1. Len(c) # 1
      BY <1>6
    <3>. QED BY <2>0, <3>1, Zenon DEF Content
  <2>2. /\ Parts(r)[1] = x /\ Parts(r)[2] = y /\ Parts(r)[3] = <<>>
        /\ x \in Seq(Bytes) /\ Len(x) \in Nat /\ y \in Seq(Bytes) /\ Len(y) \in Nat
    BY <1>1, <1>2, <1>6
  <2>3. Before(r, 1) = 0 /\ Before(r, 2) = Len(x) /\ Before(r, 3) = Len(C)
    BY DEF Before
  <2>4. /\ C \in Seq(Bytes) /\ Len(C) = Len(x) + Len(y)
        /\ \A i \in 1..Len(x) : C[i] = x[i]
        /\ \A i \in 1..Len(y) : C[Len(x) + i] = y[i]
    <3>. HIDE DEF x, y, C
    <3>. QED BY <2>1, <2>2, JoinedAt
  <2>5. Piece(1) /\ Piece(2) /\ Piece(3) /\ Follows(1) /\ Follows(2)
    <3>1. Before(r, 1 + 1) = Len(x) /\ Before(r, 2 + 1) = Len(C)
      BY <2>3
    <3>. HIDE DEF x, y, C
    <3>5. 0 + Len(x) <= Len(C) /\ Len(x) + Len(y) <= Len(C) /\ \A i \in 1..Len(x) : 0 + i = i
      BY <2>2, <2>4
    <3>2. Piece(1)
      BY <2>2, <2>3, <2>4, <3>5
    <3>3. Piece(2)
      BY <2>2, <2>3, <2>4, <3>5
    <3>4. Piece(3)
      BY <1>3, <2>2, <2>3, <2>4
    <3>. QED BY <2>2, <2>3, <2>4, <3>1, <3>2, <3>3, <3>4
  <2>6. \A j \in 1..(Len(c) + 1) : j = 1 \/ j = 2 \/ j = 3
    BY <1>6
  <2>7. \A j \in 1..Len(c) : j = 1 \/ j = 2
    BY <1>6
  <2>8. Before(r, Len(c) + 1) = Len(C) /\ C \in Seq(Bytes) /\ Len(C) \in Nat
    <3>1. Len(c) + 1 = 3
      BY <1>6
    <3>. HIDE DEF C, x, y, c
    <3>2. Len(x) + Len(y) \in Nat
      BY <2>2
    <3>. QED BY <2>3, <2>4, <3>1, <3>2
  <2>. HIDE DEF Piece, Follows, C
  <2>. QED BY <1>2, <2>5, <2>6, <2>7, <2>8 DEF Piece, Follows, C
<1>. QED BY <1>1, <1>4, <1>5, <1>6

\* The bytes of a sequence as tokens.
LEMMA RawShape ==
  ASSUME NEW s \in Seq(Bytes)
  PROVE  /\ Raw(s) \in Seq(Toks) /\ Len(Raw(s)) = Len(s) /\ Len(s) \in Nat
         /\ \A i \in 1..Len(s) : Raw(s)[i] = Byte(s[i]) /\ s[i] \in Bytes
<1>1. Len(s) \in Nat /\ \A i \in 1..Len(s) : s[i] \in Bytes /\ Byte(s[i]) \in Toks
  BY ByteType, ElementOfSeq, LenProperties
<1>. QED BY <1>1 DEF Raw

LEMMA CrLfShape ==
  CrLf \in Seq(Toks) /\ Len(CrLf) = 2 /\ CrLf[1] = Byte("cr") /\ CrLf[2] = Byte("lf")
<1>1. Byte("cr") \in Toks /\ Byte("lf") \in Toks
  BY ByteType DEF Bytes
<1>. QED BY <1>1 DEF CrLf

\* A line end behind a sequence.
LEMMA LineEnd ==
  ASSUME NEW u \in Seq(Toks)
  PROVE  /\ u \o CrLf \in Seq(Toks) /\ Len(u \o CrLf) = Len(u) + 2 /\ Len(u) \in Nat
         /\ \A i \in 1..Len(u) : (u \o CrLf)[i] = u[i]
         /\ (u \o CrLf)[Len(u) + 1] = Byte("cr") /\ (u \o CrLf)[Len(u) + 2] = Byte("lf")
<1>1. CrLf \in Seq(Toks) /\ Len(CrLf) = 2 /\ 1 \in 1..2 /\ 2 \in 1..2
  BY CrLfShape
<1>2. /\ u \o CrLf \in Seq(Toks) /\ Len(u \o CrLf) = Len(u) + Len(CrLf)
      /\ \A i \in 1..Len(u) : (u \o CrLf)[i] = u[i]
      /\ \A i \in 1..Len(CrLf) : (u \o CrLf)[Len(u) + i] = CrLf[i]
  BY <1>1, JoinedAt
<1>. QED BY <1>1, <1>2, CrLfShape, LenProperties

\* A line of one token.
LEMMA LineShape ==
  ASSUME NEW k \in Toks
  PROVE  /\ <<k>> \o CrLf \in Seq(Toks) /\ Len(<<k>> \o CrLf) = 3
         /\ (<<k>> \o CrLf)[1] = k /\ (<<k>> \o CrLf)[2] = Byte("cr") /\ (<<k>> \o CrLf)[3] = Byte("lf")
<1>1. <<k>> \in Seq(Toks) /\ Len(<<k>>) = 1 /\ <<k>>[1] = k
  OBVIOUS
<1>2. 1 \in 1..1 /\ 1 \in 1..2 /\ 2 \in 1..2 /\ 1 + 1 = 2 /\ 1 + 2 = 3
  OBVIOUS
<1>. QED BY <1>1, <1>2, LineEnd

\* A chunk: its size line, its bytes, their line end.
LEMMA ChunkShape ==
  ASSUME NEW s \in Seq(Bytes)
  PROVE  /\ Chunk(s) \in Seq(Toks) /\ Len(Chunk(s)) = Len(s) + 5 /\ Len(s) \in Nat
         /\ Chunk(s)[1] = Token("size", Len(s))
         /\ Chunk(s)[2] = Byte("cr") /\ Chunk(s)[3] = Byte("lf")
         /\ \A i \in 1..Len(s) : Chunk(s)[3 + i] = Byte(s[i]) /\ s[i] \in Bytes
         /\ Chunk(s)[Len(s) + 4] = Byte("cr") /\ Chunk(s)[Len(s) + 5] = Byte("lf")
<1>. DEFINE k == Token("size", Len(s))
            a == <<k>> \o CrLf
            b == a \o Raw(s)
<1>1. k \in Toks /\ Len(s) \in Nat
  BY LenProperties DEF Token, Toks, Kinds
<1>2. a \in Seq(Toks) /\ Len(a) = 3 /\ a[1] = k /\ a[2] = Byte("cr") /\ a[3] = Byte("lf")
  BY <1>1, LineShape
<1>3. /\ Raw(s) \in Seq(Toks) /\ Len(Raw(s)) = Len(s)
      /\ \A i \in 1..Len(s) : Raw(s)[i] = Byte(s[i]) /\ s[i] \in Bytes
  BY RawShape
<1>4. Chunk(s) = b \o CrLf
  BY <1>2, <1>3, CrLfShape DEF Chunk
<1>. HIDE DEF a
<1>5. /\ b \in Seq(Toks) /\ Len(b) = 3 + Len(s)
      /\ \A i \in 1..3 : b[i] = a[i]
      /\ \A i \in 1..Len(s) : b[3 + i] = Byte(s[i])
  <2>1. a \in Seq(Toks) /\ Raw(s) \in Seq(Toks)
    BY <1>2, <1>3
  <2>2. /\ b \in Seq(Toks) /\ Len(b) = Len(a) + Len(Raw(s))
        /\ \A i \in 1..Len(a) : b[i] = a[i]
        /\ \A i \in 1..Len(Raw(s)) : b[Len(a) + i] = Raw(s)[i]
    BY <2>1, JoinedAt
  <2>. QED BY <1>2, <1>3, <2>2
<1>. HIDE DEF b, k
<1>6. /\ b \o CrLf \in Seq(Toks) /\ Len(b \o CrLf) = (3 + Len(s)) + 2
      /\ \A i \in 1..(3 + Len(s)) : (b \o CrLf)[i] = b[i]
      /\ \A i \in 1..2 : (b \o CrLf)[(3 + Len(s)) + i] = CrLf[i]
  <2>1. b \in Seq(Toks) /\ CrLf \in Seq(Toks)
    BY <1>5, CrLfShape
  <2>2. /\ b \o CrLf \in Seq(Toks) /\ Len(b \o CrLf) = Len(b) + Len(CrLf)
        /\ \A i \in 1..Len(b) : (b \o CrLf)[i] = b[i]
        /\ \A i \in 1..Len(CrLf) : (b \o CrLf)[Len(b) + i] = CrLf[i]
    BY <2>1, JoinedAt
  <2>. QED BY <1>5, <2>2, CrLfShape
<1>7. /\ (3 + Len(s)) + 1 = Len(s) + 4 /\ (3 + Len(s)) + 2 = Len(s) + 5
      /\ \A i \in 1..3 : i \in 1..(3 + Len(s))
      /\ \A i \in 1..Len(s) : 3 + i \in 1..(3 + Len(s))
      /\ 1 \in 1..3 /\ 2 \in 1..3 /\ 3 \in 1..3 /\ 1 \in 1..2 /\ 2 \in 1..2
  BY <1>1
<1>8. Chunk(s)[Len(s) + 4] = Byte("cr") /\ Chunk(s)[Len(s) + 5] = Byte("lf")
  BY <1>4, <1>6, <1>7, CrLfShape
<1>9. \A i \in 1..Len(s) : Chunk(s)[3 + i] = Byte(s[i])
  BY <1>4, <1>5, <1>6, <1>7
<1>10. \A i \in 1..3 : Chunk(s)[i] = a[i]
  BY <1>4, <1>5, <1>6, <1>7
<1>. QED BY <1>1, <1>2, <1>3, <1>4, <1>6, <1>7, <1>8, <1>9, <1>10 DEF k

\* Where the chunks of a reply begin in its body.
LEMMA OffsetShape ==
  ASSUME NEW r \in Replies
  PROVE  /\ \A j \in 1..(Len(r.chunks) + 1) : Offset(r, j) \in Nat
         /\ Offset(r, 1) = 0
         /\ \A j \in 1..Len(r.chunks) : Offset(r, j + 1) = Offset(r, j) + Len(Parts(r)[j]) + 5
<1>1. Len(r.chunks) \in Nat
  BY ReplyShape
<1>2. ASSUME NEW j \in 1..(Len(r.chunks) + 1) PROVE Offset(r, j) \in Nat
  <2>1. Before(r, j) \in Nat /\ j \in Nat /\ j >= 1
    BY <1>1, ContentShape
  <2>. QED BY <2>1 DEF Offset
<1>3. ASSUME NEW j \in 1..Len(r.chunks)
      PROVE  Offset(r, j + 1) = Offset(r, j) + Len(Parts(r)[j]) + 5
  <2>1. j \in 1..(Len(r.chunks) + 1) /\ j \in Nat
    BY <1>1
  <2>2. Before(r, j) \in Nat /\ Before(r, j + 1) = Before(r, j) + Len(Parts(r)[j]) /\ Len(Parts(r)[j]) \in Nat
    BY <2>1, ContentShape
  <2>3. Offset(r, j) = Before(r, j) + 5 * (j - 1) /\ Offset(r, j + 1) = Before(r, j + 1) + 5 * ((j + 1) - 1)
    BY DEF Offset
  <2>. DEFINE b == Before(r, j)
              l == Len(Parts(r)[j])
  <2>4. b \in Nat /\ l \in Nat /\ Offset(r, j) = b + 5 * (j - 1) /\ Offset(r, j + 1) = (b + l) + 5 * ((j + 1) - 1)
    BY <2>2, <2>3
  <2>. HIDE DEF b, l
  <2>5. (b + l) + 5 * ((j + 1) - 1) = (b + 5 * (j - 1)) + l + 5
    BY <2>1, <2>4
  <2>. QED BY <2>4, <2>5 DEF l
<1>4. Offset(r, 1) = 0
  BY DEF Offset, Before
<1>. QED BY <1>2, <1>3, <1>4

\* The chunked body is one chunk behind the other.
LEMMA ChunkedShape ==
  ASSUME NEW r \in Replies
  PROVE  LET m == Len(r.chunks)
             B == ChunkedBody(r)
         IN  /\ B \in Seq(Toks) /\ Len(B) = Offset(r, m + 1) + 5
             /\ \A j \in 1..(m + 1) : \A i \in 1..(Len(Parts(r)[j]) + 5) :
                  B[Offset(r, j) + i] = Chunk(Parts(r)[j])[i]
<1>. DEFINE m == Len(r.chunks)
            B == ChunkedBody(r)
            P1 == IF m >= 1 THEN Chunk(r.chunks[1]) ELSE <<>>
            P2 == IF m >= 2 THEN Chunk(r.chunks[2]) ELSE <<>>
            P == P1 \o P2
            z == <<Token("size", 0)>>
<1>1. m \in 0..2 /\ \A j \in 1..m : r.chunks[j] \in Seq(Bytes)
  BY ReplyShape
<1>2. B = ((P \o z) \o CrLf) \o CrLf
  BY DEF ChunkedBody
<1>3. P1 \in Seq(Toks) /\ P2 \in Seq(Toks)
  <2>1. <<>> \in Seq(Toks)
    BY EmptySeq
  <2>2. m >= 1 => Chunk(r.chunks[1]) \in Seq(Toks)
    BY <1>1, ChunkShape
  <2>3. m >= 2 => Chunk(r.chunks[2]) \in Seq(Toks)
    BY <1>1, ChunkShape
  <2>. QED BY <2>1, <2>2, <2>3
<1>4. z \in Seq(Toks) /\ Len(z) = 1 /\ z[1] = Token("size", 0)
  <2>1. Token("size", 0) \in Toks
    BY DEF Token, Toks, Kinds
  <2>. QED BY <2>1
<1>. DEFINE Whole(j) == \A i \in 1..(Len(Parts(r)[j]) + 5) : P[Offset(r, j) + i] = Chunk(Parts(r)[j])[i]
<1>5. P \in Seq(Toks) /\ Len(P) = Offset(r, m + 1) /\ \A j \in 1..m : Whole(j)
  <2>0. /\ P \in Seq(Toks) /\ Len(P) = Len(P1) + Len(P2)
        /\ \A i \in 1..Len(P1) : P[i] = P1[i]
        /\ \A i \in 1..Len(P2) : P[Len(P1) + i] = P2[i]
        /\ Len(P1) \in Nat /\ Len(P2) \in Nat
    <3>. HIDE DEF P1, P2
    <3>. QED BY <1>3, JoinedAt, LenProperties
  <2>1. CASE m = 0
    <3>1. P1 = <<>> /\ P2 = <<>> /\ m + 1 = 1
      BY <2>1
    <3>2. Len(P1) = 0 /\ Len(P2) = 0
      BY <3>1, EmptySeq
    <3>3. \A j \in 1..m : FALSE
      BY <2>1
    <3>. HIDE DEF P, P1, P2, m
    <3>. QED BY <2>0, <3>1, <3>2, <3>3, OffsetShape
  <2>2. CASE m = 1
    <3>1. P1 = Chunk(r.chunks[1]) /\ P2 = <<>> /\ m + 1 = 2 /\ Parts(r)[1] = r.chunks[1] /\ r.chunks[1] \in Seq(Bytes)
      <4>1. 1 \in 1..m
        BY <2>2
      <4>2. P1 = Chunk(r.chunks[1]) /\ P2 = <<>> /\ m + 1 = 2
        BY <2>2
      <4>3. Parts(r)[1] = r.chunks[1] /\ r.chunks[1] \in Seq(Bytes)
        BY <1>1, <4>1, ContentShape
      <4>. QED BY <4>2, <4>3
    <3>2. Len(P1) = Len(Parts(r)[1]) + 5 /\ Len(P2) = 0 /\ Len(Parts(r)[1]) \in Nat
      BY <3>1, EmptySeq, ChunkShape
    <3>3. Offset(r, 1) = 0 /\ Offset(r, 1 + 1) = Offset(r, 1) + Len(Parts(r)[1]) + 5
      BY <2>2, OffsetShape
    <3>4. \A j \in 1..m : j = 1
      BY <2>2
    <3>. HIDE DEF P, P1, P2, m
    <3>5. Whole(1)
      <4>. SUFFICES ASSUME NEW i \in 1..(Len(Parts(r)[1]) + 5) PROVE P[Offset(r, 1) + i] = Chunk(Parts(r)[1])[i]
        OBVIOUS
      <4>1. 0 + i = i /\ i \in 1..Len(P1)
        BY <3>2
      <4>. QED BY <2>0, <3>1, <3>3, <4>1
    <3>6. Len(P) = Offset(r, m + 1)
      BY <2>0, <3>1, <3>2, <3>3
    <3>. HIDE DEF Whole
    <3>. QED BY <2>0, <3>4, <3>5, <3>6
  <2>3. CASE m = 2
    <3>1. /\ P1 = Chunk(r.chunks[1]) /\ P2 = Chunk(r.chunks[2]) /\ m + 1 = 3
          /\ Parts(r)[1] = r.chunks[1] /\ r.chunks[1] \in Seq(Bytes)
          /\ Parts(r)[2] = r.chunks[2] /\ r.chunks[2] \in Seq(Bytes)
      <4>1. 1 \in 1..m /\ 2 \in 1..m
        BY <2>3
      <4>2. P1 = Chunk(r.chunks[1]) /\ P2 = Chunk(r.chunks[2]) /\ m + 1 = 3
        BY <2>3
      <4>3. /\ Parts(r)[1] = r.chunks[1] /\ r.chunks[1] \in Seq(Bytes)
            /\ Parts(r)[2] = r.chunks[2] /\ r.chunks[2] \in Seq(Bytes)
        BY <1>1, <4>1, ContentShape
      <4>. QED BY <4>2, <4>3
    <3>2. /\ Len(P1) = Len(Parts(r)[1]) + 5 /\ Len(Parts(r)[1]) \in Nat
          /\ Len(P2) = Len(Parts(r)[2]) + 5 /\ Len(Parts(r)[2]) \in Nat
      BY <3>1, ChunkShape
    <3>3. /\ Offset(r, 1) = 0 /\ Offset(r, 1 + 1) = Offset(r, 1) + Len(Parts(r)[1]) + 5
          /\ Offset(r, 2 + 1) = Offset(r, 2) + Len(Parts(r)[2]) + 5
      <4>1. 1 \in 1..m /\ 2 \in 1..m
        BY <2>3
      <4>. QED BY <4>1, OffsetShape
    <3>4. \A j \in 1..m : j = 1 \/ j = 2
      BY <2>3
    <3>. HIDE DEF P, P1, P2, m
    <3>5. Whole(1)
      <4>. SUFFICES ASSUME NEW i \in 1..(Len(Parts(r)[1]) + 5) PROVE P[Offset(r, 1) + i] = Chunk(Parts(r)[1])[i]
        OBVIOUS
      <4>1. 0 + i = i /\ i \in 1..Len(P1)
        BY <3>2
      <4>. QED BY <2>0, <3>1, <3>3, <4>1
    <3>6. Whole(2)
      <4>. SUFFICES ASSUME NEW i \in 1..(Len(Parts(r)[2]) + 5) PROVE P[Offset(r, 2) + i] = Chunk(Parts(r)[2])[i]
        OBVIOUS
      <4>1. i \in 1..Len(P2) /\ Offset(r, 2) = Len(P1)
        BY <3>2, <3>3
      <4>. QED BY <2>0, <3>1, <4>1
    <3>7. Len(P) = Offset(r, m + 1)
      <4>1. Offset(r, m + 1) = (0 + Len(Parts(r)[1]) + 5) + Len(Parts(r)[2]) + 5
        <5>1. Offset(r, m + 1) = Offset(r, 2 + 1) /\ Offset(r, 2) = Offset(r, 1 + 1)
          BY <3>1
        <5>. QED BY <3>2, <3>3, <5>1
      <4>2. Len(P) = (Len(Parts(r)[1]) + 5) + (Len(Parts(r)[2]) + 5)
        BY <2>0, <3>2
      <4>3. \A x, y \in Nat : (x + 5) + (y + 5) = (0 + x + 5) + y + 5
        OBVIOUS
      <4>. QED BY <3>2, <4>1, <4>2, <4>3, Zenon
    <3>. HIDE DEF Whole
    <3>. QED BY <2>0, <3>4, <3>5, <3>6, <3>7
  <2>4. m = 0 \/ m = 1 \/ m = 2
    BY <1>1
  <2>. QED BY <2>1, <2>2, <2>3, <2>4
<1>. DEFINE o == Offset(r, m + 1)
<1>6. /\ Chunk(<<>>)[1] = Token("size", 0) /\ Chunk(<<>>)[2] = Byte("cr") /\ Chunk(<<>>)[3] = Byte("lf")
      /\ Chunk(<<>>)[4] = Byte("cr") /\ Chunk(<<>>)[5] = Byte("lf")
  <2>1. <<>> \in Seq(Bytes) /\ Len(<<>>) = 0 /\ 0 + 4 = 4 /\ 0 + 5 = 5
    BY EmptySeq
  <2>. QED BY <2>1, ChunkShape
<1>7. o \in Nat /\ m + 1 \in Nat
  BY <1>1, OffsetShape
<1>. HIDE DEF P, z
<1>8. /\ B \in Seq(Toks) /\ Len(B) = o + 5
      /\ \A i \in 1..o : B[i] = P[i]
      /\ \A i \in 1..5 : B[o + i] = Chunk(<<>>)[i]
  <2>1. /\ P \o z \in Seq(Toks) /\ Len(P \o z) = o + 1 /\ \A i \in 1..o : (P \o z)[i] = P[i]
        /\ (P \o z)[o + 1] = z[1]
    <3>. HIDE DEF o, m
    <3>1. P \in Seq(Toks) /\ Len(P) = o /\ 1 \in 1..1
      BY <1>5 DEF o
    <3>2. /\ P \o z \in Seq(Toks) /\ Len(P \o z) = Len(P) + Len(z)
          /\ \A i \in 1..Len(P) : (P \o z)[i] = P[i]
          /\ \A i \in 1..Len(z) : (P \o z)[Len(P) + i] = z[i]
      <4>1. P \in Seq(Toks) /\ z \in Seq(Toks)
        BY <1>4, <3>1
      <4>. QED BY <4>1, JoinedAt
    <3>. QED BY <1>4, <3>1, <3>2
  <2>. DEFINE u == P \o z
              v == u \o CrLf
  <2>. HIDE DEF u
  <2>2. /\ v \in Seq(Toks) /\ Len(v) = (o + 1) + 2 /\ \A i \in 1..(o + 1) : v[i] = u[i]
        /\ v[(o + 1) + 1] = Byte("cr") /\ v[(o + 1) + 2] = Byte("lf")
    <3>1. u \in Seq(Toks) /\ Len(u) = o + 1
      BY <2>1 DEF u
    <3>. HIDE DEF o, m
    <3>. QED BY <3>1, LineEnd
  <2>. HIDE DEF v
  <2>3. /\ v \o CrLf \in Seq(Toks) /\ Len(v \o CrLf) = ((o + 1) + 2) + 2
        /\ \A i \in 1..((o + 1) + 2) : (v \o CrLf)[i] = v[i]
        /\ (v \o CrLf)[((o + 1) + 2) + 1] = Byte("cr") /\ (v \o CrLf)[((o + 1) + 2) + 2] = Byte("lf")
    <3>1. v \in Seq(Toks) /\ Len(v) = (o + 1) + 2
      BY <2>2
    <3>. HIDE DEF o, m
    <3>. QED BY <3>1, LineEnd
  <2>4. B = v \o CrLf
    BY <1>2 DEF u, v
  <2>5. /\ (o + 1) + 1 = o + 2 /\ (o + 1) + 2 = o + 3 /\ ((o + 1) + 2) + 1 = o + 4 /\ ((o + 1) + 2) + 2 = o + 5
        /\ \A i \in 1..o : i \in 1..(o + 1) /\ i \in 1..(o + 3)
        /\ o + 1 \in 1..(o + 1) /\ o + 1 \in 1..(o + 3) /\ o + 2 \in 1..(o + 3) /\ o + 3 \in 1..(o + 3)
    BY <1>7
  <2>. HIDE DEF o, m, B
  <2>6. \A i \in 1..o : B[i] = P[i]
    BY <2>1, <2>2, <2>3, <2>4, <2>5 DEF u
  <2>7. /\ B[o + 1] = Token("size", 0) /\ B[o + 2] = Byte("cr") /\ B[o + 3] = Byte("lf")
        /\ B[o + 4] = Byte("cr") /\ B[o + 5] = Byte("lf")
    BY <1>4, <2>1, <2>2, <2>3, <2>4, <2>5 DEF u
  <2>8. \A i \in 1..5 : i = 1 \/ i = 2 \/ i = 3 \/ i = 4 \/ i = 5
    OBVIOUS
  <2>. QED BY <1>6, <2>3, <2>4, <2>5, <2>6, <2>7, <2>8
<1>9. ASSUME NEW j \in 1..(m + 1), NEW i \in 1..(Len(Parts(r)[j]) + 5)
      PROVE  B[Offset(r, j) + i] = Chunk(Parts(r)[j])[i]
  <2>1. CASE j = m + 1
    <3>1. Parts(r)[j] = <<>> /\ Len(<<>>) = 0 /\ i \in 1..5
      BY <2>1, ContentShape, EmptySeq
    <3>. HIDE DEF B
    <3>. QED BY <1>8, <2>1, <3>1
  <2>2. CASE j # m + 1
    <3>1. j \in 1..m
      BY <1>1, <2>2
    <3>2. Whole(j)
      BY <1>5, <3>1
    <3>3. /\ Offset(r, j) \in Nat /\ Len(Parts(r)[j]) \in Nat
          /\ Offset(r, j + 1) = Offset(r, j) + Len(Parts(r)[j]) + 5
      BY <1>1, <3>1, OffsetShape, ContentShape
    <3>4. Offset(r, j + 1) <= o
      <4>1. j + 1 = m + 1 \/ (j = 1 /\ m = 2)
        <5>1. m \in 0..2
          BY <1>1
        <5>. HIDE DEF m
        <5>. QED BY <3>1, <5>1
      <4>2. CASE j = 1 /\ m = 2
        <5>1. 2 \in 1..m /\ 2 \in 1..(m + 1)
          BY <4>2
        <5>2. Offset(r, 2 + 1) = Offset(r, 2) + Len(Parts(r)[2]) + 5 /\ Offset(r, 2) \in Nat /\ Len(Parts(r)[2]) \in Nat
          BY <5>1, OffsetShape, ContentShape
        <5>3. o = Offset(r, 2 + 1) /\ j + 1 = 2
          BY <4>2
        <5>. HIDE DEF o, m
        <5>. QED BY <5>2, <5>3
      <4>. QED BY <1>7, <4>1, <4>2
    <3>. DEFINE x == Offset(r, j)
                l == Len(Parts(r)[j])
    <3>5. x \in Nat /\ l \in Nat /\ x + l + 5 <= o /\ i \in 1..(l + 5)
      BY <3>3, <3>4
    <3>6. x + i \in 1..o
      <4>. HIDE DEF x, l, o
      <4>. QED BY <1>7, <3>5
    <3>. QED BY <1>8, <3>2, <3>6
  <2>. QED BY <2>1, <2>2
<1>. QED BY <1>8, <1>9

Frame(r) == IF r.framing = "length" THEN Token("length", Len(Content(r))) ELSE Token("chunked", 0)
BodyTokens(r) == IF r.framing = "length" THEN Raw(Content(r)) ELSE ChunkedBody(r)

\* An orderly reply: eight tokens of header, and its body.
LEMMA TokensShape ==
  ASSUME NEW r \in Replies, Orderly(r)
  PROVE  LET T == Tokens(r)
             b == BodyTokens(r)
         IN  /\ T \in Seq(Toks) /\ b \in Seq(Toks) /\ Len(b) \in Nat /\ Len(T) = 8 + Len(b)
             /\ T[1] = Token("status", r.code) /\ T[2] = Byte("cr") /\ T[3] = Byte("lf")
             /\ T[4] = Frame(r) /\ T[5] = Byte("cr") /\ T[6] = Byte("lf")
             /\ T[7] = Byte("cr") /\ T[8] = Byte("lf")
             /\ \A i \in 1..Len(b) : T[8 + i] = b[i]
<1>. DEFINE T == Tokens(r)
            b == BodyTokens(r)
            f == Frame(r)
            k == Token("status", r.code)
            u == <<f>> \o CrLf
            v == u \o CrLf
            w == v \o b
            h == <<k>> \o CrLf
<1>1. r.code \in Nat /\ r.code # 0 /\ r.framing \in {"length", "chunked"}
  BY ReplyShape DEF Orderly
<1>2. f \in Toks /\ k \in Toks
  <2>1. Len(Content(r)) \in Nat
    BY ContentShape
  <2>. QED BY <1>1, <2>1 DEF Frame, Token, Toks, Kinds
<1>3. b \in Seq(Toks) /\ Len(b) \in Nat
  <2>1. Raw(Content(r)) \in Seq(Toks)
    BY ContentShape, RawShape
  <2>2. ChunkedBody(r) \in Seq(Toks)
    BY ChunkedShape
  <2>. QED BY <2>1, <2>2, LenProperties DEF BodyTokens
<1>4. T = h \o w
  <2>1. CASE r.framing = "length"
    BY <1>1, <2>1 DEF Tokens, BodyTokens, Frame
  <2>2. CASE r.framing = "chunked"
    BY <1>1, <2>2 DEF Tokens, BodyTokens, Frame
  <2>. QED BY <1>1, <2>1, <2>2
<1>. HIDE DEF T, b, f, k
<1>5. u \in Seq(Toks) /\ Len(u) = 3 /\ u[1] = f /\ u[2] = Byte("cr") /\ u[3] = Byte("lf")
  BY <1>2, LineShape
<1>6. h \in Seq(Toks) /\ Len(h) = 3 /\ h[1] = k /\ h[2] = Byte("cr") /\ h[3] = Byte("lf")
  BY <1>2, LineShape
<1>. HIDE DEF u, h
<1>7. /\ v \in Seq(Toks) /\ Len(v) = 5 /\ v[1] = f /\ v[2] = Byte("cr") /\ v[3] = Byte("lf")
      /\ v[4] = Byte("cr") /\ v[5] = Byte("lf")
  <2>1. /\ v \in Seq(Toks) /\ Len(v) = Len(u) + 2 /\ \A i \in 1..Len(u) : v[i] = u[i]
        /\ v[Len(u) + 1] = Byte("cr") /\ v[Len(u) + 2] = Byte("lf")
    BY <1>5, LineEnd
  <2>2. 1 \in 1..3 /\ 2 \in 1..3 /\ 3 \in 1..3 /\ 3 + 1 = 4 /\ 3 + 2 = 5
    OBVIOUS
  <2>. QED BY <1>5, <2>1, <2>2
<1>. HIDE DEF v
<1>8. /\ w \in Seq(Toks) /\ Len(w) = 5 + Len(b) /\ \A i \in 1..5 : w[i] = v[i]
      /\ \A i \in 1..Len(b) : w[5 + i] = b[i]
  <2>1. /\ w \in Seq(Toks) /\ Len(w) = Len(v) + Len(b) /\ \A i \in 1..Len(v) : w[i] = v[i]
        /\ \A i \in 1..Len(b) : w[Len(v) + i] = b[i]
    <3>1. v \in Seq(Toks) /\ b \in Seq(Toks)
      BY <1>3, <1>7
    <3>. QED BY <3>1, JoinedAt
  <2>. QED BY <1>7, <2>1
<1>. HIDE DEF w
<1>9. /\ T \in Seq(Toks) /\ Len(T) = 3 + Len(w) /\ \A i \in 1..3 : T[i] = h[i]
      /\ \A i \in 1..Len(w) : T[3 + i] = w[i]
  <2>1. /\ h \o w \in Seq(Toks) /\ Len(h \o w) = Len(h) + Len(w) /\ \A i \in 1..Len(h) : (h \o w)[i] = h[i]
        /\ \A i \in 1..Len(w) : (h \o w)[Len(h) + i] = w[i]
    <3>1. h \in Seq(Toks) /\ w \in Seq(Toks)
      BY <1>6, <1>8
    <3>. QED BY <3>1, JoinedAt
  <2>. QED BY <1>4, <1>6, <2>1
<1>10. /\ 1 \in 1..3 /\ 2 \in 1..3 /\ 3 \in 1..3 /\ \A i \in 1..5 : i \in 1..Len(w)
       /\ \A i \in 1..Len(b) : 5 + i \in 1..Len(w) /\ 3 + (5 + i) = 8 + i
       /\ Len(T) = 8 + Len(b)
  <2>1. \A a \in Nat : \A i \in 1..5 : i \in 1..(5 + a)
    OBVIOUS
  <2>2. \A a \in Nat : \A i \in 1..a : 5 + i \in 1..(5 + a) /\ 3 + (5 + i) = 8 + i
    OBVIOUS
  <2>3. Len(b) \in Nat /\ Len(w) = 5 + Len(b) /\ Len(T) = 3 + Len(w)
    BY <1>3, <1>8, <1>9
  <2>. QED BY <2>1, <2>2, <2>3
<1>11. \A i \in 1..5 : T[3 + i] = v[i]
  BY <1>8, <1>9, <1>10
<1>12. \A i \in 1..Len(b) : T[8 + i] = b[i]
  <2>1. ASSUME NEW i \in 1..Len(b) PROVE T[8 + i] = b[i]
    <3>1. 5 + i \in 1..Len(w) /\ 3 + (5 + i) = 8 + i
      BY <1>10
    <3>2. T[3 + (5 + i)] = w[5 + i] /\ w[5 + i] = b[i]
      BY <1>8, <1>9, <3>1
    <3>. QED BY <3>1, <3>2
  <2>. QED BY <2>1
<1>13. T[4] = v[1] /\ T[5] = v[2] /\ T[6] = v[3] /\ T[7] = v[4] /\ T[8] = v[5]
  <2>1. /\ 1 \in 1..5 /\ 2 \in 1..5 /\ 3 \in 1..5 /\ 4 \in 1..5 /\ 5 \in 1..5
        /\ 3 + 1 = 4 /\ 3 + 2 = 5 /\ 3 + 3 = 6 /\ 3 + 4 = 7 /\ 3 + 5 = 8
    OBVIOUS
  <2>2. \A i, j : i \in 1..5 /\ 3 + i = j => T[j] = v[i]
    BY <1>11
  <2>. QED BY <2>1, <2>2
<1>14. T[1] = k /\ T[2] = Byte("cr") /\ T[3] = Byte("lf")
  BY <1>6, <1>9, <1>10
<1>. QED BY <1>3, <1>7, <1>9, <1>10, <1>12, <1>13, <1>14 DEF T, b, f, k

-----------------------------------------------------------------------------
(* Where the replies lie in the stream: a recursive function of the        *)
(* replies.                                                                *)

Less == {p \in Nat \X Nat : p[1] < p[2]}

\* Induction on the natural numbers, for a set instead of a predicate.
LEMMA SetInduction ==
  ASSUME NEW T \in SUBSET Nat, 0 \in T, \A n \in T : n + 1 \in T
  PROVE  T = Nat
<1>1. SUFFICES ASSUME Nat \ T # {} PROVE FALSE
  OBVIOUS
<1>2. PICK x \in Nat \ T : \A y \in Nat \ T : ~(<<y, x>> \in Less)
  <2>1. IsWellFoundedOn(Less, Nat)
    BY NatLessThanWellFounded DEF OpToRel, Less
  <2>2. Nat \ T \in SUBSET Nat
    OBVIOUS
  <2>. QED BY <1>1, <2>1, <2>2, WFMin
<1>3. x # 0 /\ x - 1 \in Nat /\ x - 1 \in T
  <2>1. x \in Nat /\ x # 0 /\ x - 1 \in Nat
    BY <1>2
  <2>2. <<x - 1, x>> \in Less
    BY <2>1 DEF Less
  <2>. QED BY <1>2, <2>1, <2>2
<1>. QED BY <1>2, <1>3

\* The places where the replies of s end, one by one.
Sums(f, s, n) == f[0] = 0 /\ \A k \in 1..n : f[k] = f[k - 1] + Len(Tokens(s[k]))

\* The recursive function of the stream computes them.
LEMMA EndRec ==
  ASSUME NEW s, NEW n \in Nat, NEW v,
         v = CHOOSE g : g = [k \in 0..n |-> IF k = 0 THEN 0 ELSE g[k - 1] + Len(Tokens(s[k]))]
  PROVE  Sums(v, s, n)
<1>. DEFINE Is(g, m) == g = [k \in 0..m |-> IF k = 0 THEN 0 ELSE g[k - 1] + Len(Tokens(s[k]))]
            T == {m \in Nat : \E g : Is(g, m)}
<1>1. 0 \in T
  <2>1. Is([k \in 0..0 |-> 0], 0)
    OBVIOUS
  <2>. QED BY <2>1
<1>2. ASSUME NEW m \in T PROVE m + 1 \in T
  <2>1. PICK g : Is(g, m)
    OBVIOUS
  <2>. DEFINE h == [k \in 0..(m + 1) |-> IF k = 0 THEN 0 ELSE g[k - 1] + Len(Tokens(s[k]))]
  <2>2. m \in Nat /\ m + 1 \in Nat
    OBVIOUS
  <2>3. \A k \in 0..m : h[k] = g[k]
    BY <2>1, <2>2
  <2>4. ASSUME NEW k \in 0..(m + 1), k # 0 PROVE h[k - 1] = g[k - 1]
    <3>1. k - 1 \in 0..m
      BY <2>2, <2>4
    <3>. QED BY <2>3, <3>1
  <2>5. Is(h, m + 1)
    BY <2>2, <2>4
  <2>. QED BY <2>2, <2>5
<1>3. n \in T
  <2>. HIDE DEF T
  <2>1. T \in SUBSET Nat
    BY DEF T
  <2>. QED BY <1>1, <1>2, <2>1, SetInduction
<1>4. Is(v, n)
  <2>1. \E g : Is(g, n)
    BY <1>3
  <2>2. v = CHOOSE g : Is(g, n)
    OBVIOUS
  <2>. HIDE DEF Is
  <2>. QED BY <2>1, <2>2, Zenon
<1>5. ASSUME NEW w, Is(w, n) PROVE Sums(w, s, n)
  <2>1. w[0] = 0
    <3>1. 0 \in 0..n
      OBVIOUS
    <3>. QED BY <1>5, <3>1
  <2>2. ASSUME NEW k \in 1..n PROVE w[k] = w[k - 1] + Len(Tokens(s[k]))
    <3>1. k \in 0..n /\ k # 0
      OBVIOUS
    <3>. QED BY <1>5, <3>1
  <2>. QED BY <2>1, <2>2 DEF Sums
<1>. HIDE DEF Is
<1>. QED BY <1>4, <1>5

LEMMA EndSums ==
  /\ replied \in Seq(Replies) => Sums(End, replied, Len(replied))
  /\ replied' \in Seq(Replies) => Sums(End', replied', Len(replied'))
<1>1. ASSUME replied \in Seq(Replies) PROVE Sums(End, replied, Len(replied))
  <2>1. Len(replied) \in Nat
    BY <1>1, LenProperties
  <2>. QED BY <2>1, EndRec DEF End
<1>2. ASSUME replied' \in Seq(Replies) PROVE Sums(End', replied', Len(replied'))
  <2>1. Len(replied') \in Nat
    BY <1>2, LenProperties
  <2>. QED BY <2>1, EndRec DEF End
<1>. QED BY <1>1, <1>2

\* Sums are numbers, and those of orderly replies grow by more than a header.
LEMMA SumsShape ==
  ASSUME NEW s \in Seq(Replies), NEW f, Sums(f, s, Len(s))
  PROVE  /\ \A k \in 0..Len(s) : f[k] \in Nat
         /\ \A k \in 1..Len(s) : s[k] \in Replies /\ Len(Tokens(s[k])) \in Nat
<1>0. Len(s) \in Nat
  BY LenProperties
<1>1. ASSUME NEW k \in 1..Len(s) PROVE s[k] \in Replies /\ Len(Tokens(s[k])) \in Nat
  <2>1. s[k] \in Replies
    BY <1>1, ElementOfSeq
  <2>. QED BY <2>1, TokensType, LenProperties
<1>. DEFINE T == {k \in Nat : k <= Len(s) => f[k] \in Nat}
<1>2. 0 \in T
  BY DEF Sums
<1>3. ASSUME NEW k \in T PROVE k + 1 \in T
  <2>1. SUFFICES ASSUME k + 1 <= Len(s) PROVE f[k + 1] \in Nat
    OBVIOUS
  <2>2. k \in Nat /\ k + 1 \in 1..Len(s) /\ (k + 1) - 1 = k /\ f[k] \in Nat
    BY <1>0, <2>1
  <2>3. f[k + 1] = f[k] + Len(Tokens(s[k + 1])) /\ Len(Tokens(s[k + 1])) \in Nat
    BY <1>1, <2>2 DEF Sums
  <2>. QED BY <2>2, <2>3
<1>4. T = Nat
  <2>. HIDE DEF T
  <2>1. T \in SUBSET Nat
    BY DEF T
  <2>. QED BY <1>2, <1>3, <2>1, SetInduction
<1>5. ASSUME NEW k \in 0..Len(s) PROVE f[k] \in Nat
  <2>1. k \in Nat /\ k <= Len(s) /\ k \in T
    BY <1>0, <1>4
  <2>. QED BY <2>1
<1>. QED BY <1>1, <1>5

\* Later replies end later.
LEMMA SumsGrow ==
  ASSUME NEW s \in Seq(Replies), NEW f, Sums(f, s, Len(s)), \A r \in Replies : Orderly(r)
  PROVE  /\ \A k \in 1..Len(s) : f[k - 1] + 8 <= f[k]
         /\ \A k \in 0..Len(s) : f[k] <= f[Len(s)] /\ (k < Len(s) => f[k] < f[Len(s)])
<1>0. Len(s) \in Nat
  BY LenProperties
<1>1. ASSUME NEW k \in 1..Len(s) PROVE f[k - 1] + 8 <= f[k]
  <2>1. s[k] \in Replies /\ f[k] = f[k - 1] + Len(Tokens(s[k])) /\ k - 1 \in 0..Len(s)
    BY <1>0, SumsShape DEF Sums
  <2>2. f[k - 1] \in Nat
    BY <2>1, SumsShape
  <2>3. Len(Tokens(s[k])) = 8 + Len(BodyTokens(s[k])) /\ Len(BodyTokens(s[k])) \in Nat
    BY <2>1, TokensShape
  <2>. DEFINE b == Len(BodyTokens(s[k]))
              e == f[k - 1]
  <2>4. f[k] = e + (8 + b) /\ e \in Nat /\ b \in Nat
    BY <2>1, <2>2, <2>3
  <2>. HIDE DEF b, e
  <2>5. e + 8 <= e + (8 + b)
    BY <2>4
  <2>. QED BY <2>4, <2>5 DEF e
<1>. DEFINE n == Len(s)
            T == {x \in Nat : x <= n => f[n - x] <= f[n] /\ (x > 0 => f[n - x] < f[n])}
<1>2. 0 \in T
  <2>1. f[n] \in Nat /\ n - 0 = n
    BY <1>0, SumsShape
  <2>. HIDE DEF n
  <2>. QED BY <2>1
<1>3. ASSUME NEW x \in T PROVE x + 1 \in T
  <2>1. SUFFICES ASSUME x + 1 <= n PROVE f[n - (x + 1)] < f[n] /\ f[n - (x + 1)] <= f[n]
    OBVIOUS
  <2>2. x \in Nat /\ n - x \in 1..n /\ (n - x) - 1 = n - (x + 1) /\ n - (x + 1) \in 0..n /\ n \in 0..n /\ n - x \in 0..n
    BY <1>0, <2>1
  <2>3. f[n - (x + 1)] + 8 <= f[n - x]
    BY <1>1, <2>2
  <2>4. f[n - (x + 1)] \in Nat /\ f[n - x] \in Nat /\ f[n] \in Nat
    BY <2>2, SumsShape
  <2>5. f[n - x] <= f[n]
    BY <2>2
  <2>. QED BY <2>3, <2>4, <2>5
<1>4. T = Nat
  <2>. HIDE DEF T
  <2>1. T \in SUBSET Nat
    BY DEF T
  <2>. QED BY <1>2, <1>3, <2>1, SetInduction
<1>5. ASSUME NEW k \in 0..n PROVE f[k] <= f[n] /\ (k < n => f[k] < f[n])
  <2>1. n - k \in Nat /\ n - (n - k) = k /\ n - k <= n /\ (k < n => n - k > 0)
    BY <1>0
  <2>2. n - k \in T
    BY <1>4, <2>1
  <2>. QED BY <2>1, <2>2
<1>. QED BY <1>1, <1>5

\* A reply more leaves the places of the others.
LEMMA SumsAppend ==
  ASSUME NEW s \in Seq(Replies), NEW r \in Replies, NEW f, Sums(f, s, Len(s)),
         NEW g, Sums(g, Append(s, r), Len(Append(s, r)))
  PROVE  /\ \A k \in 0..Len(s) : g[k] = f[k]
         /\ g[Len(s) + 1] = f[Len(s)] + Len(Tokens(r))
<1>. DEFINE t == Append(s, r)
<1>0. /\ Len(s) \in Nat /\ Len(t) = Len(s) + 1 /\ t[Len(s) + 1] = r
      /\ \A k \in 1..Len(s) : t[k] = s[k]
  BY AppendProperties, LenProperties
<1>. DEFINE T == {k \in Nat : k <= Len(s) => g[k] = f[k]}
<1>. HIDE DEF t
<1>1. g[0] = 0 /\ \A k \in 1..(Len(s) + 1) : g[k] = g[k - 1] + Len(Tokens(t[k]))
  BY <1>0 DEF Sums, t
<1>2. 0 \in T
  BY <1>1 DEF Sums
<1>3. ASSUME NEW k \in T PROVE k + 1 \in T
  <2>1. SUFFICES ASSUME k + 1 <= Len(s) PROVE g[k + 1] = f[k + 1]
    OBVIOUS
  <2>2. /\ k \in Nat /\ k + 1 \in 1..Len(s) /\ k + 1 \in 1..(Len(s) + 1) /\ (k + 1) - 1 = k
        /\ g[k] = f[k]
    BY <1>0, <2>1
  <2>3. g[k + 1] = g[k] + Len(Tokens(s[k + 1])) /\ f[k + 1] = f[k] + Len(Tokens(s[k + 1]))
    BY <1>0, <1>1, <2>2 DEF Sums
  <2>. QED BY <2>2, <2>3
<1>4. T = Nat
  <2>. HIDE DEF T
  <2>1. T \in SUBSET Nat
    BY DEF T
  <2>. QED BY <1>2, <1>3, <2>1, SetInduction
<1>5. ASSUME NEW k \in 0..Len(s) PROVE g[k] = f[k]
  <2>1. k \in T /\ k <= Len(s)
    BY <1>0, <1>4
  <2>. QED BY <2>1
<1>6. g[Len(s) + 1] = f[Len(s)] + Len(Tokens(r))
  <2>1. Len(s) + 1 \in 1..(Len(s) + 1) /\ (Len(s) + 1) - 1 = Len(s) /\ Len(s) \in 0..Len(s)
    BY <1>0
  <2>. QED BY <1>0, <1>1, <1>5, <2>1
<1>. QED BY <1>5, <1>6

-----------------------------------------------------------------------------
(* One step through a reply.                                               *)

\* One element more of a sequence.
LEMMA OneMore ==
  ASSUME NEW S, NEW s \in Seq(S), NEW m \in Nat \ {0}, NEW n \in Nat, m <= n + 1, n < Len(s)
  PROVE  /\ SubSeq(s, m, n) \in Seq(S) /\ Len(SubSeq(s, m, n)) = (n - m) + 1
         /\ Append(SubSeq(s, m, n), s[n + 1]) = SubSeq(s, m, n + 1)
         /\ SubSeq(s, m, n + 1) \in Seq(S) /\ Len(SubSeq(s, m, n + 1)) = (n + 1 - m) + 1
<1>0. Len(s) \in Nat
  BY LenProperties
<1>1. \A i \in m..(n + 1) : i \in 1..Len(s) /\ s[i] \in S
  <2>1. ASSUME NEW i \in m..(n + 1) PROVE i \in 1..Len(s)
    BY <1>0
  <2>. QED BY <2>1, ElementOfSeq
<1>2. \A i \in m..n : s[i] \in S
  BY <1>1
<1>. DEFINE a == SubSeq(s, m, n)
            b == SubSeq(s, m, n + 1)
            c == Append(a, s[n + 1])
<1>3. a \in Seq(S) /\ Len(a) = (IF m <= n THEN n - m + 1 ELSE 0) /\ \A i \in 1..(n - m + 1) : a[i] = s[m + i - 1]
  BY <1>2, SubSeqProperties
<1>4. /\ b \in Seq(S) /\ Len(b) = (IF m <= n + 1 THEN (n + 1) - m + 1 ELSE 0)
      /\ \A i \in 1..((n + 1) - m + 1) : b[i] = s[m + i - 1]
  <2>1. n + 1 \in Int
    OBVIOUS
  <2>. QED BY <1>1, <2>1, SubSeqProperties
<1>5. Len(a) = (n - m) + 1 /\ Len(b) = Len(a) + 1 /\ Len(a) \in Nat
  BY <1>3, <1>4
<1>6. s[n + 1] \in S
  <2>1. n + 1 \in m..(n + 1)
    OBVIOUS
  <2>. QED BY <1>1, <2>1
<1>. HIDE DEF a, b
<1>7. c \in Seq(S) /\ Len(c) = Len(a) + 1 /\ (\A i \in 1..Len(a) : c[i] = a[i]) /\ c[Len(a) + 1] = s[n + 1]
  BY <1>3, <1>6, AppendProperties
<1>8. ASSUME NEW i \in 1..Len(b) PROVE c[i] = b[i]
  <2>1. b[i] = s[m + i - 1]
    BY <1>4, <1>5
  <2>2. CASE i = Len(a) + 1
    <3>1. m + i - 1 = n + 1
      BY <1>5, <2>2
    <3>. QED BY <1>7, <2>1, <2>2, <3>1
  <2>3. CASE i # Len(a) + 1
    <3>1. i \in 1..Len(a) /\ i \in 1..(n - m + 1)
      BY <1>5, <2>3
    <3>. QED BY <1>3, <1>7, <2>1, <3>1
  <2>. QED BY <2>2, <2>3
<1>9. c = b
  <2>. HIDE DEF c
  <2>1. \A i \in 1..Len(c) : c[i] = b[i]
    BY <1>5, <1>7, <1>8
  <2>. QED BY <1>4, <1>5, <1>7, <2>1, SeqEqual
<1>. QED BY <1>3, <1>4, <1>5, <1>9 DEF a, b

LEMMA Pair == ASSUME NEW a, NEW b PROVE Append(<<a>>, b) = <<a, b>>
<1>. DEFINE S == {a, b}
            c == Append(<<a>>, b)
<1>1. <<a>> \in Seq(S) /\ <<a, b>> \in Seq(S) /\ b \in S /\ Len(<<a>>) = 1 /\ Len(<<a, b>>) = 2
  OBVIOUS
<1>2. c \in Seq(S) /\ Len(c) = 2 /\ c[1] = a /\ c[2] = b
  BY <1>1, AppendProperties
<1>3. \A i \in 1..2 : c[i] = <<a, b>>[i]
  BY <1>2
<1>. QED BY <1>1, <1>2, <1>3, SeqEqual

\* The parts of a header line, as its tokens come.
LEMMA LinesShape ==
  ASSUME NEW t \in Seq(Toks), Len(t) >= 8
  PROVE  /\ SubSeq(t, 1, 0) = <<>> /\ SubSeq(t, 4, 3) = <<>> /\ SubSeq(t, 7, 6) = <<>>
         /\ SubSeq(t, 1, 1) = <<t[1]>> /\ SubSeq(t, 1, 2) = <<t[1], t[2]>>
         /\ SubSeq(t, 4, 4) = <<t[4]>> /\ SubSeq(t, 4, 5) = <<t[4], t[5]>>
         /\ SubSeq(t, 7, 7) = <<t[7]>>
<1>1. SubSeq(t, 1, 0) = <<>> /\ SubSeq(t, 4, 3) = <<>> /\ SubSeq(t, 7, 6) = <<>>
  BY SubSeqEmpty
<1>2. ASSUME NEW m \in {1, 4, 7} PROVE SubSeq(t, m, m) = <<t[m]>> /\ SubSeq(t, m, m + 1) = <<t[m], t[m + 1]>>
  <2>1. SubSeq(t, m, m - 1) = <<>>
    BY <1>1
  <2>2. m - 1 \in Nat /\ m - 1 < Len(t) /\ m \in Nat \ {0} /\ m < Len(t) /\ m <= (m - 1) + 1 /\ (m - 1) + 1 = m /\ m <= m + 1
    BY LenProperties
  <2>3. Append(SubSeq(t, m, m - 1), t[(m - 1) + 1]) = SubSeq(t, m, (m - 1) + 1)
    BY <2>2, OneMore
  <2>4. Append(SubSeq(t, m, m), t[m + 1]) = SubSeq(t, m, m + 1)
    BY <2>2, OneMore
  <2>5. SubSeq(t, m, m) = Append(<<>>, t[m])
    BY <2>1, <2>2, <2>3
  <2>6. SubSeq(t, m, m) = <<t[m]>>
    BY <2>5
  <2>. QED BY <2>4, <2>6, Pair
<1>. QED BY <1>1, <1>2

\* A token of the header is read.
LEMMA HeaderStep ==
  ASSUME TypeOK, NEW r \in Replies, Orderly(r), NEW o \in 0..7, InHeader(r, o), ReadHeader,
         wire[pos + 1] = Tokens(r)[o + 1]
  PROVE  \/ o < 7 /\ rpc' = "header" /\ InHeader(r, o + 1)'
         \/ o = 7 /\ rpc' = "lock" /\ rc' = r.code /\ body' = FrameLocals(r)
<1>. DEFINE t == Tokens(r)
            k == wire[pos + 1]
<1>1. /\ t \in Seq(Toks) /\ Len(t) \in Nat /\ Len(t) >= 8
      /\ t[1] = Token("status", r.code) /\ t[2] = Byte("cr") /\ t[3] = Byte("lf")
      /\ t[4] = Frame(r) /\ t[5] = Byte("cr") /\ t[6] = Byte("lf")
      /\ t[7] = Byte("cr") /\ t[8] = Byte("lf")
  BY TokensShape
<1>2. r.code \in Nat /\ r.code > 0 /\ r.framing \in {"length", "chunked"}
  BY ReplyShape DEF Orderly
<1>3. /\ Byte("cr").t = "cr" /\ Byte("lf").t = "lf" /\ Token("status", r.code).t = "status"
      /\ Token("status", r.code).n = r.code /\ Frame(r).t \in {"length", "chunked"}
  BY DEF Byte, Token, Frame
<1>4. /\ k = t[o + 1] /\ rpc = "header" /\ last' = k.t
      /\ IF ~Term(k)
           THEN line' = Append(line, k) /\ UNCHANGED <<rpc, rc, body>>
         ELSE IF line = <<Byte("cr")>>
           THEN HeaderEnds(rc) /\ UNCHANGED <<line, rc, body>>
           ELSE HeaderLine(Head(line)) /\ line' = <<>> /\ UNCHANGED rpc
  BY DEF ReadHeader
<1>5. /\ rc = (IF o < 3 THEN ParsingHeader ELSE r.code)
      /\ body = (IF o < 6 THEN Locals ELSE FrameLocals(r))
      /\ line = SubSeq(t, IF o < 3 THEN 1 ELSE IF o < 6 THEN 4 ELSE 7, o)
      /\ last = (IF o = 0 THEN "none" ELSE t[o].t)
  BY DEF InHeader
<1>6. InHeader(r, o + 1)' <=>
        /\ o + 1 \in 0..7
        /\ rc' = (IF o + 1 < 3 THEN ParsingHeader ELSE r.code)
        /\ body' = (IF o + 1 < 6 THEN Locals ELSE FrameLocals(r))
        /\ line' = SubSeq(t, IF o + 1 < 3 THEN 1 ELSE IF o + 1 < 6 THEN 4 ELSE 7, o + 1)
        /\ last' = (IF o + 1 = 0 THEN "none" ELSE t[o + 1].t)
  BY DEF InHeader
<1>. HIDE DEF t, k
<1>7. /\ SubSeq(t, 1, 0) = <<>> /\ SubSeq(t, 4, 3) = <<>> /\ SubSeq(t, 7, 6) = <<>>
      /\ SubSeq(t, 1, 1) = <<t[1]>> /\ SubSeq(t, 1, 2) = <<t[1], t[2]>>
      /\ SubSeq(t, 4, 4) = <<t[4]>> /\ SubSeq(t, 4, 5) = <<t[4], t[5]>>
      /\ SubSeq(t, 7, 7) = <<t[7]>>
  BY <1>1, LinesShape
<1>8. /\ \A a, b : Append(<<a>>, b) = <<a, b>>
      /\ \A a, b : <<a, b>> # <<Byte("cr")>>
      /\ \A a, b : Head(<<a, b>>) = a
      /\ \A a : Append(<<>>, a) = <<a>>
  <2>1. \A a, b : Append(<<a>>, b) = <<a, b>>
    BY Pair
  <2>2. \A a, b, c : <<a, b>> # <<c>>
    OBVIOUS
  <2>. QED BY <2>1, <2>2
<1>9. CASE o = 0
  BY <1>1, <1>3, <1>4, <1>5, <1>6, <1>7, <1>8, <1>9 DEF Term
<1>10. CASE o = 1
  <2>1. ~Term(k) /\ line = <<t[1]>> /\ k = t[2]
    BY <1>1, <1>3, <1>4, <1>5, <1>7, <1>10 DEF Term
  <2>2. line' = <<t[1], t[2]>>
    BY <1>4, <1>8, <2>1
  <2>. QED BY <1>4, <1>5, <1>6, <1>7, <1>10, <2>1, <2>2
<1>11. CASE o = 2
  <2>1. Term(k) /\ line = <<t[1], t[2]>> /\ line # <<Byte("cr")>> /\ Head(line) = t[1] /\ body = Locals
    BY <1>1, <1>3, <1>4, <1>5, <1>7, <1>8, <1>11 DEF Term
  <2>2. rc' = r.code /\ body' = Locals
    BY <1>1, <1>3, <1>4, <2>1 DEF HeaderLine
  <2>. QED BY <1>4, <1>6, <1>7, <1>11, <2>1, <2>2
<1>12. CASE o = 3
  BY <1>1, <1>3, <1>4, <1>5, <1>6, <1>7, <1>8, <1>12 DEF Term
<1>13. CASE o = 4
  BY <1>1, <1>3, <1>4, <1>5, <1>6, <1>7, <1>8, <1>13 DEF Term
<1>14. CASE o = 5
  <2>1. Term(k) /\ line = <<t[4], t[5]>> /\ line # <<Byte("cr")>> /\ Head(line) = t[4] /\ body = Locals /\ rc = r.code
    BY <1>1, <1>3, <1>4, <1>5, <1>7, <1>8, <1>14 DEF Term
  <2>2. rc' = r.code
    BY <1>1, <1>3, <1>4, <2>1 DEF HeaderLine
  <2>3. body' = FrameLocals(r)
    <3>1. body' = CASE t[4].t = "length"  -> [body EXCEPT !.size = t[4].n,
                           !.copy = IF body.chunked THEN 0 ELSE t[4].n]
               [] t[4].t = "chunked" -> [body EXCEPT !.chunked = TRUE, !.copy = 0]
               [] OTHER           -> body
      BY <1>4, <2>1 DEF HeaderLine
    <3>2. CASE r.framing = "length"
      <4>1. t[4].t = "length" /\ t[4].n = Len(Content(r))
        BY <1>1, <3>2 DEF Frame, Token
      <4>. QED BY <2>1, <3>1, <3>2, <4>1 DEF FrameLocals, Locals
    <3>3. CASE r.framing = "chunked"
      <4>1. t[4].t = "chunked"
        BY <1>1, <3>3 DEF Frame, Token
      <4>2. body' = [Locals EXCEPT !.chunked = TRUE, !.copy = 0]
        BY <2>1, <3>1, <4>1
      <4>3. [Locals EXCEPT !.chunked = TRUE, !.copy = 0] = [Locals EXCEPT !.chunked = TRUE]
        <5>1. Locals.copy = 0
          BY DEF Locals
        <5>2. Locals \in Body
          BY DEF Locals, Body
        <5>3. \A x \in Body : x.copy = 0 =>
                [x EXCEPT !.chunked = TRUE, !.copy = 0] = [x EXCEPT !.chunked = TRUE]
          BY DEF Body
        <5>. QED BY <5>1, <5>2, <5>3
      <4>. QED BY <3>3, <4>2, <4>3 DEF FrameLocals
    <3>. QED BY <1>2, <3>2, <3>3
  <2>. QED BY <1>4, <1>6, <1>7, <1>14, <2>1, <2>2, <2>3
<1>15. CASE o = 6
  BY <1>1, <1>3, <1>4, <1>5, <1>6, <1>7, <1>8, <1>15 DEF Term
<1>16. CASE o = 7
  <2>1. Term(k) /\ line = <<Byte("cr")>> /\ rc = r.code /\ body = FrameLocals(r)
    BY <1>1, <1>3, <1>4, <1>5, <1>7, <1>8, <1>16 DEF Term
  <2>. QED BY <1>2, <1>4, <1>16, <2>1 DEF HeaderEnds
<1>. QED BY <1>9, <1>10, <1>11, <1>12, <1>13, <1>14, <1>15, <1>16

LEMMA ByteTok == \A b : Byte(b).t = b
BY DEF Byte, Token

\* What ReadBody does with a token, in the words of its branches.
LEMMA BodyCases ==
  ASSUME TypeOK, ReadBody, NEW k, k = wire[pos + 1]
  PROVE  /\ rpc = "body" /\ last' = k.t /\ pos' = pos + 1 /\ rpc' \in {"body", "unlock"}
         /\ UNCHANGED <<recvid, retcode, rc>>
         /\ \/ Term(k) /\ body.fblank /\ rpc' = "unlock" /\ UNCHANGED <<answer, body>>
            \/ ~(Term(k) /\ body.fblank) /\ Term(k) /\ body.fterm /\ DropByte
            \/ ~(Term(k) /\ body.fblank) /\ ~(Term(k) /\ body.fterm) /\ body.copy > 0 /\ CopyByte(k)
            \/ ~(Term(k) /\ body.fblank) /\ ~(Term(k) /\ body.fterm) /\ ~(body.copy > 0) /\ SizeByte(k)
<1>1. body.copy > 0 \/ ~(body.copy > 0)
  OBVIOUS
<1>2. /\ rpc = "body" /\ last' = k.t /\ pos' = pos + 1
      /\ UNCHANGED <<recvid, retcode, rc>>
      /\ IF Term(k) /\ body.fblank
              THEN rpc' = "unlock" /\ UNCHANGED <<answer, body>>
            ELSE IF Term(k) /\ body.fterm THEN DropByte
            ELSE IF body.copy > 0 THEN CopyByte(k)
            ELSE SizeByte(k)
  BY DEF ReadBody
<1>3. rpc' \in {"body", "unlock"}
  BY <1>2 DEF DropByte, CopyByte, SizeByte
<1>. QED BY <1>1, <1>2, <1>3

\* The answer with one more byte: its last place is left for NUL.
Put(b) == IF Len(answer) < MaxBuffer - 1 THEN Append(answer, b) ELSE answer

LEMMA PutShape ==
  ASSUME TypeOK, NEW b \in Kinds
  PROVE  /\ Put(b) \in Seq(Kinds) /\ Len(Put(b)) \in Nat /\ Len(answer) \in Nat
         /\ Len(Put(b)) <= Len(answer) + 1
         /\ Len(answer) < MaxBuffer - 1 => Put(b) = Append(answer, b) /\ Len(Put(b)) = Len(answer) + 1
         /\ MaxBuffer > 1 => Len(Put(b)) > 0
<1>1. answer \in Seq(Kinds) /\ Len(answer) \in Nat /\ MaxBuffer \in Nat
  BY HttpConstants, LenProperties DEF TypeOK
<1>2. Append(answer, b) \in Seq(Kinds) /\ Len(Append(answer, b)) = Len(answer) + 1
  BY <1>1, AppendProperties
<1>. QED BY <1>1, <1>2 DEF Put

\* A byte of a body announced by its length.
LEMMA LengthStep ==
  ASSUME TypeOK, NEW r \in Replies, NEW o \in Nat, InLength(r, o), o < Len(Content(r)),
         ReadBody, wire[pos + 1] = Byte(Content(r)[o + 1])
  PROVE  \/ rpc' = "body" /\ InLength(r, o + 1)'
         \/ rpc' = "unlock" /\ o + 1 = Len(Content(r)) /\ (Plain(r) => answer' = Content(r))
<1>. DEFINE s == Content(r)
            k == wire[pos + 1]
            L == Len(s)
<1>1. s \in Seq(Bytes) /\ L \in Nat /\ o + 1 \in 1..L /\ s[o + 1] \in Bytes /\ s[o + 1] \in Kinds
  <2>1. s \in Seq(Bytes) /\ L \in Nat
    BY ContentShape
  <2>2. o + 1 \in 1..L
    BY <2>1
  <2>. QED BY <2>1, <2>2, ElementOfSeq, ByteType
<1>2. k.t = s[o + 1]
  BY ByteTok
<1>3. /\ Len(answer) <= o /\ ~body.chunked /\ ~body.fblank /\ body.size = L
      /\ body.copy >= L - o /\ (o = L /\ o > 0 => Len(answer) < o)
      /\ Plain(r) => /\ o < L /\ body.copy = L - o /\ answer = SubSeq(s, 1, o)
                     /\ last = IF o = 0 THEN "none" ELSE s[o]
  BY DEF InLength
<1>4. /\ InLength(r, o + 1)' <=>
          /\ o + 1 \in 0..L /\ Len(answer') <= o + 1
          /\ ~body'.chunked /\ ~body'.fblank /\ body'.size = L
          /\ body'.copy >= L - (o + 1) /\ (o + 1 = L /\ o + 1 > 0 => Len(answer') < o + 1)
          /\ Plain(r) => /\ o + 1 < L /\ body'.copy = L - (o + 1) /\ answer' = SubSeq(s, 1, o + 1)
                         /\ last' = IF o + 1 = 0 THEN "none" ELSE s[o + 1]
  BY DEF InLength
<1>5. body \in Body /\ body.copy \in Nat /\ body.copy > 0 /\ Len(answer) \in Nat
  <2>1. body \in Body /\ body.copy \in Nat /\ Len(answer) \in Nat
    BY LenProperties DEF TypeOK, Body
  <2>. QED BY <1>1, <1>3, <2>1
<1>6. last' = k.t /\ ((Term(k) /\ body.fterm /\ DropByte) \/ (~(Term(k) /\ body.fterm) /\ CopyByte(k)))
      /\ rpc = "body"
  BY <1>3, <1>5, BodyCases
<1>. HIDE DEF k
<1>7. CASE Term(k) /\ body.fterm /\ DropByte
  <2>1. ~Plain(r)
    <3>1. SUFFICES ASSUME Plain(r) PROVE FALSE
      OBVIOUS
    <3>2. k.t = "lf" /\ last = "cr"
      BY <1>7 DEF Term
    <3>3. o # 0 /\ s[o] = "cr" /\ s[o + 1] = "lf"
      BY <1>2, <1>3, <3>1, <3>2
    <3>4. o \in 1..(L - 1) /\ Unbroken(s)
      BY <1>1, <3>1, <3>3 DEF Plain
    <3>. QED BY <3>3, <3>4 DEF Unbroken
  <2>2. answer' = answer /\ rpc' = "body" /\ body' = [body EXCEPT !.fterm = FALSE]
    BY <1>6, <1>7 DEF DropByte
  <2>3. body'.chunked = body.chunked /\ body'.fblank = body.fblank /\ body'.size = body.size /\ body'.copy = body.copy
    BY <1>5, <2>2 DEF Body
  <2>4. /\ o + 1 \in 0..L /\ Len(answer') <= o + 1 /\ body'.copy >= L - (o + 1)
        /\ (o + 1 = L /\ o + 1 > 0 => Len(answer') < o + 1)
    BY <1>1, <1>3, <1>5, <2>2, <2>3
  <2>. QED BY <1>3, <1>4, <2>1, <2>2, <2>3, <2>4
<1>8. CASE ~(Term(k) /\ body.fterm) /\ CopyByte(k)
  <2>1. /\ answer' = Put(s[o + 1])
        /\ IF Len(answer') = body.size
             THEN rpc' = "unlock" /\ body' = [body EXCEPT !.copy = @ - 1]
             ELSE rpc' = rpc /\ body' = [body EXCEPT !.copy = @ - 1, !.fterm = TRUE]
    BY <1>2, <1>8 DEF CopyByte, Put
  <2>2. /\ Len(answer') \in Nat /\ Len(answer') <= o + 1
        /\ Len(answer) < MaxBuffer - 1 => answer' = Append(answer, s[o + 1]) /\ Len(answer') = Len(answer) + 1
    <3>1. /\ Len(answer') \in Nat /\ Len(answer') <= Len(answer) + 1
          /\ Len(answer) < MaxBuffer - 1 => answer' = Append(answer, s[o + 1]) /\ Len(answer') = Len(answer) + 1
      BY <1>1, <2>1, PutShape
    <3>2. \A a, b \in Nat : b <= o => (a <= b + 1 => a <= o + 1)
      OBVIOUS
    <3>. QED BY <1>3, <1>5, <3>1, <3>2
  <2>3. body'.chunked = body.chunked /\ body'.fblank = body.fblank /\ body'.size = body.size /\ body'.copy = body.copy - 1
    BY <1>5, <2>1 DEF Body
  <2>4. ASSUME Plain(r)
        PROVE  answer' = SubSeq(s, 1, o + 1) /\ Len(answer') = o + 1
    <3>1. /\ SubSeq(s, 1, o) \in Seq(Bytes) /\ Len(SubSeq(s, 1, o)) = (o - 1) + 1
          /\ Append(SubSeq(s, 1, o), s[o + 1]) = SubSeq(s, 1, o + 1)
      BY <1>1, OneMore
    <3>2. Len(answer) = o /\ L \in 1..(MaxBuffer - 1) /\ MaxBuffer \in Nat
      BY <1>3, <2>4, <3>1, HttpConstants DEF Plain
    <3>3. Len(answer) < MaxBuffer - 1
      BY <1>1, <3>2
    <3>. QED BY <1>3, <2>2, <2>4, <3>1, <3>2, <3>3
  <2>5. CASE Len(answer') = L
    <3>1. o + 1 = L /\ rpc' = "unlock"
      BY <1>1, <1>3, <2>1, <2>2, <2>5
    <3>2. Plain(r) => answer' = s
      BY <1>1, <2>4, <3>1, SubSeqFull
    <3>. QED BY <3>1, <3>2
  <2>6. CASE Len(answer') # L
    <3>1. rpc' = "body"
      BY <1>3, <1>6, <2>1, <2>6
    <3>2. body'.copy >= L - (o + 1) /\ (o + 1 = L => Len(answer') < o + 1) /\ o + 1 \in 0..L
      BY <1>1, <1>3, <1>5, <2>2, <2>3, <2>6
    <3>3. Plain(r) => /\ o + 1 < L /\ body'.copy = L - (o + 1) /\ answer' = SubSeq(s, 1, o + 1)
                      /\ last' = s[o + 1] /\ o + 1 # 0
      BY <1>1, <1>2, <1>3, <1>6, <2>3, <2>4, <2>6
    <3>4. InLength(r, o + 1)'
      BY <1>3, <1>4, <2>2, <2>3, <3>2, <3>3
    <3>. QED BY <3>1, <3>4
  <2>. QED BY <2>5, <2>6
<1>. QED BY <1>6, <1>7, <1>8

\* The size in a line of chunk sizes: line ends in front of it are passed over.
LEMMA SizeRead ==
  ASSUME NEW c \in Seq(Toks), NEW m \in Nat \ {0}, Len(c) = m + 1, c[m].t = "size",
         \A i \in 1..(m - 1) : c[i].t = "cr"
  PROVE  ChunkSize(c) = c[m].n
<1>. DEFINE first == {i \in 1..(Len(c) - 1) : c[i].t # "cr" /\ \A j \in 1..(i - 1) : c[j].t = "cr"}
<1>1. m \in first
  BY DEF first
<1>2. ASSUME NEW i \in first PROVE i = m
  <2>1. i \in 1..m /\ c[i].t # "cr"
    OBVIOUS
  <2>2. i \notin 1..(m - 1)
    BY <2>1
  <2>. QED BY <2>1, <2>2
<1>3. (CHOOSE i \in first : TRUE) = m
  <2>. HIDE DEF first
  <2>. QED BY <1>1, <1>2
<1>. HIDE DEF first
<1>4. ChunkSize(c) = IF \E i \in first : c[i].t = "size" THEN c[CHOOSE i \in first : TRUE].n ELSE 0
  BY DEF ChunkSize, first
<1>. QED BY <1>1, <1>3, <1>4

LEMMA AppendJoined ==
  ASSUME NEW s \in Seq(Toks), NEW t \in Seq(Toks), NEW x \in Toks
  PROVE  Append(s \o t, x) = s \o Append(t, x)
<1>. DEFINE u == s \o t
            v == Append(t, x)
            a == Append(u, x)
            b == s \o v
<1>1. /\ u \in Seq(Toks) /\ Len(u) = Len(s) + Len(t) /\ Len(s) \in Nat /\ Len(t) \in Nat
      /\ \A i \in 1..Len(s) : u[i] = s[i]
      /\ \A i \in 1..Len(t) : u[Len(s) + i] = t[i]
  BY JoinedAt, LenProperties
<1>2. /\ v \in Seq(Toks) /\ Len(v) = Len(t) + 1 /\ v[Len(t) + 1] = x
      /\ \A i \in 1..Len(t) : v[i] = t[i]
  BY AppendProperties
<1>3. /\ b \in Seq(Toks) /\ Len(b) = Len(s) + Len(v)
      /\ \A i \in 1..Len(s) : b[i] = s[i]
      /\ \A i \in 1..Len(v) : b[Len(s) + i] = v[i]
  BY <1>2, JoinedAt
<1>4. /\ a \in Seq(Toks) /\ Len(a) = Len(u) + 1 /\ a[Len(u) + 1] = x
      /\ \A i \in 1..Len(u) : a[i] = u[i]
  BY <1>1, AppendProperties
<1>. HIDE DEF u, v, a, b
<1>5. Len(a) = Len(b)
  BY <1>1, <1>2, <1>3, <1>4
<1>6. ASSUME NEW i \in 1..Len(a) PROVE a[i] = b[i]
  <2>1. CASE i \in 1..Len(s)
    BY <1>1, <1>3, <1>4, <2>1
  <2>2. CASE i > Len(s) /\ i <= Len(u)
    <3>1. PICK j \in 1..Len(t) : i = Len(s) + j
      <4>1. i - Len(s) \in 1..Len(t) /\ i = Len(s) + (i - Len(s))
        BY <1>1, <2>2
      <4>. QED BY <4>1
    <3>2. i \in 1..Len(u) /\ j \in 1..Len(v)
      BY <1>1, <1>2, <2>2, <3>1
    <3>. QED BY <1>1, <1>2, <1>3, <1>4, <3>1, <3>2
  <2>3. CASE i = Len(u) + 1
    <3>1. i = Len(s) + (Len(t) + 1) /\ Len(t) + 1 \in 1..Len(v)
      BY <1>1, <1>2, <2>3
    <3>. QED BY <1>2, <1>3, <1>4, <2>3, <3>1
  <2>. QED BY <1>1, <1>4, <2>1, <2>2, <2>3
<1>7. a = b
  BY <1>3, <1>4, <1>5, <1>6, SeqEqual
<1>. QED BY <1>7 DEF a, b, u, v

\* The line that announces a chunk.
LEMMA SizeLineStep ==
  ASSUME TypeOK, NEW s \in Seq(Bytes), NEW k \in 0..2, InChunk(s, k), ReadBody,
         wire[pos + 1] = Chunk(s)[k + 1]
  PROVE  rpc' = "body" /\ InChunk(s, k + 1)' /\ answer' = answer
<1>. DEFINE C == Chunk(s)
            x == wire[pos + 1]
            L == Len(s)
<1>1. /\ C \in Seq(Toks) /\ Len(C) = L + 5 /\ L \in Nat
      /\ C[1] = Token("size", L) /\ C[2] = Byte("cr") /\ C[3] = Byte("lf")
  BY ChunkShape
<1>2. body \in Body /\ body.enc \in Seq(Toks) /\ body.chunked /\ body.size = 0 /\ body.copy = 0
      /\ ~body.fterm /\ ~body.fblank
  <2>1. body \in Body /\ body.enc \in Seq(Toks)
    BY DEF TypeOK, Body
  <2>2. k < 3
    OBVIOUS
  <2>. QED BY <2>1, <2>2 DEF InChunk
<1>3. PICK e \in {<<>>, <<Byte("cr")>>} : body.enc = e \o SubSeq(C, 1, k)
  BY DEF InChunk
<1>. DEFINE u == SubSeq(C, 1, k)
<1>4. /\ u \in Seq(Toks) /\ Len(u) = k /\ Append(u, C[k + 1]) = SubSeq(C, 1, k + 1)
      /\ SubSeq(C, 1, k + 1) \in Seq(Toks)
      /\ C[k + 1] \in Toks
  <2>1. k \in Nat /\ k < Len(C) /\ 1 <= k + 1 /\ 1 \in Nat \ {0} /\ k + 1 \in 1..Len(C)
    BY <1>1
  <2>2. Len(SubSeq(C, 1, k)) = (k - 1) + 1
    BY <1>1, <2>1, OneMore
  <2>. HIDE DEF C
  <2>3. C[k + 1] \in Toks
    BY <1>1, <2>1, ElementOfSeq
  <2>. QED BY <1>1, <2>1, <2>2, <2>3, OneMore
<1>5. e \in Seq(Toks) /\ Len(e) \in {0, 1} /\ (Len(e) = 1 => e[1] = Byte("cr"))
  <2>1. Byte("cr") \in Toks
    BY ByteType DEF Bytes
  <2>2. CASE e = <<>>
    BY <2>2
  <2>3. CASE e = <<Byte("cr")>>
    <3>. DEFINE y == Byte("cr")
    <3>. HIDE DEF y
    <3>1. <<y>> \in Seq(Toks) /\ Len(<<y>>) = 1 /\ <<y>>[1] = y
      BY <2>1 DEF y
    <3>. QED BY <2>3, <3>1 DEF y
  <2>. QED BY <1>3, <2>2, <2>3
<1>6. x.t = (IF k = 0 THEN "size" ELSE IF k = 1 THEN "cr" ELSE "lf")
  BY <1>1 DEF Byte, Token
<1>7. last = "cr" <=> k = 2
  <2>1. k # 0 => last = C[k].t
    BY DEF InChunk
  <2>2. k = 0 => last # "cr"
    BY DEF InChunk
  <2>. QED BY <1>1, <2>1, <2>2 DEF Byte, Token
<1>8. Term(x) <=> k = 2
  BY <1>6, <1>7 DEF Term
<1>9. last' = x.t /\ rpc = "body" /\ SizeByte(x)
  BY <1>2, BodyCases
<1>. HIDE DEF x
<1>10. rpc' = "body" /\ answer' = answer
  BY <1>9 DEF SizeByte
<1>11. last' = C[k + 1].t /\ k + 1 \in 0..(L + 4) /\ k + 1 # 0
  BY <1>1, <1>9 DEF x
<1>12. CASE k < 2
  <2>1. body' = [body EXCEPT !.enc = Append(@, x)]
    BY <1>2, <1>8, <1>9, <1>12 DEF SizeByte
  <2>2. /\ body'.chunked /\ body'.size = 0 /\ body'.copy = 0 /\ ~body'.fterm /\ ~body'.fblank
        /\ body'.enc = Append(body.enc, x)
    BY <1>2, <2>1 DEF Body
  <2>3. Append(e \o u, C[k + 1]) = e \o SubSeq(C, 1, k + 1)
    <3>1. Append(e \o u, C[k + 1]) = e \o Append(u, C[k + 1])
      <4>. DEFINE z == C[k + 1]
      <4>1. e \in Seq(Toks) /\ u \in Seq(Toks) /\ z \in Toks
        BY <1>4, <1>5
      <4>. HIDE DEF z, u
      <4>2. Append(e \o u, z) = e \o Append(u, z)
        BY <4>1, AppendJoined
      <4>. QED BY <4>2 DEF z
    <3>. QED BY <1>4, <3>1
  <2>4. body'.enc = e \o SubSeq(C, 1, k + 1)
    BY <1>3, <2>2, <2>3 DEF x
  <2>5. k + 1 < 3 /\ ~(k + 1 >= 3)
    BY <1>12
  <2>. QED BY <1>10, <1>11, <2>2, <2>4, <2>5 DEF InChunk
<1>13. CASE k = 2
  <2>. DEFINE c == e \o u
              m == Len(e) + 1
  <2>1. c \in Seq(Toks) /\ Len(c) = Len(e) + 2
        /\ (\A i \in 1..Len(e) : c[i] = e[i]) /\ c[m] = u[1]
    <3>1. c \in Seq(Toks) /\ Len(c) = Len(e) + Len(u)
          /\ (\A i \in 1..Len(e) : c[i] = e[i]) /\ (\A i \in 1..Len(u) : c[Len(e) + i] = u[i])
      <4>. HIDE DEF u
      <4>. QED BY <1>4, <1>5, JoinedAt
    <3>2. Len(u) = 2 /\ 1 \in 1..Len(u)
      BY <1>4, <1>13
    <3>. QED BY <3>1, <3>2
  <2>2. u[1] = Token("size", L)
    <3>1. u = SubSeq(C, 1, 2) /\ 1 \in 1..2
      BY <1>13
    <3>. HIDE DEF C
    <3>2. SubSeq(C, 1, 2)[1] = C[1]
      BY <1>1
    <3>. QED BY <1>1, <3>1, <3>2
  <2>3. c # <<>> /\ ChunkSize(c) = L
    <3>. HIDE DEF c, u
    <3>1. m \in Nat \ {0} /\ Len(c) = m + 1 /\ (m - 1) = Len(e)
      BY <1>5, <2>1
    <3>2. c[m].t = "size" /\ c[m].n = L
      BY <2>1, <2>2 DEF Token
    <3>3. \A i \in 1..(m - 1) : c[i].t = "cr"
      BY <1>5, <2>1, <3>1, SMTT(30) DEF Byte, Token
    <3>4. c # <<>>
      BY <2>1, <3>1
    <3>. HIDE DEF m
    <3>. QED BY <2>1, <3>1, <3>2, <3>3, <3>4, SizeRead
  <2>4. body' = [body EXCEPT !.copy = ChunkSize(body.enc), !.enc = <<>>, !.fblank = (ChunkSize(body.enc) = 0)]
    BY <1>2, <1>3, <1>8, <1>9, <1>13, <2>3 DEF SizeByte
  <2>5. ChunkSize(body.enc) = L
    BY <1>3, <2>3
  <2>6. /\ body'.chunked /\ body'.size = 0 /\ body'.copy = L /\ ~body'.fterm /\ body'.fblank = (L = 0)
        /\ body'.enc = <<>>
    BY <1>2, <2>4, <2>5 DEF Body
  <2>7. L = 0 <=> s = <<>>
    BY EmptySeq
  <2>8. /\ body'.chunked /\ body'.size = 0 /\ 3 \in 0..(L + 4) /\ last' = C[3].t
        /\ body'.copy = (IF 3 = L + 4 THEN 0 ELSE L + 3 - 3)
        /\ body'.fterm = (3 > 3 /\ s # <<>>) /\ body'.fblank = (s = <<>>)
        /\ body'.enc = (IF 3 = L + 4 THEN <<Byte("cr")>> ELSE <<>>)
        => InChunk(s, 3)'
    <3>1. 3 # 0 /\ ~(3 < 3)
      OBVIOUS
    <3>. HIDE DEF C
    <3>. QED BY <3>1 DEF InChunk, C
  <2>9. 3 # L + 4 /\ (L + 3) - 3 = L
    BY <1>1
  <2>10. body'.fterm = FALSE /\ body'.fblank = (s = <<>>)
    <3>1. body'.fterm = body.fterm /\ body.fterm \in BOOLEAN
      BY <1>2, <2>4 DEF Body
    <3>. QED BY <1>2, <2>6, <2>7, <3>1
  <2>11. InChunk(s, 3)'
    <3>1. last' = C[3].t /\ 3 \in 0..(L + 4)
      BY <1>11, <1>13
    <3>. HIDE DEF C
    <3>2. ~(3 > 3)
      OBVIOUS
    <3>3. body'.fterm = (3 > 3 /\ s # <<>>)
      BY <2>10, <3>2
    <3>. QED BY <2>6, <2>8, <2>9, <2>10, <3>1, <3>3
  <2>. QED BY <1>10, <1>13, <2>11
<1>. QED BY <1>12, <1>13

\* What it is to have read the size line of a chunk, field by field.
LEMMA ChunkState ==
  ASSUME NEW s \in Seq(Bytes), NEW k \in 3..(Len(s) + 4)
  PROVE  /\ InChunk(s, k) =>
              /\ body.chunked /\ body.size = 0 /\ last = Chunk(s)[k].t
              /\ body.copy = (IF k = Len(s) + 4 THEN 0 ELSE Len(s) + 3 - k)
              /\ body.fterm = (k > 3 /\ s # <<>>) /\ body.fblank = (s = <<>>)
              /\ body.enc = (IF k = Len(s) + 4 THEN <<Byte("cr")>> ELSE <<>>)
         /\ /\ body'.chunked /\ body'.size = 0 /\ last' = Chunk(s)[k].t
            /\ body'.copy = (IF k = Len(s) + 4 THEN 0 ELSE Len(s) + 3 - k)
            /\ body'.fterm = (k > 3 /\ s # <<>>) /\ body'.fblank = (s = <<>>)
            /\ body'.enc = (IF k = Len(s) + 4 THEN <<Byte("cr")>> ELSE <<>>)
            => InChunk(s, k)'
<1>1. k # 0 /\ ~(k < 3) /\ k \in 0..(Len(s) + 4) /\ k >= 3
  BY LenProperties
<1>. QED BY <1>1 DEF InChunk

\* A byte of a chunk.
LEMMA ChunkByteStep ==
  ASSUME TypeOK, MaxBuffer > 1, NEW s \in Seq(Bytes), Unbroken(s),
         NEW k \in 3..(Len(s) + 2), InChunk(s, k), ReadBody,
         wire[pos + 1] = Chunk(s)[k + 1]
  PROVE  rpc' = "body" /\ InChunk(s, k + 1)' /\ answer' = Put(s[k - 2])
<1>. DEFINE C == Chunk(s)
            x == wire[pos + 1]
            L == Len(s)
            i == k - 2
<1>1. /\ L \in Nat /\ i \in 1..L /\ k = 3 + (i - 1) /\ k + 1 = 3 + i /\ k \in 3..(L + 4) /\ k + 1 \in 3..(L + 4)
      /\ k # L + 4 /\ k + 1 # L + 4 /\ k > 2 /\ s # <<>>
  <2>1. L \in Nat
    BY LenProperties
  <2>. QED BY <2>1
<1>2. C[k + 1] = Byte(s[i]) /\ s[i] \in Bytes /\ s[i] \in Kinds /\ (i > 1 => C[k] = Byte(s[i - 1]))
  <2>1. \A j \in 1..L : C[3 + j] = Byte(s[j]) /\ s[j] \in Bytes
    BY ChunkShape
  <2>2. i > 1 => i - 1 \in 1..L
    BY <1>1
  <2>. HIDE DEF C, i
  <2>. QED BY <1>1, <2>1, <2>2, ByteType
<1>3. /\ body.chunked /\ body.size = 0 /\ last = C[k].t /\ body.copy = L + 3 - k
      /\ body.fterm = (k > 3 /\ s # <<>>) /\ body.fblank = (s = <<>>) /\ body.enc = <<>>
  BY <1>1, ChunkState
<1>4. body \in Body /\ body.copy > 0 /\ ~body.fblank
  <2>1. body \in Body
    BY DEF TypeOK
  <2>2. L + 3 - k > 0
    BY <1>1
  <2>. QED BY <1>1, <1>3, <2>1, <2>2
<1>5. ~(Term(x) /\ body.fterm)
  <2>1. SUFFICES ASSUME Term(x), body.fterm PROVE FALSE
    OBVIOUS
  <2>2. k > 3 /\ x.t = "lf" /\ last = "cr"
    BY <1>3, <2>1 DEF Term
  <2>3. i > 1 /\ i - 1 \in 1..(L - 1) /\ (i - 1) + 1 = i
    BY <1>1, <2>2
  <2>4. s[i - 1] = "cr" /\ s[i] = "lf"
    <3>1. C[k] = Byte(s[i - 1]) /\ x = Byte(s[i]) /\ x.t = "lf" /\ C[k].t = "cr"
      BY <1>2, <1>3, <2>2, <2>3
    <3>. HIDE DEF C, x, i
    <3>. QED BY <3>1, ByteTok
  <2>. HIDE DEF i
  <2>. QED BY <2>3, <2>4 DEF Unbroken
<1>6. last' = x.t /\ rpc = "body" /\ CopyByte(x)
  BY <1>4, <1>5, BodyCases
<1>7. x.t = s[i]
  BY <1>2, ByteTok
<1>. HIDE DEF x, C
<1>8. answer' = Put(s[i]) /\ Len(answer') # 0
  <2>1. answer' = Put(s[i])
    BY <1>6, <1>7 DEF CopyByte, Put
  <2>2. Len(Put(s[i])) > 0
    BY <1>2, PutShape
  <2>. HIDE DEF i
  <2>. QED BY <2>1, <2>2
<1>9. rpc' = rpc /\ body' = [body EXCEPT !.copy = @ - 1, !.fterm = TRUE]
  BY <1>3, <1>6, <1>8 DEF CopyByte
<1>10. /\ body'.chunked /\ body'.size = 0 /\ body'.copy = L + 3 - (k + 1)
       /\ body'.fterm = TRUE /\ body'.fblank = (s = <<>>) /\ body'.enc = <<>>
  <2>1. /\ body'.chunked = body.chunked /\ body'.size = body.size /\ body'.copy = body.copy - 1
        /\ body'.fterm = TRUE /\ body'.fblank = body.fblank /\ body'.enc = body.enc
    BY <1>4, <1>9 DEF Body
  <2>2. (L + 3 - k) - 1 = L + 3 - (k + 1)
    BY <1>1
  <2>. QED BY <1>3, <2>1, <2>2
<1>11. last' = C[k + 1].t
  BY <1>6 DEF x, C
<1>12. body'.fterm = (k + 1 > 3 /\ s # <<>>)
  <2>1. k + 1 > 3 /\ s # <<>>
    BY <1>1
  <2>. QED BY <1>10, <2>1
<1>13. InChunk(s, k + 1)'
  <2>1. k + 1 \in 3..(L + 4) /\ k + 1 # L + 4
    BY <1>1
  <2>. DEFINE n == k + 1
  <2>. HIDE DEF n
  <2>2. /\ body'.chunked /\ body'.size = 0 /\ last' = Chunk(s)[n].t
        /\ body'.copy = (IF n = Len(s) + 4 THEN 0 ELSE Len(s) + 3 - n)
        /\ body'.fterm = (n > 3 /\ s # <<>>) /\ body'.fblank = (s = <<>>)
        /\ body'.enc = (IF n = Len(s) + 4 THEN <<Byte("cr")>> ELSE <<>>)
        => InChunk(s, n)'
    BY <2>1, ChunkState DEF n
  <2>. QED BY <1>10, <1>11, <1>12, <2>1, <2>2 DEF n, C
<1>. QED BY <1>6, <1>8, <1>9, <1>13

\* The line end of a chunk.
LEMMA ChunkEndStep ==
  ASSUME TypeOK, NEW s \in Seq(Bytes), NEW k \in (Len(s) + 3)..(Len(s) + 4), InChunk(s, k), ReadBody,
         wire[pos + 1] = Chunk(s)[k + 1]
  PROVE  /\ answer' = answer
         /\ k = Len(s) + 3 => rpc' = "body" /\ InChunk(s, k + 1)'
         /\ k = Len(s) + 4 /\ s # <<>> => rpc' = "body" /\ \A t \in Seq(Bytes) : InChunk(t, 0)'
         /\ k = Len(s) + 4 /\ s = <<>> => rpc' = "unlock"
<1>. DEFINE C == Chunk(s)
            x == wire[pos + 1]
            L == Len(s)
<1>1. L \in Nat /\ k \in 3..(L + 4)
  BY LenProperties
<1>2. L = 0 <=> s = <<>>
  BY EmptySeq
<1>3. /\ body.chunked /\ body.size = 0 /\ last = C[k].t /\ body.copy = 0
      /\ body.fterm = (k > 3 /\ s # <<>>) /\ body.fblank = (s = <<>>)
      /\ body.enc = (IF k = L + 4 THEN <<Byte("cr")>> ELSE <<>>)
  <2>1. /\ body.chunked /\ body.size = 0 /\ last = C[k].t
        /\ body.copy = (IF k = L + 4 THEN 0 ELSE L + 3 - k)
        /\ body.fterm = (k > 3 /\ s # <<>>) /\ body.fblank = (s = <<>>)
        /\ body.enc = (IF k = L + 4 THEN <<Byte("cr")>> ELSE <<>>)
    BY <1>1, ChunkState
  <2>. QED BY <1>1, <2>1
<1>4. body \in Body
  BY DEF TypeOK
<1>5. C[L + 4] = Byte("cr") /\ C[L + 5] = Byte("lf")
  BY ChunkShape
<1>6. CASE k = L + 3
  <2>1. x.t = "cr" /\ ~Term(x)
    <3>1. k + 1 = L + 4
      BY <1>1, <1>6
    <3>2. x.t = "cr"
      BY <1>5, <3>1, ByteTok
    <3>. QED BY <3>2 DEF Term
  <2>2. last' = x.t /\ rpc = "body" /\ SizeByte(x)
    BY <1>3, <2>1, BodyCases
  <2>. HIDE DEF x
  <2>3. rpc' = "body" /\ answer' = answer /\ body' = [body EXCEPT !.enc = Append(@, x)]
    BY <1>3, <2>1, <2>2 DEF SizeByte
  <2>4. body.enc = <<>> /\ x = Byte("cr")
    <3>1. k # L + 4 /\ k + 1 = L + 4
      BY <1>1, <1>6
    <3>. QED BY <1>3, <1>5, <3>1 DEF x
  <2>5. /\ body'.chunked /\ body'.size = 0 /\ body'.copy = 0 /\ body'.fterm = body.fterm
        /\ body'.fblank = body.fblank /\ body'.enc = <<Byte("cr")>>
    <3>1. /\ body'.chunked = body.chunked /\ body'.size = body.size /\ body'.copy = body.copy
          /\ body'.fterm = body.fterm /\ body'.fblank = body.fblank /\ body'.enc = Append(body.enc, x)
      BY <1>4, <2>3 DEF Body
    <3>2. Append(body.enc, x) = <<x>>
      BY <2>4
    <3>. QED BY <1>3, <2>4, <3>1, <3>2
  <2>6. InChunk(s, L + 4)'
    <3>1. last' = C[L + 4].t
      BY <1>5, <2>2, <2>4
    <3>2. body'.fterm = (L + 4 > 3 /\ s # <<>>)
      <4>1. (k > 3 /\ s # <<>>) <=> (L + 4 > 3 /\ s # <<>>)
        BY <1>1, <1>2, <1>6
      <4>. QED BY <1>3, <2>5, <4>1
    <3>3. body'.fblank = (s = <<>>)
      BY <1>3, <2>5
    <3>4. L + 4 \in 3..(L + 4)
      BY <1>1
    <3>. DEFINE n == L + 4
    <3>. HIDE DEF n
    <3>5. n = Len(s) + 4 /\ n \in 3..(Len(s) + 4)
      BY <3>4 DEF n
    <3>6. /\ body'.chunked /\ body'.size = 0 /\ last' = Chunk(s)[n].t
          /\ body'.copy = (IF n = Len(s) + 4 THEN 0 ELSE Len(s) + 3 - n)
          /\ body'.fterm = (n > 3 /\ s # <<>>) /\ body'.fblank = (s = <<>>)
          /\ body'.enc = (IF n = Len(s) + 4 THEN <<Byte("cr")>> ELSE <<>>)
          => InChunk(s, n)'
      BY <3>5, ChunkState
    <3>. QED BY <2>5, <3>1, <3>2, <3>3, <3>5, <3>6 DEF n
  <2>7. k + 1 = L + 4 /\ k # L + 4
    BY <1>1, <1>6
  <2>. QED BY <1>6, <2>3, <2>6, <2>7
<1>7. CASE k = L + 4
  <2>1. x.t = "lf" /\ last = "cr" /\ Term(x)
    <3>1. k + 1 = L + 5
      BY <1>1, <1>7
    <3>2. x.t = "lf" /\ last = "cr"
      BY <1>3, <1>5, <1>7, <3>1, ByteTok
    <3>. QED BY <3>2 DEF Term
  <2>2. k # L + 3
    BY <1>1, <1>7
  <2>3. CASE s = <<>>
    <3>1. rpc' = "unlock" /\ answer' = answer
      BY <1>3, <2>1, <2>3, BodyCases
    <3>. QED BY <1>7, <2>2, <2>3, <3>1
  <2>4. CASE s # <<>>
    <3>1. body.fterm /\ ~body.fblank
      <4>1. k > 3
        BY <1>1, <1>7
      <4>. QED BY <1>3, <2>4, <4>1
    <3>2. last' = x.t /\ rpc = "body" /\ DropByte
      BY <2>1, <3>1, BodyCases
    <3>3. rpc' = "body" /\ answer' = answer /\ body' = [body EXCEPT !.fterm = FALSE]
      BY <3>2 DEF DropByte
    <3>4. /\ body'.chunked /\ body'.size = 0 /\ body'.copy = 0 /\ ~body'.fterm /\ ~body'.fblank
          /\ body'.enc = <<Byte("cr")>> /\ last' = "lf"
      BY <1>3, <1>4, <1>7, <2>1, <3>1, <3>2, <3>3 DEF Body
    <3>5. ASSUME NEW t \in Seq(Bytes) PROVE InChunk(t, 0)'
      <4>1. Len(t) \in Nat /\ 0 \in 0..(Len(t) + 4) /\ ~(0 >= 3)
        BY LenProperties
      <4>2. \E e \in {<<>>, <<Byte("cr")>>} : body'.enc = e \o SubSeq(Chunk(t), 1, 0)
        <5>1. Chunk(t) \in Seq(Toks) /\ SubSeq(Chunk(t), 1, 0) = <<>>
          <6>1. Chunk(t) \in Seq(Toks)
            BY ChunkShape
          <6>. QED BY <6>1
        <5>. DEFINE y == Byte("cr")
        <5>. HIDE DEF y
        <5>2. <<y>> \o <<>> = <<y>>
          OBVIOUS
        <5>. QED BY <3>4, <5>1, <5>2 DEF y
      <4>. QED BY <3>4, <4>1, <4>2 DEF InChunk
    <3>. QED BY <1>7, <2>2, <2>4, <3>3, <3>5
  <2>. QED BY <2>3, <2>4
<1>8. k = L + 3 \/ k = L + 4
  BY <1>1
<1>. QED BY <1>6, <1>7, <1>8

\* The bytes of chunk s among its first k tokens.
Taken(s, k) == IF k < 3 THEN 0 ELSE IF k > Len(s) + 3 THEN Len(s) ELSE k - 3

LEMMA InChunkedShape ==
  ASSUME NEW r, NEW o
  PROVE  /\ InChunked(r, o) => \E j \in 1..(Len(r.chunks) + 1) :
              /\ InChunk(Parts(r)[j], o - Offset(r, j))
              /\ Plain(r) => answer = SubSeq(Content(r), 1,
                                       Before(r, j) + Taken(Parts(r)[j], o - Offset(r, j)))
         /\ \A j \in 1..(Len(r.chunks) + 1) :
              /\ InChunk(Parts(r)[j], o - Offset(r, j))'
              /\ Plain(r) => answer' = SubSeq(Content(r), 1,
                                       Before(r, j) + Taken(Parts(r)[j], o - Offset(r, j)))
              => InChunked(r, o)'
BY DEF InChunked, Taken

\* A token of a chunked body.
LEMMA ChunkedStep ==
  ASSUME TypeOK, MaxBuffer > 1, NEW r \in Replies, Orderly(r), r.framing = "chunked",
         NEW o \in Nat, InChunked(r, o), ReadBody, wire[pos + 1] = ChunkedBody(r)[o + 1]
  PROVE  \/ rpc' = "body" /\ InChunked(r, o + 1)'
         \/ rpc' = "unlock" /\ o + 1 = Len(ChunkedBody(r)) /\ (Plain(r) => answer' = Content(r))
<1>. DEFINE m == Len(r.chunks)
            C == Content(r)
            B == ChunkedBody(r)
<1>1. PICK j \in 1..(m + 1) :
        /\ InChunk(Parts(r)[j], o - Offset(r, j))
        /\ Plain(r) => answer = SubSeq(C, 1, Before(r, j) + Taken(Parts(r)[j], o - Offset(r, j)))
  BY InChunkedShape
<1>. DEFINE s == Parts(r)[j]
            off == Offset(r, j)
            bef == Before(r, j)
            k == o - off
            L == Len(s)
<1>2. /\ m \in 0..2 /\ C \in Seq(Bytes) /\ Len(C) \in Nat /\ s \in Seq(Bytes) /\ L \in Nat
      /\ bef \in Nat /\ bef + L <= Len(C) /\ off \in Nat
      /\ \A i \in 1..L : C[bef + i] = s[i]
      /\ j \in 1..m => Before(r, j + 1) = bef + L /\ Offset(r, j + 1) = off + L + 5
      /\ j = m + 1 => s = <<>> /\ bef = Len(C)
      /\ Len(B) = Offset(r, m + 1) + 5
      /\ \A i \in 1..(L + 5) : B[off + i] = Chunk(s)[i]
  BY ReplyShape, ContentShape, OffsetShape, ChunkedShape, SMTT(30)
<1>3. Unbroken(s) /\ (j \in 1..m => s # <<>>) /\ (j \in 1..m \/ j = m + 1)
  <2>1. j \in 1..m \/ j = m + 1
    BY <1>2
  <2>2. j \in 1..m => s # <<>> /\ Unbroken(s)
    BY ContentShape DEF Orderly
  <2>3. Unbroken(<<>>)
    BY DEF Unbroken
  <2>. QED BY <1>2, <2>1, <2>2, <2>3
<1>. HIDE DEF B, C
<1>13. L \in Nat /\ off \in Nat /\ bef \in Nat
  BY <1>2
<1>4. k \in 0..(L + 4) /\ InChunk(s, k) /\ o = off + k /\ k + 1 = (o + 1) - off
  <2>1. InChunk(s, k) /\ k \in 0..(L + 4)
    BY <1>1 DEF InChunk
  <2>. HIDE DEF off, s
  <2>2. \A a, b \in Nat : a = b + (a - b) /\ (a - b) + 1 = (a + 1) - b
    OBVIOUS
  <2>. QED BY <1>13, <2>1, <2>2
<1>5. wire[pos + 1] = Chunk(s)[k + 1]
  <2>1. k + 1 \in 1..(L + 5) /\ off + (k + 1) = o + 1
    <3>. HIDE DEF s, k, off
    <3>. QED BY <1>13, <1>4
  <2>. HIDE DEF s, k, off, B
  <2>2. B[off + (k + 1)] = Chunk(s)[k + 1]
    BY <1>2, <2>1 DEF L
  <2>. QED BY <2>1, <2>2 DEF B
<1>6. Plain(r) => answer = SubSeq(C, 1, bef + Taken(s, k))
  BY <1>1
<1>7. ASSUME InChunk(s, k + 1)', Plain(r) => answer' = SubSeq(C, 1, bef + Taken(s, k + 1))
      PROVE  InChunked(r, o + 1)'
  <2>1. InChunk(Parts(r)[j], (o + 1) - Offset(r, j))'
    BY <1>4, <1>7
  <2>2. Plain(r) => answer' = SubSeq(Content(r), 1, Before(r, j) + Taken(Parts(r)[j], (o + 1) - Offset(r, j)))
    BY <1>4, <1>7 DEF C
  <2>. HIDE DEF s, off, bef, k, C
  <2>. QED BY <2>1, <2>2, InChunkedShape DEF m
<1>. HIDE DEF s, off, bef, k, L
<1>8. CASE k < 3
  <2>1. rpc' = "body" /\ InChunk(s, k + 1)' /\ answer' = answer
    <3>1. k \in 0..2
      BY <1>13, <1>4, <1>8
    <3>. QED BY <1>2, <1>4, <1>5, <3>1, SizeLineStep
  <2>2. Taken(s, k + 1) = Taken(s, k)
    BY <1>4, <1>8, <1>13 DEF Taken, L
  <2>. QED BY <1>6, <1>7, <2>1, <2>2
<1>9. CASE k \in 3..(L + 2)
  <2>1. rpc' = "body" /\ InChunk(s, k + 1)' /\ answer' = Put(s[k - 2])
    BY <1>2, <1>3, <1>4, <1>5, <1>9, ChunkByteStep DEF L
  <2>2. Taken(s, k) = k - 3 /\ Taken(s, k + 1) = k - 2
    BY <1>9, <1>13 DEF Taken, L
  <2>3. ASSUME Plain(r) PROVE answer' = SubSeq(C, 1, bef + (k - 2))
    <3>. DEFINE n == bef + (k - 3)
    <3>1. n \in Nat /\ n < Len(C) /\ n + 1 = bef + (k - 2) /\ k - 2 \in 1..L /\ 1 <= n + 1 /\ 1 \in Nat \ {0}
      <4>1. k - 3 < L /\ bef + L <= Len(C) /\ Len(C) \in Nat
        BY <1>2, <1>9, <1>13
      <4>2. k - 3 \in Nat /\ k - 2 \in 1..L
        BY <1>9, <1>13
      <4>3. n \in Nat /\ n < Len(C)
        BY <1>13, <4>1, <4>2
      <4>4. (k - 3) + 1 = k - 2 /\ \A a, b \in Nat : (a + b) + 1 = a + (b + 1)
        BY <1>9
      <4>5. n + 1 = bef + (k - 2)
        BY <1>13, <4>2, <4>4
      <4>. HIDE DEF n
      <4>. QED BY <4>2, <4>3, <4>5
    <3>2. C[n + 1] = s[k - 2] /\ answer = SubSeq(C, 1, n)
      BY <1>2, <1>6, <2>2, <2>3, <3>1
    <3>3. Len(SubSeq(C, 1, n)) = (n - 1) + 1 /\ Append(SubSeq(C, 1, n), C[n + 1]) = SubSeq(C, 1, n + 1)
      <4>. HIDE DEF n
      <4>1. C \in Seq(Bytes)
        BY <1>2
      <4>. QED BY <3>1, <4>1, OneMore
    <3>4. Len(answer) = n /\ Len(C) \in 1..(MaxBuffer - 1) /\ MaxBuffer \in Nat
      BY <2>3, <3>1, <3>2, <3>3, HttpConstants DEF Plain, C
    <3>5. Len(answer) < MaxBuffer - 1 /\ s[k - 2] \in Kinds
      <4>1. Len(answer) < MaxBuffer - 1
        <5>1. \A a, b, c \in Nat : a < b /\ b \in 1..(c - 1) => a < c - 1
          OBVIOUS
        <5>2. Len(C) \in Nat
          BY <1>2
        <5>. HIDE DEF n
        <5>. QED BY <3>1, <3>4, <5>1, <5>2
      <4>2. s[k - 2] \in Bytes
        BY <1>2, <3>1, ElementOfSeq DEF L
      <4>. QED BY <4>1, <4>2, ByteType
    <3>6. Put(s[k - 2]) = Append(answer, s[k - 2])
      BY <3>5 DEF Put
    <3>. HIDE DEF n, C
    <3>. QED BY <2>1, <3>1, <3>2, <3>3, <3>6
  <2>. QED BY <1>7, <2>1, <2>2, <2>3
<1>10. CASE k = L + 3
  <2>1. rpc' = "body" /\ InChunk(s, k + 1)' /\ answer' = answer
    <3>1. k \in (L + 3)..(L + 4)
      BY <1>10, <1>13
    <3>. QED BY <1>2, <1>4, <1>5, <1>10, <3>1, ChunkEndStep DEF L
  <2>2. Taken(s, k + 1) = Taken(s, k)
    BY <1>10, <1>13 DEF Taken, L
  <2>. QED BY <1>6, <1>7, <2>1, <2>2
<1>11. CASE k = L + 4
  <2>1. /\ answer' = answer
        /\ s # <<>> => rpc' = "body" /\ \A t \in Seq(Bytes) : InChunk(t, 0)'
        /\ s = <<>> => rpc' = "unlock"
    <3>1. k \in (L + 3)..(L + 4)
      BY <1>13, <1>11
    <3>. QED BY <1>2, <1>4, <1>5, <1>11, <3>1, ChunkEndStep DEF L
  <2>2. Taken(s, k) = L
    BY <1>11, <1>13 DEF Taken, L
  <2>3. CASE j \in 1..m
    <3>. DEFINE t == Parts(r)[j + 1]
    <3>1. j + 1 \in 1..(m + 1) /\ t \in Seq(Bytes)
      <4>1. j + 1 \in 1..(m + 1)
        BY <1>2, <2>3
      <4>. QED BY <4>1, ContentShape
    <3>2. (o + 1) - Offset(r, j + 1) = 0 /\ Taken(t, 0) = 0 /\ Before(r, j + 1) + 0 = bef + L
      BY <1>2, <1>4, <1>11, <2>3 DEF Taken
    <3>3. rpc' = "body" /\ InChunk(t, 0)'
      BY <1>3, <2>1, <2>3, <3>1
    <3>4. Plain(r) => answer' = SubSeq(C, 1, Before(r, j + 1) + Taken(t, 0))
      BY <1>6, <2>1, <2>2, <3>2
    <3>5. InChunk(Parts(r)[j + 1], (o + 1) - Offset(r, j + 1))'
      BY <3>2, <3>3
    <3>6. Plain(r) => answer' = SubSeq(Content(r), 1, Before(r, j + 1) + Taken(Parts(r)[j + 1], (o + 1) - Offset(r, j + 1)))
      BY <3>2, <3>4 DEF C
    <3>. HIDE DEF t, C
    <3>7. InChunked(r, o + 1)'
      BY <3>1, <3>5, <3>6, InChunkedShape DEF m
    <3>. QED BY <3>3, <3>7
  <2>4. CASE j = m + 1
    <3>1. s = <<>> /\ bef = Len(C) /\ L = 0
      BY <1>2, <2>4, EmptySeq DEF L
    <3>2. o + 1 = Len(B)
      BY <1>2, <1>4, <1>11, <2>4, <3>1 DEF off
    <3>3. Plain(r) => answer' = C
      <4>1. bef + L = Len(C)
        BY <1>2, <3>1
      <4>. HIDE DEF C
      <4>. QED BY <1>2, <1>6, <2>1, <2>2, <4>1, SubSeqFull
    <3>. QED BY <2>1, <3>1, <3>2, <3>3 DEF B, C
  <2>. QED BY <1>3, <2>3, <2>4
<1>12. k < 3 \/ k \in 3..(L + 2) \/ k = L + 3 \/ k = L + 4
  BY <1>2, <1>4
<1>. QED BY <1>8, <1>9, <1>10, <1>11, <1>12

\* The body begins when the receiver has locked.
LEMMA BodyStart ==
  ASSUME NEW r \in Replies, Orderly(r), body' = FrameLocals(r), answer' = <<>>, last' = "none"
  PROVE  InBody(r, 0)'
<1>. DEFINE C == Content(r)
<1>1. C \in Seq(Bytes) /\ Len(C) \in Nat /\ r.framing \in {"length", "chunked"}
  BY ReplyShape, ContentShape DEF Orderly
<1>2. SubSeq(C, 1, 0) = <<>> /\ Len(answer') = 0
  <2>. HIDE DEF C
  <2>. QED BY <1>1
<1>3. CASE r.framing = "length"
  <2>1. body' = [Locals EXCEPT !.size = Len(C), !.copy = Len(C)]
    BY <1>3 DEF FrameLocals
  <2>2. /\ ~body'.chunked /\ ~body'.fblank /\ body'.size = Len(C) /\ body'.copy = Len(C)
    BY <2>1 DEF Locals
  <2>3. Plain(r) => 0 < Len(C)
    BY <1>1 DEF Plain
  <2>4. 0 \in 0..Len(C) /\ Len(C) - 0 = Len(C) /\ Len(C) >= Len(C) /\ ~(0 > 0) /\ 0 <= 0
    BY <1>1
  <2>5. InLength(r, 0)'
    <3>. HIDE DEF C
    <3>. QED BY <1>2, <2>2, <2>3, <2>4 DEF InLength, C
  <2>. QED BY <1>3, <2>5 DEF InBody
<1>4. CASE r.framing = "chunked"
  <2>1. body' = [Locals EXCEPT !.chunked = TRUE]
    BY <1>4 DEF FrameLocals
  <2>2. /\ body'.chunked /\ body'.size = 0 /\ body'.copy = 0 /\ ~body'.fterm /\ ~body'.fblank
        /\ body'.enc = <<>>
    BY <2>1 DEF Locals
  <2>3. ASSUME NEW s \in Seq(Bytes) PROVE InChunk(s, 0)'
    <3>1. Len(s) \in Nat /\ 0 \in 0..(Len(s) + 4) /\ ~(0 >= 3)
      BY LenProperties
    <3>2. SubSeq(Chunk(s), 1, 0) = <<>>
      <4>1. Chunk(s) \in Seq(Toks)
        BY ChunkShape
      <4>. QED BY <4>1
    <3>3. \E e \in {<<>>, <<Byte("cr")>>} : body'.enc = e \o SubSeq(Chunk(s), 1, 0)
      BY <2>2, <3>2
    <3>. QED BY <2>2, <3>1, <3>3 DEF InChunk
  <2>4. 1 \in 1..(Len(r.chunks) + 1) /\ Parts(r)[1] \in Seq(Bytes) /\ Offset(r, 1) = 0 /\ 0 - 0 = 0
    <3>1. 1 \in 1..(Len(r.chunks) + 1)
      BY ReplyShape
    <3>. QED BY <3>1, ContentShape, OffsetShape
  <2>5. Before(r, 1) + Taken(Parts(r)[1], 0) = 0
    BY DEF Before, Taken
  <2>6. InChunk(Parts(r)[1], 0 - Offset(r, 1))'
    BY <2>3, <2>4
  <2>7. answer' = SubSeq(Content(r), 1, Before(r, 1) + Taken(Parts(r)[1], 0 - Offset(r, 1)))
    BY <1>2, <2>4, <2>5
  <2>8. InChunked(r, 0)'
    BY <2>4, <2>6, <2>7, InChunkedShape
  <2>. QED BY <1>4, <2>8 DEF InBody
<1>. QED BY <1>1, <1>3, <1>4

\* Inside a body, and not at its end if the answer has become its content.
LEMMA BodyBound ==
  ASSUME NEW r \in Replies, NEW o \in Int, Orderly(r), InBody(r, o)
  PROVE  /\ o \in 0..Len(BodyTokens(r)) /\ Len(BodyTokens(r)) \in Nat
         /\ Plain(r) => o < Len(BodyTokens(r))
<1>. DEFINE C == Content(r)
<1>1. C \in Seq(Bytes) /\ Len(C) \in Nat /\ r.framing \in {"length", "chunked"}
  BY ReplyShape, ContentShape DEF Orderly
<1>2. CASE r.framing = "length"
  <2>1. Len(BodyTokens(r)) = Len(C)
    BY <1>1, <1>2, RawShape DEF BodyTokens
  <2>2. InLength(r, o)
    BY <1>2 DEF InBody
  <2>. QED BY <1>1, <2>1, <2>2 DEF InLength
<1>3. CASE r.framing = "chunked"
  <2>. DEFINE m == Len(r.chunks)
              B == ChunkedBody(r)
  <2>1. BodyTokens(r) = B
    BY <1>3 DEF BodyTokens
  <2>2. PICK j \in 1..(m + 1) : InChunk(Parts(r)[j], o - Offset(r, j))
    BY <1>3, InChunkedShape DEF InBody
  <2>. DEFINE s == Parts(r)[j]
              k == o - Offset(r, j)
  <2>3. /\ m \in Nat /\ Len(s) \in Nat /\ Before(r, j) \in Nat /\ Before(r, j) + Len(s) <= Len(C)
        /\ Before(r, m + 1) = Len(C) /\ Len(B) = Offset(r, m + 1) + 5
    <3>1. m \in Nat
      BY ReplyShape
    <3>. QED BY <3>1, ContentShape, ChunkedShape
  <2>4. k \in 0..(Len(s) + 4)
    BY <2>2 DEF InChunk
  <2>5. Len(B) = Len(C) + 5 * ((m + 1) - 1) + 5 /\ Offset(r, j) = Before(r, j) + 5 * (j - 1)
    BY <2>3 DEF Offset
  <2>. HIDE DEF m, s, B, C
  <2>6. o = Before(r, j) + 5 * (j - 1) + k
    <3>1. \A a \in Int : \A b \in Int : a = b + (a - b)
      OBVIOUS
    <3>2. Offset(r, j) \in Int
      BY <2>3, <2>5
    <3>. QED BY <2>5, <3>1, <3>2
  <2>. HIDE DEF k
  <2>7. o >= 0 /\ o < Len(B) /\ Len(B) \in Nat
    BY <1>1, <2>3, <2>4, <2>5, <2>6 DEF C
  <2>. QED BY <2>1, <2>7
<1>. QED BY <1>1, <1>2, <1>3

\* A token of a body.
LEMMA BodyStep ==
  ASSUME TypeOK, MaxBuffer > 1, NEW r \in Replies, Orderly(r), NEW o \in Nat, InBody(r, o),
         o < Len(BodyTokens(r)), ReadBody, wire[pos + 1] = BodyTokens(r)[o + 1]
  PROVE  \/ rpc' = "body" /\ InBody(r, o + 1)'
         \/ rpc' = "unlock" /\ o + 1 = Len(BodyTokens(r)) /\ (Plain(r) => answer' = Content(r))
<1>1. r.framing \in {"length", "chunked"}
  BY ReplyShape DEF Orderly
<1>2. CASE r.framing = "length"
  <2>1. InLength(r, o) /\ BodyTokens(r) = Raw(Content(r)) /\ Content(r) \in Seq(Bytes)
    BY <1>2, ContentShape DEF InBody, BodyTokens
  <2>. DEFINE s == Content(r)
  <2>. HIDE DEF s
  <2>2. /\ Len(Raw(s)) = Len(s) /\ Len(s) \in Nat
        /\ \A i \in 1..Len(s) : Raw(s)[i] = Byte(s[i])
    BY <2>1, RawShape DEF s
  <2>3. o < Len(s) /\ o + 1 \in 1..Len(s)
    BY <2>1, <2>2 DEF s
  <2>4. wire[pos + 1] = Byte(s[o + 1])
    BY <2>1, <2>2, <2>3 DEF s
  <2>5. \/ rpc' = "body" /\ InLength(r, o + 1)'
        \/ rpc' = "unlock" /\ o + 1 = Len(Content(r)) /\ (Plain(r) => answer' = Content(r))
    BY <2>1, <2>3, <2>4, LengthStep DEF s
  <2>. QED BY <1>2, <2>1, <2>2, <2>5 DEF InBody, s
<1>3. CASE r.framing = "chunked"
  <2>1. InChunked(r, o) /\ BodyTokens(r) = ChunkedBody(r)
    BY <1>3 DEF InBody, BodyTokens
  <2>2. \/ rpc' = "body" /\ InChunked(r, o + 1)'
        \/ rpc' = "unlock" /\ o + 1 = Len(ChunkedBody(r)) /\ (Plain(r) => answer' = Content(r))
    BY <1>3, <2>1, ChunkedStep
  <2>. QED BY <1>3, <2>1, <2>2 DEF InBody
<1>. QED BY <1>1, <1>2, <1>3

-----------------------------------------------------------------------------
(* Every reply goes to the request it is for.                              *)

LEMMA EndSame == ASSUME UNCHANGED replied PROVE End' = End
BY DEF End

\* Where the replies lie.
LEMMA PlaceFacts ==
  ASSUME OrderlyServer, StreamInv
  PROVE  LET n == Len(replied)
         IN  /\ n \in Nat /\ \A k \in 0..n : End[k] \in Nat /\ End[k] <= End[n] /\ (k < n => End[k] < End[n])
             /\ \A k \in 1..n :
                  /\ replied[k] \in Replies /\ Orderly(replied[k])
                  /\ End[k] = End[k - 1] + 8 + Len(BodyTokens(replied[k]))
                  /\ Len(BodyTokens(replied[k])) \in Nat
                  /\ Len(Tokens(replied[k])) = 8 + Len(BodyTokens(replied[k]))
                  /\ \A i \in 1..Len(BodyTokens(replied[k])) :
                       Tokens(replied[k])[8 + i] = BodyTokens(replied[k])[i]
<1>. DEFINE n == Len(replied)
<1>1. replied \in Seq(Replies) /\ n \in Nat /\ \A r \in Replies : Orderly(r)
  BY LenProperties DEF StreamInv, OrderlyServer
<1>2. Sums(End, replied, n)
  BY <1>1, EndSums
<1>3. \A k \in 0..n : End[k] \in Nat /\ End[k] <= End[n] /\ (k < n => End[k] < End[n])
  BY <1>1, <1>2, SumsShape, SumsGrow
<1>4. ASSUME NEW k \in 1..n
      PROVE  /\ replied[k] \in Replies /\ Orderly(replied[k])
             /\ End[k] = End[k - 1] + 8 + Len(BodyTokens(replied[k]))
             /\ Len(BodyTokens(replied[k])) \in Nat
             /\ Len(Tokens(replied[k])) = 8 + Len(BodyTokens(replied[k]))
             /\ \A i \in 1..Len(BodyTokens(replied[k])) :
                  Tokens(replied[k])[8 + i] = BodyTokens(replied[k])[i]
  <2>1. replied[k] \in Replies /\ Orderly(replied[k])
    BY <1>1, ElementOfSeq
  <2>2. /\ Len(BodyTokens(replied[k])) \in Nat
        /\ Len(Tokens(replied[k])) = 8 + Len(BodyTokens(replied[k]))
        /\ \A i \in 1..Len(BodyTokens(replied[k])) :
             Tokens(replied[k])[8 + i] = BodyTokens(replied[k])[i]
    BY <2>1, TokensShape
  <2>3. End[k] = End[k - 1] + Len(Tokens(replied[k]))
    BY <1>2 DEF Sums
  <2>4. End[k - 1] \in Nat
    <3>1. k - 1 \in 0..n
      BY <1>1
    <3>. QED BY <1>3, <3>1
  <2>5. End[k] = End[k - 1] + 8 + Len(BodyTokens(replied[k]))
    <3>1. \A a, b \in Nat : a + (8 + b) = a + 8 + b
      OBVIOUS
    <3>. QED BY <2>2, <2>3, <2>4, <3>1
  <2>. QED BY <2>1, <2>2, <2>5
<1>. QED BY <1>1, <1>3, <1>4

LEMMA TypeFacts ==
  ASSUME TypeOK
  PROVE  /\ req \in Nat /\ sendid \in Nat /\ sendid <= req /\ recvid \in Nat /\ pos \in Nat
         /\ rc \in Int /\ retcode \in Int /\ wire \in Seq(Toks) /\ Len(wire) \in Nat
         /\ eof \in BOOLEAN /\ spurious \in Nat
<1>1. Len(wire) \in Nat
  BY LenProperties DEF TypeOK
<1>. QED BY <1>1, HttpConstants DEF TypeOK

\* A byte that can be read is the next token of the reply it lies in.
LEMMA NextOfReply ==
  ASSUME OrderlyServer, TypeOK, StreamInv, NEW k \in 1..Len(replied), NEW o \in Nat,
         pos = End[k - 1] + o, o < Len(Tokens(replied[k])), pos < Len(wire)
  PROVE  wire[pos + 1] = Tokens(replied[k])[o + 1]
<1>1. Len(Tokens(replied[k])) \in Nat /\ End[k - 1] \in Nat
  <2>1. k - 1 \in 0..Len(replied)
    BY PlaceFacts
  <2>. QED BY <2>1, PlaceFacts
<1>2. o + 1 \in 1..Len(Tokens(replied[k])) /\ End[k - 1] + (o + 1) = pos + 1 /\ pos + 1 <= Len(wire)
  <2>1. \A a, b \in Nat : a + (b + 1) = (a + b) + 1
    OBVIOUS
  <2>2. \A a, b \in Nat : a < b => a + 1 <= b /\ a + 1 \in 1..b
    OBVIOUS
  <2>. QED BY <1>1, <2>1, <2>2, TypeFacts
<1>3. \A i \in 1..Len(Tokens(replied[k])) : End[k - 1] + i <= Len(wire) =>
            wire[End[k - 1] + i] = Tokens(replied[k])[i]
  BY DEF StreamInv
<1>. QED BY <1>2, <1>3

LEMMA BodySame ==
  ASSUME UNCHANGED <<answer, body, last>>, NEW r, NEW o
  PROVE  InBody(r, o)' <=> InBody(r, o)
<1>1. ASSUME NEW s, NEW k PROVE InChunk(s, k)' <=> InChunk(s, k)
  BY DEF InChunk
<1>2. InLength(r, o)' <=> InLength(r, o)
  BY DEF InLength
<1>3. InChunked(r, o)' <=> InChunked(r, o)
  BY <1>1 DEF InChunked
<1>. QED BY <1>2, <1>3 DEF InBody

LEMMA HeaderSame ==
  ASSUME UNCHANGED <<rc, body, line, last>>, NEW r, NEW o
  PROVE  InHeader(r, o)' <=> InHeader(r, o)
BY DEF InHeader

\* The requests a body is read for.
LEMMA BodyTurn ==
  ASSUME OrderlyServer, TypeOK, StreamInv, PlaceInv, TurnInv, Delivering
  PROVE  /\ recvid = Len(replied) /\ recvid = req /\ recvid \in 1..Len(replied)
         /\ cpc \in {"lock", "test", "wait"}
<1>1. rc > 0 /\ recvid > 0 /\ recvid <= Len(replied)
  <2>1. recvid > 0 /\ rc = replied[recvid].code /\ recvid <= Len(replied)
    BY DEF PlaceInv, StreamInv
  <2>2. Orderly(replied[recvid])
    <3>1. recvid \in 1..Len(replied)
      BY <2>1, TypeFacts, PlaceFacts
    <3>. QED BY <3>1, PlaceFacts
  <2>. QED BY <2>1, <2>2 DEF Orderly
<1>2. ~Over
  <2>1. ~(rc <= 0)
    BY <1>1, TypeFacts
  <2>. QED BY <2>1 DEF Over, Delivering
<1>3. Len(replied) \in Nat /\ recvid \in Nat /\ req \in Nat
  BY PlaceFacts, TypeFacts
<1>4. cpc \in {"idle", "lock", "test", "wait", "woken", "unlock", "lock2", "copy", "unlock2", "return"}
  BY DEF TypeOK
<1>5. recvid - 1 # Len(replied)
  BY <1>1, <1>3
<1>6. cpc \in {"lock", "test", "wait"} /\ recvid - 1 = Len(replied) - 1 /\ Len(replied) = req
  BY <1>2, <1>4, <1>5 DEF TurnInv
<1>. QED BY <1>1, <1>3, <1>6

AnswerParts == StreamInv /\ PlaceInv /\ ShownInv /\ TurnInv /\ OwnAnswer

LEMMA AnswerStart == ASSUME Init PROVE AnswerInv
<1>1. replied \in Seq(Replies) /\ Len(replied) = 0 /\ Len(wire) = 0
  BY DEF Init
<1>2. End[0] = 0
  BY <1>1, EndSums DEF Sums
<1>3. StreamInv
  BY <1>1, <1>2 DEF Init, StreamInv
<1>4. ~Delivering
  BY DEF Init, Delivering
<1>5. PlaceInv
  BY <1>2, <1>4 DEF Init, PlaceInv
<1>6. ShownInv
  BY <1>4 DEF Init, ShownInv
<1>7. TurnInv
  BY <1>1, <1>4 DEF Init, TurnInv
<1>8. OwnAnswer
  BY DEF Init, OwnAnswer, Pending
<1>. QED BY <1>3, <1>5, <1>6, <1>7, <1>8 DEF AnswerInv

\* What the caller does leaves the stream and the receiver alone.
LEMMA CallerLeaves ==
  ASSUME TypeOK, StreamInv, PlaceInv, ShownInv, UNCHANGED <<receiverVars, serverVars>>,
         sendid' \in Nat, sendid <= sendid'
  PROVE  StreamInv' /\ PlaceInv' /\ ShownInv'
<1>1. /\ UNCHANGED <<rpc, recvid, answer, retcode, rc, line, body, last, pos>>
      /\ UNCHANGED <<replied, wire, eof>> /\ End' = End
  BY EndSame DEF receiverVars, serverVars
<1>2. StreamInv'
  <2>1. Len(replied) <= sendid'
    <3>1. Len(replied) \in Nat
      BY LenProperties DEF StreamInv
    <3>. QED BY <3>1, TypeFacts DEF StreamInv
  <2>. QED BY <1>1, <2>1 DEF StreamInv
<1>3. ASSUME NEW r, NEW o PROVE (InBody(r, o)' <=> InBody(r, o)) /\ (InHeader(r, o)' <=> InHeader(r, o))
  BY <1>1, BodySame, HeaderSame
<1>4. (Delivering' <=> Delivering) /\ (Drained' <=> Drained)
  BY <1>1 DEF Delivering, Drained
<1>5. ASSUME NEW k PROVE CutShort(k)' <=> CutShort(k)
  BY <1>1, <1>4 DEF CutShort
<1>6. PlaceInv'
  BY <1>1, <1>3, <1>4, <1>5 DEF PlaceInv
<1>7. ShownInv'
  BY <1>1, <1>4 DEF ShownInv
<1>. QED BY <1>2, <1>6, <1>7

LEMMA OverSame ==
  ASSUME UNCHANGED <<receiverVars, serverVars>>
  PROVE  /\ (Over' <=> Over) /\ (Delivering' <=> Delivering)
         /\ UNCHANGED <<recvid, answer, retcode, replied, wire, eof>> /\ End' = End
BY EndSame DEF receiverVars, serverVars, Over, Delivering, Drained

LEMMA PerformKeepsAnswer ==
  ASSUME OrderlyServer, TypeOK, AnswerParts, spurious = 0, Perform
  PROVE  AnswerParts'
<1>1. /\ UNCHANGED <<receiverVars, serverVars, msg, spurious>>
      /\ cpc = "idle" /\ req' = req + 1 /\ req < MaxRequests
      /\ \/ cpc' = "lock" /\ sendid' = sendid + 1 /\ UNCHANGED returned
         \/ /\ eof /\ cpc' = "idle" /\ UNCHANGED sendid
            /\ returned' = [returned EXCEPT ![req + 1] = Failed]
  BY DEF Perform
<1>2. StreamInv' /\ PlaceInv' /\ ShownInv'
  <2>1. sendid' \in Nat /\ sendid <= sendid'
    BY <1>1, TypeFacts
  <2>. QED BY <1>1, <2>1, CallerLeaves DEF AnswerParts
<1>3. TurnInv'
  <2>1. /\ Len(replied) <= req + 1 /\ req + 1 > 0 /\ (Len(replied) = req => Len(replied) >= (req + 1) - 1)
        /\ (~eof => sendid = req)
    <3>1. Len(replied) \in Nat /\ Len(replied) <= req /\ (~eof => sendid = req)
      BY PlaceFacts DEF AnswerParts, TurnInv
    <3>. QED BY <3>1, TypeFacts
  <2>2. Over \/ ((IF Delivering THEN recvid - 1 ELSE recvid) = Len(replied) /\ (eof \/ Len(replied) = req))
    BY <1>1 DEF AnswerParts, TurnInv
  <2>. QED BY <1>1, <2>1, <2>2, OverSame DEF TurnInv
<1>4. OwnAnswer'
  <2>1. ASSUME NEW k \in Requests, returned'[k].ret > 0 PROVE returned'[k] = returned[k]
    <3>1. CASE returned' = returned
      BY <3>1
    <3>2. CASE returned' = [returned EXCEPT ![req + 1] = Failed]
      <4>1. k # req + 1
        <5>1. req + 1 \in DOMAIN returned
          BY <1>1, TypeFacts, HttpConstants DEF TypeOK, Requests
        <5>2. k = req + 1 => returned'[k] = Failed
          BY <3>2, <5>1
        <5>3. ~(Failed.ret > 0)
          BY DEF Failed
        <5>. QED BY <2>1, <5>2, <5>3
      <4>. QED BY <3>2, <4>1 DEF TypeOK
    <3>. QED BY <1>1, <3>1, <3>2
  <2>. QED BY <1>1, <2>1, OverSame DEF AnswerParts, OwnAnswer
<1>. QED BY <1>2, <1>3, <1>4 DEF AnswerParts

LEMMA WaitingKeepsAnswer ==
  ASSUME OrderlyServer, TypeOK, AnswerParts, spurious = 0, Waiting
  PROVE  AnswerParts'
<1>1. UNCHANGED <<receiverVars, serverVars, req, sendid, spurious>>
  BY DEF Waiting, ClientLock, ClientUnlock, Test, Copy, Return
<1>2. StreamInv' /\ PlaceInv' /\ ShownInv'
  BY <1>1, TypeFacts, CallerLeaves DEF AnswerParts
<1>3. ASSUME UNCHANGED returned PROVE OwnAnswer'
  BY <1>1, <1>3, OverSame DEF AnswerParts, OwnAnswer
<1>4. sendid >= recvid
  <2>1. Len(replied) \in Nat /\ Len(replied) <= sendid /\ recvid <= Len(replied)
    BY PlaceFacts DEF AnswerParts, StreamInv
  <2>. QED BY <2>1, TypeFacts
<1>. DEFINE n == Len(replied)
            signalled == IF Delivering THEN recvid - 1 ELSE recvid
<1>5. /\ n <= req /\ (~eof => sendid = req) /\ (cpc # "idle" => req > 0)
      /\ cpc \in {"lock", "test", "wait"} =>
           \/ Over
           \/ signalled = n /\ (eof \/ n >= req - 1)
           \/ signalled = n - 1 /\ n = req
      /\ cpc \in {"woken", "unlock", "lock2", "copy", "unlock2", "return"} =>
           Over \/ (signalled = n /\ n = req)
      /\ cpc \in {"unlock2", "return"} => Over \/ msg = Copied(answer, Room[req])
  BY DEF AnswerParts, TurnInv, TypeOK
<1>6. CASE cpc \in {"lock", "test"} /\ cpc' \in {"test", "wait"} /\ UNCHANGED <<returned, msg>>
  <2>1. TurnInv'
    BY <1>1, <1>5, <1>6, OverSame DEF TurnInv
  <2>. QED BY <1>2, <1>3, <1>6, <2>1 DEF AnswerParts
<1>7. CASE /\ cpc \in {"woken", "unlock", "lock2"} /\ cpc' \in {"unlock", "lock2", "copy"}
           /\ UNCHANGED <<returned, msg>>
  <2>1. TurnInv'
    BY <1>1, <1>5, <1>7, OverSame DEF TurnInv
  <2>. QED BY <1>2, <1>3, <1>7, <2>1 DEF AnswerParts
<1>8. CASE /\ cpc \in {"copy", "unlock2"} /\ cpc' \in {"unlock2", "return"} /\ UNCHANGED returned
           /\ (cpc = "copy" => msg' = Copied(answer, Room[req])) /\ (cpc = "unlock2" => msg' = msg)
  <2>1. TurnInv'
    BY <1>1, <1>5, <1>8, OverSame DEF TurnInv
  <2>. QED BY <1>2, <1>3, <1>8, <2>1 DEF AnswerParts
<1>9. CASE Return
  <2>1. /\ cpc = "return" /\ cpc' = "idle" /\ UNCHANGED msg
        /\ returned' = [returned EXCEPT ![req] = [ret |-> retcode, msg |-> msg]]
    BY <1>9 DEF Return
  <2>2. TurnInv'
    BY <1>1, <1>5, <2>1, OverSame DEF TurnInv
  <2>3. req \in Requests /\ req > 0
    BY <1>5, <2>1, HttpConstants DEF TypeOK, Requests
  <2>4. ASSUME NEW k \in Requests, returned'[k].ret > 0
        PROVE  /\ k <= Len(replied)
               /\ returned'[k].ret = replied[k].code
               /\ Plain(replied[k]) /\ Len(wire) >= End[k] =>
                    returned'[k].msg = Copied(Content(replied[k]), Room[k])
    <3>1. CASE k # req
      <4>1. returned'[k] = returned[k]
        BY <2>1, <3>1 DEF TypeOK
      <4>. QED BY <2>4, <4>1 DEF AnswerParts, OwnAnswer, Copied
    <3>2. CASE k = req
      <4>1. returned'[k] = [ret |-> retcode, msg |-> msg]
        BY <2>1, <3>2 DEF TypeOK
      <4>2. retcode > 0
        BY <2>4, <4>1
      <4>3. ~Over
        BY <4>2, TypeFacts DEF Over
      <4>4. signalled = n /\ n = req /\ msg = Copied(answer, Room[req])
        BY <1>5, <2>1, <4>3
      <4>5. ~Delivering /\ recvid = n
        <5>1. n \in Nat /\ recvid \in Nat /\ recvid <= n
          BY PlaceFacts, TypeFacts DEF AnswerParts, StreamInv
        <5>2. recvid - 1 # n
          BY <5>1
        <5>. QED BY <4>4, <5>2
      <4>6. retcode = replied[k].code
        BY <3>2, <4>2, <4>4, <4>5 DEF AnswerParts, ShownInv
      <4>7. Plain(replied[k]) /\ Len(wire) >= End[k] => answer = Content(replied[k])
        BY <2>3, <3>2, <4>4, <4>5 DEF AnswerParts, ShownInv, Delivering
      <4>8. k <= Len(replied)
        BY <3>2, <4>4, TypeFacts
      <4>. QED BY <3>2, <4>1, <4>4, <4>6, <4>7, <4>8
    <3>. QED BY <3>1, <3>2
  <2>5. OwnAnswer'
    BY <1>1, <2>4, OverSame DEF OwnAnswer, Copied
  <2>. QED BY <1>2, <2>2, <2>5 DEF AnswerParts
<1>. QED BY <1>4, <1>6, <1>7, <1>8, <1>9 DEF Waiting, ClientLock, ClientUnlock, Test, Copy

LEMMA ClientKeepsAnswer ==
  ASSUME OrderlyServer, TypeOK, AnswerInv, Client
  PROVE  AnswerInv'
<1>1. SUFFICES ASSUME spurious' = 0 PROVE AnswerParts'
  BY DEF AnswerInv, AnswerParts
<1>2. ~WakeUp \/ (spurious = 0 /\ cpc = "wait" /\ spurious' = req)
  BY <1>1 DEF WakeUp
<1>3. spurious = 0
  <2>1. UNCHANGED spurious \/ spurious = 0
    BY <1>2 DEF Client, Perform, Waiting, ClientLock, ClientUnlock, Test, Copy, Return, Destroy, Free, clientVars
  <2>. QED BY <1>1, <2>1
<1>4. AnswerParts
  BY <1>3 DEF AnswerInv, AnswerParts
<1>5. ~WakeUp
  <2>1. cpc # "idle" => req > 0
    BY DEF TypeOK
  <2>. QED BY <1>1, <1>2, <2>1
<1>6. CASE Destroy \/ Free
  <2>1. UNCHANGED <<clientVars, receiverVars, serverVars>>
    BY <1>6 DEF Destroy, Free
  <2>2. UNCHANGED <<cpc, req, sendid, msg, returned, spurious>>
    BY <2>1 DEF clientVars
  <2>3. StreamInv' /\ PlaceInv' /\ ShownInv'
    BY <1>4, <2>1, <2>2, TypeFacts, CallerLeaves DEF AnswerParts
  <2>4. TurnInv'
    BY <1>4, <2>1, <2>2, OverSame DEF AnswerParts, TurnInv
  <2>5. OwnAnswer'
    BY <1>4, <2>1, <2>2, OverSame DEF AnswerParts, OwnAnswer
  <2>. QED BY <2>3, <2>4, <2>5 DEF AnswerParts
<1>. QED BY <1>3, <1>4, <1>5, <1>6, PerformKeepsAnswer, WaitingKeepsAnswer DEF Client

\* The status of a reply that has been locked for is positive.
LEMMA GoodStatus ==
  ASSUME OrderlyServer, TypeOK, StreamInv, NEW k \in 1..Len(replied)
  PROVE  replied[k].code > 0 /\ replied[k].code \in Nat
BY PlaceFacts, ReplyShape DEF Orderly

LEMMA CloseKeepsAnswer ==
  ASSUME OrderlyServer, TypeOK, AnswerParts, CloseEnd
  PROVE  AnswerParts'
<1>1. /\ UNCHANGED <<rpc, recvid, answer, retcode, rc, line, body, last, pos>>
      /\ UNCHANGED <<cpc, req, sendid, msg, returned, spurious, replied, wire>>
      /\ ~eof /\ eof' /\ End' = End
  BY EndSame DEF CloseEnd, receiverVars, clientVars
<1>2. ASSUME NEW r, NEW o PROVE (InBody(r, o)' <=> InBody(r, o)) /\ (InHeader(r, o)' <=> InHeader(r, o))
  BY <1>1, BodySame, HeaderSame
<1>3. (Delivering' <=> Delivering) /\ ~Drained /\ ~Over /\ \A k : ~CutShort(k)
  BY <1>1 DEF Delivering, Drained, Over, CutShort
<1>4. StreamInv'
  BY <1>1 DEF AnswerParts, StreamInv
<1>5. PlaceInv'
  BY <1>1, <1>2, <1>3 DEF AnswerParts, PlaceInv
<1>6. ShownInv'
  BY <1>1, <1>3 DEF AnswerParts, ShownInv
<1>7. TurnInv'
  BY <1>1, <1>3 DEF AnswerParts, TurnInv
<1>8. OwnAnswer'
  BY <1>1 DEF AnswerParts, OwnAnswer
<1>. QED BY <1>4, <1>5, <1>6, <1>7, <1>8 DEF AnswerParts

LEMMA AnswerKeepsAnswer ==
  ASSUME OrderlyServer, TypeOK, AnswerParts, Answer
  PROVE  AnswerParts'
<1>. DEFINE n == Len(replied)
<1>1. /\ UNCHANGED <<rpc, recvid, answer, retcode, rc, line, body, last, pos>>
      /\ UNCHANGED <<cpc, req, sendid, msg, returned, spurious>>
      /\ n < sendid /\ ~eof
  BY DEF Answer, receiverVars, clientVars
<1>2. PICK r \in Replies :
        /\ replied' = Append(replied, r)
        /\ \/ wire' = wire \o Tokens(r) /\ UNCHANGED eof
           \/ \E m \in 0..(Len(Tokens(r)) - 1) :
                wire' = wire \o SubSeq(Tokens(r), 1, m) /\ eof' = TRUE
  BY DEF Answer
<1>. DEFINE T == Tokens(r)
<1>3. /\ n \in Nat /\ replied \in Seq(Replies) /\ T \in Seq(Toks) /\ Len(T) \in Nat
      /\ Len(wire) = End[n] /\ wire \in Seq(Toks) /\ End[n] \in Nat
  <2>1. T \in Seq(Toks)
    BY TokensType
  <2>2. n \in Nat /\ End[n] \in Nat
    BY PlaceFacts DEF AnswerParts
  <2>. QED BY <1>1, <2>1, <2>2, LenProperties, TypeFacts DEF AnswerParts, StreamInv
<1>4. /\ replied' \in Seq(Replies) /\ Len(replied') = n + 1 /\ replied'[n + 1] = r
      /\ \A k \in 1..n : replied'[k] = replied[k]
  BY <1>2, <1>3, AppendProperties
<1>5. /\ \A k \in 0..n : End'[k] = End[k]
      /\ End'[n + 1] = End[n] + Len(T)
  <2>1. Sums(End, replied, Len(replied)) /\ Sums(End', replied', Len(replied'))
    BY <1>3, <1>4, EndSums
  <2>. QED BY <1>2, <1>3, <2>1, SumsAppend
<1>. HIDE DEF T
<1>6. PICK m \in 0..Len(T) :
        /\ Len(wire') = Len(wire) + m /\ (~eof' => m = Len(T))
        /\ \A i \in 1..Len(wire) : wire'[i] = wire[i]
        /\ \A i \in 1..m : wire'[Len(wire) + i] = T[i]
  <2>1. CASE wire' = wire \o T /\ UNCHANGED eof
    <3>1. /\ Len(wire') = Len(wire) + Len(T)
          /\ \A i \in 1..Len(wire) : wire'[i] = wire[i]
          /\ \A i \in 1..Len(T) : wire'[Len(wire) + i] = T[i]
      <4>1. /\ Len(wire \o T) = Len(wire) + Len(T)
            /\ \A i \in 1..Len(wire) : (wire \o T)[i] = wire[i]
            /\ \A i \in 1..Len(T) : (wire \o T)[Len(wire) + i] = T[i]
        <5>1. wire \in Seq(Toks) /\ T \in Seq(Toks)
          BY <1>3
        <5>. QED BY <5>1, JoinedAt
      <4>. QED BY <2>1, <4>1
    <3>2. Len(T) \in 0..Len(T)
      BY <1>3
    <3>. QED BY <3>1, <3>2
  <2>2. CASE \E m \in 0..(Len(T) - 1) : wire' = wire \o SubSeq(T, 1, m) /\ eof' = TRUE
    <3>1. PICK m \in 0..(Len(T) - 1) : wire' = wire \o SubSeq(T, 1, m) /\ eof' = TRUE
      BY <2>2
    <3>. DEFINE u == SubSeq(T, 1, m)
    <3>2. u \in Seq(Toks) /\ Len(u) = m /\ \A i \in 1..m : u[i] = T[i]
      BY <1>3
    <3>. HIDE DEF u
    <3>3. /\ Len(wire') = Len(wire) + Len(u)
          /\ \A i \in 1..Len(wire) : wire'[i] = wire[i]
          /\ \A i \in 1..Len(u) : wire'[Len(wire) + i] = u[i]
      <4>1. /\ Len(wire \o u) = Len(wire) + Len(u)
            /\ \A i \in 1..Len(wire) : (wire \o u)[i] = wire[i]
            /\ \A i \in 1..Len(u) : (wire \o u)[Len(wire) + i] = u[i]
        <5>1. wire \in Seq(Toks) /\ u \in Seq(Toks)
          BY <1>3, <3>2
        <5>. QED BY <5>1, JoinedAt
      <4>2. wire' = wire \o u
        BY <3>1 DEF u
      <4>. QED BY <4>1, <4>2
    <3>4. m \in 0..Len(T)
      BY <1>3
    <3>. QED BY <3>1, <3>2, <3>3, <3>4
  <2>. QED BY <1>2, <2>1, <2>2 DEF T
<1>7. /\ Len(wire) <= Len(wire') /\ Len(wire') <= End'[n + 1] /\ (~eof' => Len(wire') = End'[n + 1])
      /\ Len(wire') \in Nat
  BY <1>3, <1>5, <1>6
<1>8. recvid \in 0..n /\ pos <= Len(wire) /\ recvid - 1 # n /\ pos \in Nat /\ n + 1 <= sendid /\ sendid = req
  BY <1>1, <1>3, TypeFacts DEF AnswerParts, StreamInv, TurnInv
<1>9. \A k \in 0..n : End[k] \in Nat /\ End[k] <= Len(wire) /\ End[k] <= Len(wire')
  <2>1. ASSUME NEW k \in 0..n PROVE End[k] \in Nat /\ End[k] <= Len(wire)
    BY <1>3, PlaceFacts DEF AnswerParts
  <2>. QED BY <1>3, <1>7, <2>1
<1>10. StreamInv'
  <2>1. Len(replied') <= sendid' /\ recvid' <= Len(replied') /\ pos' <= Len(wire')
    BY <1>1, <1>3, <1>4, <1>7, <1>8, TypeFacts
  <2>2. ASSUME NEW k \in 1..Len(replied')
        PROVE  /\ End'[k - 1] <= Len(wire')
               /\ \A i \in 1..Len(Tokens(replied'[k])) : End'[k - 1] + i <= Len(wire') =>
                    wire'[End'[k - 1] + i] = Tokens(replied'[k])[i]
    <3>1. k - 1 \in 0..n /\ End'[k - 1] = End[k - 1]
      <4>1. k - 1 \in 0..n
        BY <1>3, <1>4
      <4>. QED BY <1>5, <4>1
    <3>2. End'[k - 1] <= Len(wire')
      BY <1>9, <3>1
    <3>3. CASE k \in 1..n
      <4>1. ASSUME NEW i \in 1..Len(Tokens(replied[k]))
            PROVE  End[k - 1] + i \in 1..Len(wire) /\ wire[End[k - 1] + i] = Tokens(replied[k])[i]
        <5>1. /\ End[k] = End[k - 1] + Len(Tokens(replied[k])) /\ Len(Tokens(replied[k])) \in Nat
              /\ End[k - 1] \in Nat /\ End[k] <= Len(wire)
          <6>1. Sums(End, replied, n)
            BY <1>3, EndSums
          <6>2. k \in 0..n
            BY <3>3
          <6>. QED BY <1>3, <1>9, <3>1, <3>3, <6>1, <6>2, SumsShape DEF Sums
        <5>2. End[k - 1] + i \in 1..Len(wire)
          <6>1. \A a, b, c, d \in Nat : c = a + b /\ c <= d => \A j \in 1..b : a + j \in 1..d
            OBVIOUS
          <6>2. Len(wire) \in Nat /\ End[k] \in Nat
            BY <5>1, TypeFacts
          <6>. QED BY <5>1, <6>1, <6>2
        <5>3. End[k - 1] + i <= Len(wire)
          BY <5>2
        <5>. QED BY <3>3, <5>2, <5>3 DEF AnswerParts, StreamInv
      <4>2. replied'[k] = replied[k]
        BY <1>4, <3>3
      <4>. QED BY <1>6, <3>1, <3>2, <4>1, <4>2
    <3>4. CASE k = n + 1
      <4>1. End'[k - 1] = Len(wire) /\ replied'[k] = r
        BY <1>3, <1>4, <1>5, <3>1, <3>4
      <4>2. ASSUME NEW i \in 1..Len(T), Len(wire) + i <= Len(wire') PROVE wire'[Len(wire) + i] = T[i]
        <5>1. i \in 1..m
          BY <1>3, <1>6, <4>2
        <5>. QED BY <1>6, <5>1
      <4>. QED BY <3>2, <4>1, <4>2 DEF T
    <3>5. k \in 1..n \/ k = n + 1
      BY <1>3, <1>4
    <3>. QED BY <3>3, <3>4, <3>5
  <2>. QED BY <1>4, <1>7, <2>1, <2>2 DEF StreamInv
<1>11. ASSUME NEW q, NEW o PROVE (InBody(q, o)' <=> InBody(q, o)) /\ (InHeader(q, o)' <=> InHeader(q, o))
  BY <1>1, BodySame, HeaderSame
<1>12. (Delivering' <=> Delivering) /\ ~Drained /\ ~Over /\ \A k : ~CutShort(k)
  BY <1>1 DEF Delivering, Drained, Over, CutShort
<1>13. /\ End'[recvid] = End[recvid]
       /\ recvid > 0 => End'[recvid - 1] = End[recvid - 1] /\ replied'[recvid] = replied[recvid]
       /\ recvid < n => replied'[recvid + 1] = replied[recvid + 1] /\ recvid < n + 1
       /\ recvid - 1 > 0 => replied'[recvid - 1] = replied[recvid - 1]
  <2>1. /\ recvid \in 0..n
        /\ recvid > 0 => recvid - 1 \in 0..n /\ recvid \in 1..n
        /\ recvid < n => recvid + 1 \in 1..n /\ recvid < n + 1
        /\ recvid - 1 > 0 => recvid - 1 \in 1..n
    BY <1>3, <1>8
  <2>. QED BY <1>4, <1>5, <2>1
<1>14. PlaceInv'
  <2>1. rpc = "body" => recvid > 0
    BY DEF AnswerParts, PlaceInv, Delivering
  <2>. QED BY <1>1, <1>4, <1>11, <1>12, <1>13, <2>1 DEF AnswerParts, PlaceInv
<1>15. ShownInv'
  <2>1. Len(wire) >= End[recvid]
    BY <1>3, <1>8, <1>9
  <2>. QED BY <1>1, <1>12, <1>13, <2>1 DEF AnswerParts, ShownInv
<1>. DEFINE signalled == IF Delivering THEN recvid - 1 ELSE recvid
<1>16. cpc \in {"lock", "test", "wait"} /\ signalled = n /\ n + 1 = req
  <2>1. n # req /\ n < req /\ req \in Nat
    BY <1>1, <1>3, <1>8, TypeFacts
  <2>2. cpc \in {"idle", "lock", "test", "wait", "woken", "unlock", "lock2", "copy", "unlock2", "return"}
    BY DEF TypeOK
  <2>3. cpc \in {"lock", "test", "wait"} /\ signalled = n /\ n >= req - 1
    BY <1>1, <1>12, <2>1, <2>2 DEF AnswerParts, TurnInv
  <2>. QED BY <1>3, <2>1, <2>3
<1>17. TurnInv'
  <2>1. signalled = (n + 1) - 1 /\ n + 1 <= req /\ sendid = req /\ req > 0
    BY <1>3, <1>8, <1>16, TypeFacts
  <2>. QED BY <1>1, <1>4, <1>12, <1>16, <2>1 DEF TurnInv
<1>18. OwnAnswer'
  <2>1. ASSUME NEW k \in Requests, returned[k].ret > 0, spurious = 0
        PROVE  /\ k <= Len(replied') /\ returned[k].ret = replied'[k].code
               /\ Plain(replied'[k]) =>
                    returned[k].msg = Copied(Content(replied'[k]), Room[k])
    <3>1. k \in 1..n
      <4>1. k <= n
        BY <2>1 DEF AnswerParts, OwnAnswer
      <4>. QED BY <1>3, <4>1, HttpConstants DEF Requests
    <3>2. Len(wire) >= End[k]
      BY <1>3, <1>9, <3>1
    <3>3. k <= n + 1 /\ replied'[k] = replied[k]
      BY <1>3, <1>4, <3>1
    <3>. QED BY <1>4, <2>1, <3>2, <3>3 DEF AnswerParts, OwnAnswer, Copied
  <2>. QED BY <1>1, <2>1 DEF OwnAnswer, Copied
<1>. QED BY <1>10, <1>14, <1>15, <1>17, <1>18 DEF AnswerParts

LEMMA ServerKeepsAnswer ==
  ASSUME OrderlyServer, TypeOK, AnswerInv, Server
  PROVE  AnswerInv'
<1>1. UNCHANGED spurious
  BY DEF Server, Answer, CloseEnd, clientVars
<1>2. SUFFICES ASSUME spurious = 0 PROVE AnswerParts'
  BY <1>1 DEF AnswerInv, AnswerParts
<1>3. AnswerParts
  BY <1>2 DEF AnswerInv, AnswerParts
<1>. QED BY <1>3, AnswerKeepsAnswer, CloseKeepsAnswer DEF Server

\* What the receiver leaves alone.
LEMMA ReceiverLeaves ==
  ASSUME UNCHANGED <<serverVars, req, sendid, msg, returned, spurious>>
  PROVE  /\ UNCHANGED <<replied, wire, eof>> /\ End' = End
         /\ OwnAnswer => OwnAnswer'
         /\ StreamInv => (pos' <= Len(wire) /\ recvid' <= Len(replied) => StreamInv')
BY EndSame DEF serverVars, OwnAnswer, StreamInv

LEMMA LoopKeepsAnswer ==
  ASSUME AnswerParts, Loop
  PROVE  AnswerParts'
<1>1. /\ UNCHANGED <<recvid, answer, retcode, pos, clientVars, serverVars>>
      /\ rpc = "loop" /\ rpc' \in {"header", "ended"}
      /\ rc' = ParsingHeader /\ line' = <<>> /\ body' = Locals /\ last' = "none"
  BY DEF Loop
<1>2. /\ UNCHANGED <<replied, wire, eof, cpc, req, sendid, msg, returned, spurious>>
      /\ End' = End /\ OwnAnswer' /\ StreamInv'
  <2>1. UNCHANGED <<serverVars, cpc, req, sendid, msg, returned, spurious>>
    BY <1>1 DEF clientVars
  <2>2. pos' <= Len(wire) /\ recvid' <= Len(replied)
    BY <1>1 DEF AnswerParts, StreamInv
  <2>. QED BY <2>1, <2>2, ReceiverLeaves DEF AnswerParts
<1>3. ~Delivering /\ ~Delivering' /\ (Drained' <=> Drained) /\ (Over => Over')
  BY <1>1, <1>2 DEF Delivering, Drained, Over, ParsingHeader
<1>4. PlaceInv'
  BY <1>1, <1>2, <1>3 DEF AnswerParts, PlaceInv
<1>5. ShownInv'
  BY <1>1, <1>2, <1>3 DEF AnswerParts, ShownInv
<1>6. TurnInv'
  BY <1>1, <1>2, <1>3 DEF AnswerParts, TurnInv
<1>. QED BY <1>2, <1>4, <1>5, <1>6 DEF AnswerParts

LEMMA CancelledKeepsAnswer ==
  ASSUME OrderlyServer, TypeOK, HttpInv, AnswerParts, Cancelled
  PROVE  AnswerParts'
<1>1. /\ UNCHANGED <<recvid, answer, retcode, rc, line, body, last, pos, clientVars, serverVars>>
      /\ rpc \in {"header", "body"} /\ rpc' = "ended" /\ life # "open"
  BY DEF Cancelled
<1>2. /\ UNCHANGED <<replied, wire, eof, cpc, req, sendid, msg, returned, spurious>>
      /\ End' = End /\ OwnAnswer' /\ StreamInv'
  <2>1. UNCHANGED <<serverVars, cpc, req, sendid, msg, returned, spurious>>
    BY <1>1 DEF clientVars
  <2>2. pos' <= Len(wire) /\ recvid' <= Len(replied)
    BY <1>1 DEF AnswerParts, StreamInv
  <2>. QED BY <2>1, <2>2, ReceiverLeaves DEF AnswerParts
<1>3. ~Delivering
  BY <1>1, BodyTurn DEF AnswerParts, HttpInv
<1>4. rpc = "header"
  BY <1>1, <1>3 DEF Delivering
<1>5. ~Delivering' /\ (Drained' <=> Drained) /\ (Over => Over')
  BY <1>1, <1>2, <1>4 DEF Delivering, Drained, Over
<1>6. PlaceInv'
  BY <1>1, <1>5 DEF PlaceInv
<1>7. ShownInv'
  BY <1>1, <1>2, <1>3, <1>4, <1>5 DEF AnswerParts, ShownInv
<1>8. TurnInv'
  BY <1>1, <1>2, <1>3, <1>5 DEF AnswerParts, TurnInv
<1>. QED BY <1>2, <1>6, <1>7, <1>8 DEF AnswerParts

LEMMA ReadHeaderKeepsAnswer ==
  ASSUME OrderlyServer, TypeOK, AnswerParts, ReadHeader
  PROVE  AnswerParts'
<1>. DEFINE n == Len(replied)
            k == recvid + 1
            r == replied[k]
            o == pos - End[recvid]
<1>1. /\ UNCHANGED <<recvid, answer, retcode, clientVars, serverVars>>
      /\ rpc = "header" /\ pos < Len(wire) /\ pos' = pos + 1
  BY DEF ReadHeader, CanRead
<1>2. pos \in Nat /\ Len(wire) \in Nat /\ recvid \in Nat /\ n \in Nat /\ recvid <= n /\ Len(wire) <= End[n]
  BY TypeFacts, PlaceFacts DEF AnswerParts, StreamInv
<1>3. /\ UNCHANGED <<replied, wire, eof, cpc, req, sendid, msg, returned, spurious>>
      /\ End' = End /\ OwnAnswer' /\ StreamInv'
  <2>1. UNCHANGED <<serverVars, cpc, req, sendid, msg, returned, spurious>>
    BY <1>1 DEF clientVars
  <2>2. pos' <= Len(wire) /\ recvid' <= Len(replied)
    BY <1>1, <1>2
  <2>. QED BY <2>1, <2>2, ReceiverLeaves DEF AnswerParts
<1>4. recvid < n /\ pos = End[recvid] + o /\ o \in 0..7 /\ InHeader(r, o) /\ End[recvid] \in Nat
  <2>1. ~Drained
    BY <1>1, <1>2 DEF Drained
  <2>2. recvid \in 0..n /\ End[recvid] \in Nat
    BY <1>2, PlaceFacts DEF AnswerParts
  <2>3. CASE pos = End[recvid] /\ rc = ParsingHeader /\ body = Locals /\ line = <<>> /\ last = "none"
    <3>1. recvid # n
      BY <1>1, <1>2, <2>2, <2>3
    <3>2. recvid < n /\ o = 0 /\ k \in 1..n
      BY <1>2, <2>2, <2>3, <3>1
    <3>3. r \in Replies /\ Orderly(r)
      BY <3>2, PlaceFacts DEF AnswerParts
    <3>. HIDE DEF r
    <3>4. SubSeq(Tokens(r), 1, 0) = <<>>
      <4>1. Tokens(r) \in Seq(Toks)
        BY <3>3, TokensType
      <4>. QED BY <4>1
    <3>5. InHeader(r, 0)
      BY <2>3, <3>4 DEF InHeader
    <3>. QED BY <2>2, <2>3, <3>2, <3>5
  <2>4. CASE recvid < n /\ InHeader(r, o)
    <3>1. o \in 0..7
      BY <2>4 DEF InHeader
    <3>2. pos = End[recvid] + o
      <4>1. \A a, b \in Nat : a = b + (a - b)
        OBVIOUS
      <4>. QED BY <1>2, <2>2, <4>1
    <3>. QED BY <2>2, <2>4, <3>1, <3>2
  <2>. QED BY <1>1, <2>1, <2>3, <2>4 DEF AnswerParts, PlaceInv
<1>5. k \in 1..n /\ r \in Replies /\ Orderly(r) /\ k - 1 = recvid /\ o < Len(Tokens(r))
  <2>1. k \in 1..n /\ k - 1 = recvid
    BY <1>2, <1>4
  <2>2. r \in Replies /\ Orderly(r) /\ Len(Tokens(r)) = 8 + Len(BodyTokens(r)) /\ Len(BodyTokens(r)) \in Nat
    BY <2>1, PlaceFacts DEF AnswerParts
  <2>. HIDE DEF r, o
  <2>. QED BY <1>4, <2>1, <2>2
<1>6. wire[pos + 1] = Tokens(r)[o + 1]
  <2>1. o \in Nat /\ pos = End[k - 1] + o
    BY <1>4, <1>5
  <2>. HIDE DEF k, o
  <2>. QED BY <1>1, <1>5, <2>1, NextOfReply DEF AnswerParts
<1>13. PICK q \in Replies, p \in 0..7 : q = r /\ p = o
  BY <1>4, <1>5
<1>7. \/ p < 7 /\ rpc' = "header" /\ InHeader(q, p + 1)'
      \/ p = 7 /\ rpc' = "lock" /\ rc' = q.code /\ body' = FrameLocals(q)
  <2>1. InHeader(q, p) /\ Orderly(q) /\ wire[pos + 1] = Tokens(q)[p + 1]
    BY <1>4, <1>5, <1>6, <1>13
  <2>. QED BY <2>1, HeaderStep
<1>8. ~Delivering /\ ~Delivering' /\ ~Over
  <2>1. ~Drained
    BY <1>1, <1>2 DEF Drained
  <2>. QED BY <1>1, <1>7, <2>1 DEF Delivering, Over
<1>9. /\ pos' - End'[recvid'] = p + 1 /\ (p = 7 => pos' = End[recvid] + 8)
      /\ replied'[recvid' + 1] = q /\ recvid' < Len(replied') /\ q = replied[recvid + 1]
  BY <1>1, <1>2, <1>3, <1>4, <1>13
<1>10. PlaceInv'
  <2>1. CASE p < 7 /\ rpc' = "header" /\ InHeader(q, p + 1)'
    <3>1. InHeader(replied[recvid + 1], pos - End[recvid])'
      BY <1>9, <2>1
    <3>. QED BY <1>8, <1>9, <2>1, <3>1 DEF PlaceInv
  <2>2. CASE p = 7 /\ rpc' = "lock" /\ rc' = q.code /\ body' = FrameLocals(q)
    BY <1>1, <1>3, <1>8, <1>9, <2>2 DEF PlaceInv
  <2>. QED BY <1>7, <2>1, <2>2
<1>11. ShownInv'
  BY <1>1, <1>3, <1>7, <1>8 DEF AnswerParts, ShownInv
<1>12. TurnInv'
  BY <1>1, <1>3, <1>8 DEF AnswerParts, TurnInv
<1>. QED BY <1>3, <1>10, <1>11, <1>12 DEF AnswerParts

LEMMA HeaderEofKeepsAnswer ==
  ASSUME OrderlyServer, TypeOK, AnswerParts, HeaderEof
  PROVE  AnswerParts'
<1>1. /\ UNCHANGED <<recvid, answer, retcode, rc, line, body, last, pos, clientVars, serverVars>>
      /\ rpc = "header" /\ Drained /\ rpc' = IF rc > 0 THEN "lock" ELSE "unlock"
  BY DEF HeaderEof, HeaderEnds, Drained
<1>2. /\ UNCHANGED <<replied, wire, eof, cpc, req, sendid, msg, returned, spurious>>
      /\ End' = End /\ OwnAnswer' /\ StreamInv'
  <2>1. UNCHANGED <<serverVars, cpc, req, sendid, msg, returned, spurious>>
    BY <1>1 DEF clientVars
  <2>2. pos' <= Len(wire) /\ recvid' <= Len(replied)
    BY <1>1 DEF AnswerParts, StreamInv
  <2>. QED BY <2>1, <2>2, ReceiverLeaves DEF AnswerParts
<1>3. rc > 0 => /\ recvid < Len(replied) /\ rc = replied[recvid + 1].code
                /\ CutShort(recvid + 1)
  <2>1. SUFFICES ASSUME rc > 0
                 PROVE  /\ recvid < Len(replied) /\ rc = replied[recvid + 1].code
                        /\ CutShort(recvid + 1)
    OBVIOUS
  <2>2. recvid < Len(replied) /\ InHeader(replied[recvid + 1], pos - End[recvid])
    BY <1>1, <2>1 DEF AnswerParts, PlaceInv, ParsingHeader
  <2>. DEFINE o == pos - End[recvid]
              k == recvid + 1
  <2>3. o \in 0..7 /\ rc = replied[k].code
    BY <2>1, <2>2 DEF InHeader, ParsingHeader
  <2>4. k \in 1..Len(replied) /\ k - 1 = recvid /\ recvid \in 0..Len(replied)
    <3>1. recvid \in Nat /\ Len(replied) \in Nat
      BY TypeFacts, PlaceFacts DEF AnswerParts
    <3>. QED BY <2>2, <3>1
  <2>5. /\ End[k] = End[recvid] + 8 + Len(BodyTokens(replied[k]))
        /\ Len(BodyTokens(replied[k])) \in Nat /\ End[recvid] \in Nat
    <3>. HIDE DEF k
    <3>. QED BY <2>4, PlaceFacts DEF AnswerParts
  <2>6. Len(wire) < End[k]
    <3>1. pos = Len(wire) /\ pos \in Nat
      BY <1>1, TypeFacts DEF Drained
    <3>. HIDE DEF k
    <3>. QED BY <2>3, <2>5, <3>1
  <2>. QED BY <1>1, <2>2, <2>3, <2>6 DEF CutShort
<1>4. ~Delivering /\ ~Delivering' /\ Drained' /\ (Over => Over')
  BY <1>1, <1>2, TypeFacts DEF Delivering, Drained, Over
<1>5. PlaceInv'
  <2>1. CASE rc > 0
    <3>1. CutShort(recvid + 1)'
      BY <1>1, <1>2, <1>3, <1>4, <2>1 DEF CutShort
    <3>. QED BY <1>1, <1>2, <1>3, <1>4, <2>1, <3>1 DEF PlaceInv
  <2>2. CASE ~(rc > 0)
    BY <1>1, <1>4, <2>2 DEF PlaceInv
  <2>. QED BY <2>1, <2>2
<1>6. ShownInv'
  BY <1>1, <1>2, <1>4 DEF AnswerParts, ShownInv
<1>7. TurnInv'
  BY <1>1, <1>2, <1>4 DEF AnswerParts, TurnInv
<1>. QED BY <1>2, <1>5, <1>6, <1>7 DEF AnswerParts

LEMMA LockKeepsAnswer ==
  ASSUME OrderlyServer, TypeOK, AnswerParts, Lock
  PROVE  AnswerParts'
<1>1. /\ UNCHANGED <<retcode, rc, line, body, pos, clientVars, serverVars>>
      /\ rpc = "lock" /\ rpc' = "body" /\ answer' = <<>> /\ recvid' = recvid + 1 /\ last' = "none"
  BY DEF Lock
<1>2. /\ recvid < Len(replied) /\ rc = replied[recvid + 1].code
      /\ \/ pos = End[recvid] + 8 /\ body = FrameLocals(replied[recvid + 1])
         \/ CutShort(recvid + 1)
  BY <1>1 DEF AnswerParts, PlaceInv
<1>3. /\ recvid + 1 \in 1..Len(replied) /\ (recvid + 1) - 1 = recvid /\ recvid \in Nat /\ Len(replied) \in Nat
      /\ recvid # Len(replied) /\ recvid \in 0..Len(replied)
  <2>1. recvid \in Nat /\ Len(replied) \in Nat
    BY TypeFacts, PlaceFacts DEF AnswerParts
  <2>. QED BY <1>2, <2>1
<1>4. /\ UNCHANGED <<replied, wire, eof, cpc, req, sendid, msg, returned, spurious>>
      /\ End' = End /\ OwnAnswer' /\ StreamInv'
  <2>1. UNCHANGED <<serverVars, cpc, req, sendid, msg, returned, spurious>>
    BY <1>1 DEF clientVars
  <2>2. pos' <= Len(wire) /\ recvid' <= Len(replied)
    BY <1>1, <1>3 DEF AnswerParts, StreamInv
  <2>. QED BY <2>1, <2>2, ReceiverLeaves DEF AnswerParts
<1>5. replied[recvid + 1] \in Replies /\ Orderly(replied[recvid + 1]) /\ End[recvid] \in Nat
  BY <1>3, PlaceFacts DEF AnswerParts
<1>6. ~Delivering /\ Delivering' /\ ~Over
  BY <1>1 DEF Delivering, Over
<1>12. PICK q \in Replies : q = replied[recvid + 1]
  BY <1>5
<1>13. /\ replied'[recvid'] = q /\ recvid' - 1 = recvid /\ End'[recvid' - 1] = End[recvid]
       /\ recvid' > 0 /\ rc' = q.code
  BY <1>1, <1>2, <1>3, <1>4, <1>12
<1>7. InBody(replied[recvid], pos - End[recvid - 1] - 8)' \/ CutShort(recvid)'
  <2>1. CASE pos = End[recvid] + 8 /\ body = FrameLocals(replied[recvid + 1])
    <3>1. InBody(q, 0)'
      BY <1>1, <1>5, <1>12, <2>1, BodyStart
    <3>2. pos' - End'[recvid' - 1] - 8 = 0
      BY <1>1, <1>5, <1>13, <2>1
    <3>. QED BY <1>13, <3>1, <3>2
  <2>2. CASE CutShort(recvid + 1)
    <3>1. CutShort(recvid)'
      BY <1>1, <1>4, <2>2 DEF CutShort, Drained
    <3>. QED BY <3>1
  <2>. QED BY <1>2, <2>1, <2>2
<1>8. PlaceInv'
  BY <1>1, <1>6, <1>7, <1>13 DEF PlaceInv
<1>9. ShownInv'
  BY <1>1, <1>3, <1>4, <1>6 DEF AnswerParts, ShownInv
<1>10. cpc \notin {"woken", "unlock", "lock2", "copy", "unlock2", "return"}
  BY <1>3, <1>6 DEF AnswerParts, TurnInv
<1>11. TurnInv'
  BY <1>1, <1>3, <1>4, <1>6, <1>10 DEF AnswerParts, TurnInv
<1>. QED BY <1>4, <1>8, <1>9, <1>11 DEF AnswerParts

LEMMA ReadBodyKeepsAnswer ==
  ASSUME OrderlyServer, TypeOK, AnswerParts, ReadBody
  PROVE  AnswerParts'
<1>1. /\ UNCHANGED <<recvid, retcode, rc, clientVars, serverVars>>
      /\ rpc = "body" /\ pos < Len(wire) /\ pos' = pos + 1
  BY DEF ReadBody, CanRead
<1>2. Delivering
  BY <1>1 DEF Delivering
<1>. DEFINE n == Len(replied)
            o == pos - End[recvid - 1] - 8
<1>3. recvid = n /\ n = req /\ recvid \in 1..n /\ cpc \in {"lock", "test", "wait"}
  BY <1>2, BodyTurn DEF AnswerParts
<1>4. /\ pos \in Nat /\ Len(wire) \in Nat /\ n \in Nat /\ Len(wire) <= End[n] /\ recvid \in Nat
      /\ rc = replied[recvid].code /\ replied[recvid].code > 0
  BY <1>2, <1>3, TypeFacts, PlaceFacts, GoodStatus DEF AnswerParts, StreamInv, PlaceInv
<1>5. /\ UNCHANGED <<replied, wire, eof, cpc, req, sendid, msg, returned, spurious>>
      /\ End' = End /\ OwnAnswer' /\ StreamInv'
  <2>1. UNCHANGED <<serverVars, cpc, req, sendid, msg, returned, spurious>>
    BY <1>1 DEF clientVars
  <2>2. pos' <= Len(wire) /\ recvid' <= Len(replied)
    BY <1>1, <1>3, <1>4
  <2>. QED BY <2>1, <2>2, ReceiverLeaves DEF AnswerParts
<1>6. ~Drained /\ ~Over
  BY <1>1, <1>4 DEF Drained, Over
<1>7. PICK r \in Replies : r = replied[recvid]
  BY <1>3, PlaceFacts DEF AnswerParts
<1>. DEFINE B == BodyTokens(r)
            e == End[recvid - 1]
<1>8. /\ Orderly(r) /\ End[n] = e + 8 + Len(B) /\ Len(B) \in Nat /\ e \in Nat
      /\ Len(Tokens(r)) = 8 + Len(B) /\ \A i \in 1..Len(B) : Tokens(r)[8 + i] = B[i]
  <2>1. recvid - 1 \in 0..n
    BY <1>3, <1>4
  <2>. QED BY <1>3, <1>7, <2>1, PlaceFacts DEF AnswerParts
<1>9. InBody(r, o)
  BY <1>1, <1>6, <1>7 DEF AnswerParts, PlaceInv, CutShort
<1>10. o \in 0..Len(B) /\ pos = e + (8 + o) /\ o < Len(B)
  <2>1. o \in Int /\ pos = e + (8 + o)
    <3>1. \A a, b \in Nat : a - b - 8 \in Int /\ a = b + (8 + (a - b - 8))
      OBVIOUS
    <3>. QED BY <1>4, <1>8, <3>1
  <2>2. o \in 0..Len(B)
    <3>. HIDE DEF o
    <3>. QED BY <1>8, <1>9, <2>1, BodyBound
  <2>. HIDE DEF o, e, B
  <2>. QED BY <1>1, <1>4, <1>8, <2>1, <2>2
<1>11. PICK p \in Nat : p = o
  BY <1>10
<1>12. wire[pos + 1] = B[p + 1]
  <2>1. 8 + p \in Nat /\ pos = End[recvid - 1] + (8 + p) /\ 8 + p < Len(Tokens(replied[recvid]))
        /\ p + 1 \in 1..Len(B) /\ (8 + p) + 1 = 8 + (p + 1)
    <3>1. pos = e + (8 + p) /\ p < Len(B)
      BY <1>10, <1>11
    <3>2. \A a, b \in Nat : a < b => 8 + a < 8 + b /\ a + 1 \in 1..b /\ (8 + a) + 1 = 8 + (a + 1)
      OBVIOUS
    <3>3. Len(B) \in Nat /\ Len(Tokens(replied[recvid])) = 8 + Len(B)
      BY <1>7, <1>8
    <3>. HIDE DEF o, B
    <3>. QED BY <3>1, <3>2, <3>3
  <2>. HIDE DEF B, o
  <2>2. wire[pos + 1] = Tokens(r)[(8 + p) + 1]
    BY <1>1, <1>3, <1>7, <2>1, NextOfReply DEF AnswerParts
  <2>. QED BY <1>8, <2>1, <2>2
<1>13. \/ rpc' = "body" /\ InBody(r, p + 1)'
       \/ rpc' = "unlock" /\ p + 1 = Len(B) /\ (Plain(r) => answer' = Content(r))
  <2>1. p < Len(B) /\ InBody(r, p)
    BY <1>9, <1>10, <1>11
  <2>. QED BY <1>8, <1>12, <2>1, BodyStep DEF OrderlyServer
<1>14. /\ replied'[recvid'] = r /\ pos' - End'[recvid' - 1] - 8 = p + 1
       /\ (p + 1 = Len(B) => pos' = End'[recvid']) /\ End'[recvid'] = End[n] /\ rc' = rc
  <2>1. /\ replied'[recvid'] = r /\ End'[recvid'] = End[n] /\ End'[recvid' - 1] = e /\ rc' = rc
    BY <1>1, <1>3, <1>5, <1>7
  <2>2. pos' = (e + (8 + p)) + 1
    BY <1>1, <1>10, <1>11
  <2>3. ((e + (8 + p)) + 1) - e - 8 = p + 1
    <3>. HIDE DEF e
    <3>. QED BY <1>8
  <2>4. p + 1 = Len(B) => (e + (8 + p)) + 1 = End[n]
    <3>. HIDE DEF e, B
    <3>. QED BY <1>8
  <2>. QED BY <2>1, <2>2, <2>3, <2>4
<1>15. Delivering' /\ rpc' \in {"body", "unlock"}
  BY <1>1, <1>4, <1>13 DEF Delivering
<1>16. recvid' > 0 /\ rc' = replied'[recvid'].code /\ rc' > 0
  BY <1>1, <1>3, <1>4, <1>7, <1>14
<1>17. PlaceInv'
  <2>1. CASE rpc' = "body" /\ InBody(r, p + 1)'
    <3>1. InBody(replied[recvid], pos - End[recvid - 1] - 8)'
      BY <1>14, <2>1
    <3>. QED BY <1>15, <1>16, <2>1, <3>1 DEF PlaceInv
  <2>2. CASE rpc' = "unlock" /\ p + 1 = Len(B)
    BY <1>14, <1>15, <1>16, <2>2 DEF PlaceInv
  <2>. QED BY <1>13, <2>1, <2>2
<1>18. ShownInv'
  BY <1>1, <1>2, <1>5, <1>13, <1>14, <1>15 DEF AnswerParts, ShownInv
<1>19. TurnInv'
  BY <1>1, <1>2, <1>3, <1>5, <1>6, <1>15 DEF AnswerParts, TurnInv
<1>. QED BY <1>5, <1>17, <1>18, <1>19 DEF AnswerParts

\* A plain reply that has come whole is not still being read when nothing is left.
LEMMA PlainNotStarved ==
  ASSUME OrderlyServer, TypeOK, AnswerParts, rpc = "body", pos = Len(wire),
         Len(wire) >= End[recvid]
  PROVE  ~Plain(replied[recvid])
<1>. SUFFICES ASSUME Plain(replied[recvid]) PROVE FALSE
  OBVIOUS
<1>. DEFINE r == replied[recvid]
            e == End[recvid - 1]
            o == pos - e - 8
<1>1. recvid \in 1..Len(replied) /\ recvid - 1 \in 0..Len(replied)
  <2>1. recvid \in 1..Len(replied)
    BY BodyTurn DEF AnswerParts, Delivering
  <2>. QED BY <2>1, PlaceFacts DEF AnswerParts
<1>2. /\ r \in Replies /\ Orderly(r) /\ e \in Nat
      /\ End[recvid] = e + 8 + Len(BodyTokens(r)) /\ Len(BodyTokens(r)) \in Nat
  BY <1>1, PlaceFacts DEF AnswerParts
<1>3. pos \in Nat /\ Len(wire) \in Nat
  BY TypeFacts
<1>4. ~CutShort(recvid)
  <2>1. End[recvid] \in Nat
    BY <1>2
  <2>. QED BY <1>3, <2>1 DEF CutShort
<1>5. InBody(r, o)
  BY <1>4 DEF AnswerParts, PlaceInv
<1>6. o \in Int /\ o >= Len(BodyTokens(r))
  <2>. HIDE DEF r, e
  <2>. QED BY <1>2, <1>3 DEF r
<1>7. o < Len(BodyTokens(r))
  <2>. HIDE DEF o
  <2>. QED BY <1>2, <1>5, <1>6, BodyBound
<1>. HIDE DEF o, r
<1>. QED BY <1>2, <1>6, <1>7

LEMMA BodyEofKeepsAnswer ==
  ASSUME OrderlyServer, TypeOK, AnswerParts, BodyEof
  PROVE  AnswerParts'
<1>1. /\ UNCHANGED <<recvid, answer, retcode, rc, line, body, last, pos, clientVars, serverVars>>
      /\ rpc = "body" /\ Drained /\ rpc' = "unlock"
  BY DEF BodyEof, Drained
<1>2. /\ UNCHANGED <<replied, wire, eof, cpc, req, sendid, msg, returned, spurious>>
      /\ End' = End /\ OwnAnswer' /\ StreamInv'
  <2>1. UNCHANGED <<serverVars, cpc, req, sendid, msg, returned, spurious>>
    BY <1>1 DEF clientVars
  <2>2. pos' <= Len(wire) /\ recvid' <= Len(replied)
    BY <1>1 DEF AnswerParts, StreamInv
  <2>. QED BY <2>1, <2>2, ReceiverLeaves DEF AnswerParts
<1>3. Delivering /\ recvid \in 1..Len(replied) /\ rc = replied[recvid].code /\ rc > 0 /\ recvid > 0
  <2>1. Delivering
    BY <1>1 DEF Delivering
  <2>2. recvid \in 1..Len(replied) /\ rc = replied[recvid].code /\ recvid > 0
    BY <2>1, BodyTurn DEF AnswerParts, PlaceInv
  <2>. QED BY <2>1, <2>2, GoodStatus DEF AnswerParts
<1>4. Delivering' /\ Drained' /\ ~Over
  BY <1>1, <1>2, <1>3 DEF Delivering, Drained, Over
<1>5. PlaceInv'
  BY <1>1, <1>2, <1>3, <1>4 DEF PlaceInv
<1>6. ShownInv'
  <2>1. Len(wire) >= End[recvid] => ~Plain(replied[recvid])
    BY <1>1, PlainNotStarved DEF Drained
  <2>. QED BY <1>1, <1>2, <1>3, <1>4, <2>1 DEF AnswerParts, ShownInv
<1>7. TurnInv'
  BY <1>1, <1>2, <1>3, <1>4 DEF AnswerParts, TurnInv
<1>. QED BY <1>2, <1>5, <1>6, <1>7 DEF AnswerParts

LEMMA UnlockKeepsAnswer ==
  ASSUME AnswerParts, Unlock
  PROVE  AnswerParts'
<1>1. /\ UNCHANGED <<recvid, answer, retcode, rc, line, body, last, pos, clientVars, serverVars>>
      /\ rpc = "unlock" /\ rpc' = "publish"
  BY DEF Unlock
<1>2. /\ UNCHANGED <<replied, wire, eof, cpc, req, sendid, msg, returned, spurious>>
      /\ End' = End /\ OwnAnswer' /\ StreamInv'
  <2>1. UNCHANGED <<serverVars, cpc, req, sendid, msg, returned, spurious>>
    BY <1>1 DEF clientVars
  <2>2. pos' <= Len(wire) /\ recvid' <= Len(replied)
    BY <1>1 DEF AnswerParts, StreamInv
  <2>. QED BY <2>1, <2>2, ReceiverLeaves DEF AnswerParts
<1>3. (Delivering' <=> Delivering) /\ (Drained' <=> Drained) /\ (Over => Over')
  BY <1>1, <1>2 DEF Delivering, Drained, Over
<1>4. PlaceInv'
  BY <1>1, <1>2, <1>3 DEF AnswerParts, PlaceInv
<1>5. ShownInv'
  BY <1>1, <1>2, <1>3 DEF AnswerParts, ShownInv
<1>6. TurnInv'
  BY <1>1, <1>2, <1>3 DEF AnswerParts, TurnInv
<1>. QED BY <1>2, <1>4, <1>5, <1>6 DEF AnswerParts

LEMMA PublishKeepsAnswer ==
  ASSUME AnswerParts, Publish
  PROVE  AnswerParts'
<1>1. /\ UNCHANGED <<recvid, answer, rc, line, body, last, pos, clientVars, serverVars>>
      /\ rpc = "publish" /\ rpc' = "signal" /\ retcode' = rc
  BY DEF Publish
<1>2. /\ UNCHANGED <<replied, wire, eof, cpc, req, sendid, msg, returned, spurious>>
      /\ End' = End /\ OwnAnswer' /\ StreamInv'
  <2>1. UNCHANGED <<serverVars, cpc, req, sendid, msg, returned, spurious>>
    BY <1>1 DEF clientVars
  <2>2. pos' <= Len(wire) /\ recvid' <= Len(replied)
    BY <1>1 DEF AnswerParts, StreamInv
  <2>. QED BY <2>1, <2>2, ReceiverLeaves DEF AnswerParts
<1>3. (Delivering' <=> Delivering) /\ (Drained' <=> Drained) /\ (Over => Over')
  BY <1>1, <1>2 DEF Delivering, Drained, Over
<1>4. PlaceInv'
  BY <1>1, <1>2, <1>3 DEF AnswerParts, PlaceInv
<1>5. rc > 0 => recvid > 0 /\ rc = replied[recvid].code
  BY <1>1 DEF AnswerParts, PlaceInv, Delivering
<1>6. ShownInv'
  BY <1>1, <1>2, <1>3, <1>5 DEF AnswerParts, ShownInv
<1>7. TurnInv'
  BY <1>1, <1>2, <1>3 DEF AnswerParts, TurnInv
<1>. QED BY <1>2, <1>4, <1>6, <1>7 DEF AnswerParts

LEMMA SignalKeepsAnswer ==
  ASSUME OrderlyServer, TypeOK, AnswerParts, Signal
  PROVE  AnswerParts'
<1>1. /\ UNCHANGED <<recvid, answer, retcode, rc, line, body, last, pos, serverVars>>
      /\ UNCHANGED <<req, sendid, msg, returned, spurious>>
      /\ rpc = "signal" /\ rpc' = "loop"
      /\ cpc' = IF cpc = "wait" THEN "woken" ELSE cpc
  BY DEF Signal
<1>2. UNCHANGED <<replied, wire, eof>> /\ End' = End /\ OwnAnswer' /\ StreamInv'
  <2>1. pos' <= Len(wire) /\ recvid' <= Len(replied)
    BY <1>1 DEF AnswerParts, StreamInv
  <2>. QED BY <1>1, <2>1, ReceiverLeaves DEF AnswerParts
<1>3. ~Delivering' /\ (Drained' <=> Drained) /\ retcode = rc
  BY <1>1, <1>2 DEF AnswerParts, ShownInv, Delivering, Drained
<1>4. PlaceInv'
  BY <1>1, <1>2, <1>3 DEF AnswerParts, PlaceInv
<1>5. ShownInv'
  BY <1>1, <1>2, <1>3 DEF AnswerParts, ShownInv
<1>6. TurnInv'
  <2>1. CASE rc > 0
    <3>1. Delivering
      BY <1>1, <2>1 DEF Delivering
    <3>2. recvid = Len(replied) /\ recvid = req /\ cpc \in {"lock", "test", "wait"}
      BY <3>1, BodyTurn DEF AnswerParts
    <3>3. Len(replied) >= req - 1
      BY <3>2, TypeFacts
    <3>4. cpc' \in {"lock", "test", "woken"}
      BY <1>1, <3>2
    <3>. QED BY <1>1, <1>2, <1>3, <3>2, <3>3, <3>4 DEF AnswerParts, TurnInv
  <2>2. CASE ~(rc > 0)
    <3>1. rc <= 0
      BY <2>2, TypeFacts
    <3>2. Over'
      BY <1>1, <1>2, <1>3, <2>2, <3>1 DEF AnswerParts, PlaceInv, Over
    <3>3. cpc' # "idle" => cpc # "idle"
      BY <1>1
    <3>. QED BY <1>1, <1>2, <3>2, <3>3 DEF AnswerParts, TurnInv
  <2>. QED BY <2>1, <2>2
<1>. QED BY <1>2, <1>4, <1>5, <1>6 DEF AnswerParts

LEMMA ReceiverKeepsAnswer ==
  ASSUME OrderlyServer, TypeOK, HttpInv, AnswerInv, Receiver
  PROVE  AnswerInv'
<1>1. UNCHANGED spurious
  BY DEF Receiver, Loop, Cancelled, ReadHeader, HeaderEof, Lock, ReadBody, BodyEof, Unlock,
         Publish, Signal, clientVars
<1>2. SUFFICES ASSUME spurious = 0 PROVE AnswerParts'
  BY <1>1 DEF AnswerInv, AnswerParts
<1>3. AnswerParts
  BY <1>2 DEF AnswerInv, AnswerParts
<1>. QED BY <1>3, LoopKeepsAnswer, CancelledKeepsAnswer, ReadHeaderKeepsAnswer, HeaderEofKeepsAnswer,
            LockKeepsAnswer, ReadBodyKeepsAnswer, BodyEofKeepsAnswer, UnlockKeepsAnswer,
            PublishKeepsAnswer, SignalKeepsAnswer DEF Receiver

LEMMA NothingKeepsAnswer == ASSUME TypeOK, AnswerInv, UNCHANGED vars PROVE AnswerInv'
<1>1. SUFFICES ASSUME spurious = 0 PROVE AnswerParts'
  BY DEF AnswerInv, AnswerParts, vars, clientVars
<1>2. AnswerParts
  BY <1>1 DEF AnswerInv, AnswerParts
<1>3. UNCHANGED <<receiverVars, serverVars, cpc, req, sendid, msg, returned, spurious>>
  BY DEF vars, clientVars
<1>4. StreamInv' /\ PlaceInv' /\ ShownInv'
  BY <1>2, <1>3, TypeFacts, CallerLeaves DEF AnswerParts
<1>5. TurnInv' /\ OwnAnswer'
  BY <1>2, <1>3, OverSame DEF AnswerParts, TurnInv, OwnAnswer
<1>. QED BY <1>4, <1>5 DEF AnswerParts

-----------------------------------------------------------------------------
(* The theorems.                                                           *)

\* Every variable keeps its type; in particular the answer, with its
\* terminating NUL, fits MAXBUFFER whatever the server sends.
THEOREM HttpTypes == Spec => []TypeOK
<1>1. ASSUME TypeOK, [Next]_vars PROVE TypeOK'
  <2>1. CASE Next
    BY <1>1, <2>1, ClientKeepsType, ReceiverKeepsType, ServerKeepsType
       DEF Next, Terminated, vars, TypeOK, clientVars, receiverVars, serverVars,
           handleVars
  <2>2. CASE UNCHANGED vars
    BY <1>1, <2>2 DEF vars, TypeOK, clientVars, receiverVars, serverVars, handleVars
  <2>. QED BY <1>1, <2>1, <2>2
<1>. QED BY <1>1, HttpInitType, PTL DEF Spec

\* The mutex is the one thread's that is inside, or the stream is over.
LEMMA HttpInvariance == Spec => []HttpInv
<1>1. ASSUME TypeOK, HttpInv, [Next]_vars PROVE HttpInv'
  <2>1. CASE Next
    BY <1>1, <2>1, ClientKeepsInv, ReceiverKeepsInv, ServerKeepsInv
       DEF Next, TypeOK, Terminated, vars, HttpInv, MutexInv, ClientInside,
           ReceiverInside, Finished, Drained, clientVars, receiverVars,
           serverVars, handleVars
  <2>2. CASE UNCHANGED vars
    BY <1>1, <2>2 DEF vars, HttpInv, MutexInv, ClientInside, ReceiverInside,
       Finished, Drained, clientVars, receiverVars, serverVars, handleVars
  <2>. QED BY <1>1, <2>1, <2>2
<1>. QED BY <1>1, HttpTypes, HttpInitInv, PTL DEF Spec

\* The receiver does not write the answer while the caller copies it, as long
\* as no header fails before the stream is over: at its end the mutex may be
\* unlocked under the caller, but then nothing more is written.
THEOREM CopyExclusiveHolds == Spec => []CopyExclusive
<1>1. HttpInv => CopyExclusive
  BY DEF HttpInv, MutexInv, ClientInside, ReceiverInside, Finished, CopyExclusive
<1>. QED BY <1>1, HttpInvariance, PTL

\* A reply is delivered whole or the stream is over, one reply to each request,
\* in order, for a server whose replies can be told apart.
THEOREM AnswerInvariance == ASSUME OrderlyServer PROVE Spec => []AnswerInv
<1>1. ASSUME TypeOK, HttpInv, AnswerInv, [Next]_vars PROVE AnswerInv'
  <2>1. CASE Next
    <3>1. CASE UNCHANGED vars
      BY <1>1, <3>1, NothingKeepsAnswer
    <3>. QED BY <1>1, <2>1, <3>1, ClientKeepsAnswer, ReceiverKeepsAnswer, ServerKeepsAnswer
             DEF Next, Terminated
  <2>2. CASE UNCHANGED vars
    BY <1>1, <2>2, NothingKeepsAnswer
  <2>. QED BY <1>1, <2>1, <2>2
<1>. QED BY <1>1, HttpTypes, HttpInvariance, AnswerStart, PTL DEF Spec

\* A positive result is the status of the request's own reply, and the message
\* its body, cut or with its NUL as the caller's buffer has it, although the ids of
\* requests and replies are never compared.
THEOREM OwnAnswerHolds == ASSUME OrderlyServer PROVE Spec => []OwnAnswer
<1>1. AnswerInv => OwnAnswer
  BY DEF AnswerInv, OwnAnswer
<1>. QED BY <1>1, AnswerInvariance, PTL

\* The receiver does not keep the mutex locked for bytes that do not come.
THEOREM NeverStarvesHolds == ASSUME OrderlyServer PROVE Spec => []NeverStarves
<1>1. ASSUME TypeOK, AnswerInv PROVE NeverStarves
  <2>. SUFFICES ASSUME rpc = "body", pos = Len(wire), ~eof, spurious = 0
                PROVE  ~Plain(replied[Len(replied)])
    BY DEF NeverStarves
  <2>1. AnswerParts
    BY <1>1 DEF AnswerInv, AnswerParts
  <2>2. recvid = Len(replied)
    BY <1>1, <2>1, BodyTurn DEF AnswerParts, Delivering
  <2>3. Len(wire) >= End[recvid]
    <3>1. Len(wire) = End[recvid] /\ Len(wire) \in Nat
      BY <1>1, <2>1, <2>2, TypeFacts DEF AnswerParts, StreamInv
    <3>. QED BY <3>1
  <2>. QED BY <1>1, <2>1, <2>2, <2>3, PlainNotStarved
<1>. QED BY <1>1, HttpTypes, AnswerInvariance, PTL

\* The handle is destroyed and freed while no reply is being delivered: all of them
\* are, or the stream is over.
THEOREM QuietAtDeinitHolds == ASSUME OrderlyServer PROVE Spec => []QuietAtDeinit
<1>1. ASSUME TypeOK, HttpInv, AnswerInv PROVE QuietAtDeinit
  <2>. SUFFICES ASSUME life # "open", spurious = 0
                PROVE  /\ rpc \notin {"lock", "body"}
                       /\ rpc \in {"unlock", "publish", "signal"} => Drained /\ rc <= 0
    BY DEF QuietAtDeinit
  <2>1. cpc = "idle"
    BY <1>1 DEF HttpInv
  <2>2. CASE Over
    BY <2>2 DEF Over
  <2>3. CASE ~Over
    <3>1. /\ (IF Delivering THEN recvid - 1 ELSE recvid) = Len(replied)
          /\ recvid <= Len(replied) /\ Len(replied) \in Nat /\ recvid \in Nat
      BY <1>1, <2>1, <2>3, PlaceFacts DEF AnswerInv, TurnInv, StreamInv, TypeOK
    <3>2. ~Delivering /\ recvid = Len(replied)
      BY <3>1
    <3>3. rpc \notin {"lock", "body"}
      BY <1>1, <3>1, <3>2 DEF AnswerInv, PlaceInv, Delivering
    <3>4. rpc \in {"unlock", "publish", "signal"} => Drained /\ ~(rc > 0)
      BY <1>1, <3>2 DEF AnswerInv, PlaceInv, Delivering
    <3>. QED BY <1>1, <3>3, <3>4 DEF TypeOK
  <2>. QED BY <2>2, <2>3
<1>. QED BY <1>1, HttpTypes, HttpInvariance, AnswerInvariance, PTL

-----------------------------------------------------------------------------
(* The other HTTP client, RestAPI.                                         *)

\* No call has been made.
LEMMA RestStart == ASSUME RestInit PROVE RestInv
<1>. USE RestAssumption DEF RestInit, RestAssumption
<1>1. RestTypes
  <2>1. strays \in [RestRequests -> Nat]
    OBVIOUS
  <2>2. /\ number \in 0..MaxCalls /\ count \in 0..Retry /\ open \subseteq used /\ used \subseteq Uids
        /\ pc = "idle" /\ pending = FALSE /\ failed = FALSE
    OBVIOUS
  <2>. QED BY <2>1, <2>2 DEF RestTypes
<1>2. LoopInv
  BY DEF LoopInv
<1>3. CleanInv
  BY DEF CleanInv, NoReply
<1>4. DoneInv
  BY DEF DoneInv
<1>5. CleanMeansCleared /\ SuccessMeansDone
  BY DEF CleanMeansCleared, SuccessMeansDone
<1>. QED BY <1>1, <1>2, <1>3, <1>4, <1>5 DEF RestInv

\* The kinds of request are told apart by what they do.
LEMMA RequestKinds ==
  /\ Clean \notin Texts \cup Snapshots
  /\ List \notin Texts \cup Snapshots \cup Clears
  /\ \A q \in Texts : q.op \in {"command", "queryhst"}
  /\ \A q \in Snapshots : q.op \in {"create", "delete", "restore"} /\ q \notin Texts
  /\ \A q \in Clears : q.op = "clear"
  /\ List.op = "list"
  /\ NoReply # EmptyList /\ NoReply # Other /\ Other # EmptyList
  /\ \A i : [text |-> "ids", ids |-> i] \notin {NoReply, EmptyList, Other}
  /\ NoReply.ids = {} /\ EmptyList.ids = {} /\ Other.ids = {}
BY DEF Texts, Snapshots, Clears, Clean, List, NoReply, EmptyList, Other

\* A call begins: nothing under way belongs to it.
LEMMA BeginKeeps ==
  ASSUME RestInv, NEW c \in Texts \cup Snapshots \cup {Clean},
         Begin(c)
  PROVE  RestInv'
<1>. USE DEF RestInv
<1>1. /\ pc = "idle" /\ pc' = "next" /\ number < MaxCalls /\ number' = number + 1 /\ call' = c
      /\ query' = (IF c = Clean THEN List ELSE c) /\ count' = 0 /\ ret' = "none"
      /\ listed' = {} /\ failed' = FALSE
      /\ UNCHANGED <<todo, reply, pending, strays, open, used, snaps, done>>
  BY DEF Begin, TryLoop, server
<1>2. number \in 0..MaxCalls /\ MaxCalls \in Nat /\ number' \in 0..MaxCalls /\ number' > 0
  BY RestAssumption, <1>1 DEF RestTypes, RestAssumption
<1>3. RestTypes'
  <2>1. count' \in 0..Retry /\ query' \in Texts \cup Snapshots \cup Clears \cup {List}
    BY RestAssumption, <1>1 DEF RestAssumption
  <2>. QED BY <1>1, <1>2, <2>1 DEF RestTypes
<1>4. LoopInv'
  BY <1>1, <1>2 DEF LoopInv
<1>5. CleanInv'
  BY <1>1 DEF CleanInv, LoopInv
<1>6. DoneInv'
  <2>1. done' \subseteq 1..number' /\ number' \notin done'
    BY <1>1, <1>2 DEF DoneInv
  <2>2. ASSUME NEW r \in RestRequests, strays[r] > 0 PROVE r[2] < number'
    BY <1>1, <1>2, <2>2 DEF DoneInv, RestRequests
  <2>3. reply' = NoReply
    BY <1>1 DEF LoopInv
  <2>. QED BY <1>1, <2>1, <2>2, <2>3 DEF DoneInv
<1>7. CleanMeansCleared' /\ SuccessMeansDone'
  BY <1>1 DEF CleanMeansCleared, SuccessMeansDone
<1>. QED BY <1>3, <1>4, <1>5, <1>6, <1>7

\* A call that makes no request returns at once, and nothing was carried out for it.
LEMMA SetNothingKeeps == ASSUME RestInv, SetNothing PROVE RestInv'
<1>. USE DEF RestInv
<1>1. /\ pc = "idle" /\ pc' = "idle" /\ number < MaxCalls /\ number' = number + 1
      /\ call' \in Texts /\ ret' = "empty" /\ count' = 0 /\ todo' = {}
      /\ listed' = {} /\ failed' = FALSE
      /\ UNCHANGED <<query, reply, pending, strays, open, used, snaps, done>>
  BY DEF SetNothing, EndCall, server
<1>2. number \in 0..MaxCalls /\ MaxCalls \in Nat /\ number' \in 0..MaxCalls /\ call' # Clean
  BY RestAssumption, RequestKinds, <1>1 DEF RestTypes, RestAssumption
<1>3. RestTypes'
  <2>1. count' \in 0..Retry /\ todo' \subseteq Uids \cup {NoId}
    BY RestAssumption, <1>1 DEF RestAssumption
  <2>2. call' \in Texts \cup Snapshots \cup {Clean}
    BY <1>1
  <2>. QED BY <1>1, <1>2, <2>1, <2>2 DEF RestTypes
<1>4. LoopInv'
  BY <1>1 DEF LoopInv
<1>5. CleanInv'
  BY <1>1 DEF CleanInv
<1>6. done' \subseteq 1..number' /\ number' \notin done'
  BY <1>1, <1>2 DEF DoneInv
<1>7. DoneInv'
  <2>1. ASSUME NEW r \in RestRequests, strays[r] > 0 PROVE r[2] < number'
    BY <1>1, <1>2, <2>1 DEF DoneInv, RestRequests
  <2>. QED BY <1>1, <1>6, <2>1 DEF DoneInv
<1>8. CleanMeansCleared' /\ SuccessMeansDone'
  BY <1>1, <1>2, <1>6 DEF CleanMeansCleared, SuccessMeansDone
<1>. QED BY <1>3, <1>4, <1>5, <1>7, <1>8

\* The next try.
LEMMA SendKeeps ==
  ASSUME RestInv, Send
  PROVE  RestInv'
<1>. USE DEF RestInv
<1>1. /\ pc = "next" /\ pc' = "wait" /\ pending' = TRUE /\ count < Retry
      /\ UNCHANGED <<call, query, number, count, todo, reply, ret, listed, failed,
                     strays, open, used, snaps, done>>
  BY DEF Send, server
<1>3. RestTypes'
  BY <1>1 DEF RestTypes
<1>4. LoopInv'
  BY <1>1 DEF LoopInv
<1>5. CleanInv'
  BY <1>1 DEF CleanInv
<1>6. DoneInv'
  BY <1>1 DEF DoneInv, Success
<1>7. CleanMeansCleared' /\ SuccessMeansDone'
  BY <1>1 DEF CleanMeansCleared, SuccessMeansDone
<1>. QED BY <1>3, <1>4, <1>5, <1>6, <1>7

\* The tries are used up, so that one has failed.
LEMMA GiveUpKeeps ==
  ASSUME RestInv, GiveUp
  PROVE  RestInv'
<1>. USE DEF RestInv
<1>1. /\ pc = "next" /\ count = Retry /\ pc' = "idle" /\ ret' = Failure /\ count' = 0
      /\ todo' = {}
      /\ UNCHANGED <<call, query, number, reply, pending, listed, failed,
                     strays, open, used, snaps, done>>
  BY DEF GiveUp, EndCall, server
<1>2. failed /\ ret' \in {"empty", "false"}
  BY RestAssumption, <1>1 DEF LoopInv, RestAssumption, Failure
<1>3. RestTypes'
  BY RestAssumption, <1>1 DEF RestTypes, RestAssumption
<1>4. LoopInv'
  BY <1>1 DEF LoopInv
<1>5. CleanInv'
  BY <1>1 DEF CleanInv
<1>6. DoneInv'
  BY <1>1 DEF DoneInv
<1>7. CleanMeansCleared' /\ SuccessMeansDone'
  BY <1>1, <1>2 DEF CleanMeansCleared, SuccessMeansDone
<1>. QED BY <1>3, <1>4, <1>5, <1>6, <1>7

\* A request given up may be under way from now on; then a try has failed.
LEMMA NothingKeeps ==
  ASSUME RestInv, Nothing
  PROVE  RestInv'
<1>. USE DEF RestInv
<1>1. /\ pc = "wait" /\ pc' = "next" /\ count' = count + 1 /\ pending' = FALSE
      /\ reply' = NoReply /\ failed' = TRUE
      /\ UNCHANGED <<call, query, number, todo, ret, listed, open, used, snaps, done>>
  BY DEF Nothing, Tried
<1>2. /\ \/ UNCHANGED strays
         \/ strays' = [strays EXCEPT ![<<query, number>>] = 1]
      /\ strays' \in [RestRequests -> Nat]
      /\ \A r \in RestRequests : strays'[r] > 0 => strays[r] > 0 \/ r[2] = number
  <2>1. strays \in [RestRequests -> Nat]
    BY DEF RestTypes
  <2>2. \/ UNCHANGED strays
        \/ strays' = [strays EXCEPT ![<<query, number>>] = 1]
    BY DEF Nothing
  <2>3. <<query, number>>[2] = number
    OBVIOUS
  <2>. QED BY <2>1, <2>2, <2>3
<1>3. RestTypes'
  <2>1. count' \in 0..Retry
    BY RestAssumption, <1>1 DEF RestTypes, LoopInv, RestAssumption
  <2>. QED BY <1>1, <1>2, <2>1 DEF RestTypes
<1>4. LoopInv'
  <2>1. ~(pc' = "wait")
    BY <1>1
  <2>. QED BY <1>1, <2>1 DEF LoopInv
<1>5. CleanInv'
  <2>1. reply'.ids = {}
    BY <1>1, RequestKinds
  <2>. QED BY <1>1, <2>1 DEF CleanInv
<1>6. DoneInv'
  BY <1>1, <1>2 DEF DoneInv
<1>7. CleanMeansCleared' /\ SuccessMeansDone'
  BY <1>1 DEF CleanMeansCleared, SuccessMeansDone
<1>. QED BY <1>3, <1>4, <1>5, <1>6, <1>7

\* An answer that breaks off ends the call with an exception.
LEMMA TornKeeps ==
  ASSUME RestInv, Torn
  PROVE  RestInv'
<1>. USE DEF RestInv
<1>1. /\ pc = "wait" /\ pc' = "idle" /\ count' = 0 /\ todo' = {} /\ ret' = "thrown"
      /\ reply' = NoReply /\ reply # NoReply
      /\ UNCHANGED <<call, query, number, pending, failed, listed,
                     strays, open, used, snaps, done>>
  BY DEF Torn, Arrived, EndCall, server
<1>3. RestTypes'
  BY RestAssumption, <1>1 DEF RestTypes, RestAssumption
<1>4. LoopInv'
  BY <1>1 DEF LoopInv
<1>5. CleanInv'
  BY <1>1, RequestKinds DEF CleanInv
<1>6. DoneInv'
  BY <1>1 DEF DoneInv
<1>7. CleanMeansCleared' /\ SuccessMeansDone'
  BY <1>1 DEF CleanMeansCleared, SuccessMeansDone
<1>. QED BY <1>3, <1>4, <1>5, <1>6, <1>7

\* A text or a snapshot is answered: a good answer was done, any other one only if a
\* try had failed.
LEMMA AnsweredKeeps ==
  ASSUME RestInv, Answered
  PROVE  RestInv'
<1>. USE DEF RestInv
<1>1. /\ pc = "wait" /\ pc' = "idle" /\ count' = 0 /\ todo' = {} /\ ret' = Success
      /\ reply' = NoReply /\ reply # NoReply /\ call # Clean
      /\ UNCHANGED <<call, query, number, pending, failed, listed,
                     strays, open, used, snaps, done>>
  BY DEF Answered, Arrived, EndCall, server
<1>3. RestTypes'
  BY RestAssumption, <1>1 DEF RestTypes, RestAssumption
<1>4. LoopInv'
  BY <1>1 DEF LoopInv
<1>5. CleanInv'
  BY <1>1, RequestKinds DEF CleanInv
<1>6. DoneInv'
  BY <1>1 DEF DoneInv
<1>7. CleanMeansCleared' /\ SuccessMeansDone'
  <2>1. CleanMeansCleared'
    BY <1>1 DEF CleanMeansCleared
  <2>2. /\ Success \in {"answer", "true"} => number \in done
        /\ number \in done => Success \in {"answer", "true"} \/ failed
    BY <1>1 DEF DoneInv
  <2>3. SuccessMeansDone'
    BY <1>1, <2>2 DEF SuccessMeansDone
  <2>. QED BY <2>1, <2>3
<1>. QED BY <1>3, <1>4, <1>5, <1>6, <1>7

\* The next id of queryClean.
LEMMA ClearOneKeeps ==
  ASSUME RestInv, Arrived, NEW ids, ids \subseteq Uids \cup {NoId},
         ClearOne(ids), call = Clean, ret' = ret, listed' \subseteq used,
         listed' \cap open \subseteq Refused \cup ids
  PROVE  RestInv'
<1>. USE DEF RestInv
<1>1. /\ pc = "wait" /\ pc' = "next" /\ count' = 0 /\ todo' = ids
      /\ reply' = NoReply /\ reply # NoReply
      /\ query' \in Clears
      /\ UNCHANGED <<call, number, pending, failed, strays, open, used, snaps, done>>
  BY DEF Arrived, ClearOne, TryLoop, Clears, server
<1>3. RestTypes'
  BY RestAssumption, <1>1 DEF RestTypes, RestAssumption
<1>4. LoopInv'
  BY <1>1 DEF LoopInv
<1>5. CleanInv'
  BY <1>1, RequestKinds DEF CleanInv
<1>6. DoneInv'
  BY <1>1 DEF DoneInv
<1>7. CleanMeansCleared' /\ SuccessMeansDone'
  BY <1>1 DEF CleanMeansCleared, SuccessMeansDone
<1>. QED BY <1>3, <1>4, <1>5, <1>6, <1>7

\* queryClean is told the open ids, and has all of them to clear.
LEMMA ListedKeeps ==
  ASSUME RestInv, Listed
  PROVE  RestInv'
<1>1. /\ Arrived /\ query = List /\ listed' = reply.ids /\ UNCHANGED ret /\ pc = "wait"
      /\ ClearOne(IF reply.ids = {} THEN {NoId} ELSE reply.ids)
  BY DEF Listed, Arrived
<1>2. call = Clean
  BY <1>1, RequestKinds DEF RestInv, RestTypes, LoopInv
<1>3. reply.ids \subseteq used /\ used \subseteq Uids
  BY DEF RestInv, RestTypes, CleanInv
<1>. DEFINE ids == IF reply.ids = {} THEN {NoId} ELSE reply.ids
<1>4. ids \subseteq Uids \cup {NoId} /\ listed' \cap open \subseteq Refused \cup ids /\ ClearOne(ids)
  BY <1>1, <1>3
<1>. HIDE DEF ids
<1>. QED BY <1>1, <1>2, <1>3, <1>4, ClearOneKeeps

\* An id is cleared, or refused by the server; the last one ends the call.
LEMMA ClearedKeeps ==
  ASSUME RestInv, Cleared
  PROVE  RestInv'
<1>1. /\ Arrived /\ query.op = "clear" /\ UNCHANGED listed /\ pc = "wait"
      /\ reply # NoReply
  BY DEF Cleared, Arrived
<1>2. call = Clean /\ query \in Clears /\ query # List
  BY <1>1, RequestKinds DEF RestInv, RestTypes, LoopInv
<1>3. listed \cap open \subseteq Refused \cup (todo \ {query.arg}) /\ listed \subseteq used
  BY <1>1, <1>2 DEF RestInv, CleanInv
<1>4. CASE todo = {query.arg} /\ EndCall("true") /\ UNCHANGED query
  <2>. USE DEF RestInv
  <2>1. /\ pc' = "idle" /\ count' = 0 /\ todo' = {} /\ ret' = "true" /\ reply' = NoReply
        /\ UNCHANGED <<call, query, number, pending, failed, listed,
                       strays, open, used, snaps, done>>
    BY <1>1, <1>4 DEF Arrived, EndCall, server
  <2>3. RestTypes'
    BY RestAssumption, <2>1 DEF RestTypes, RestAssumption
  <2>4. LoopInv'
    BY <1>1, <2>1 DEF LoopInv
  <2>5. CleanInv'
    BY <2>1, RequestKinds DEF CleanInv
  <2>6. DoneInv'
    BY <2>1 DEF DoneInv
  <2>7. CleanMeansCleared'
    BY <1>3, <1>4, <2>1 DEF CleanMeansCleared
  <2>8. SuccessMeansDone'
    BY <1>2, <2>1 DEF SuccessMeansDone
  <2>. QED BY <2>3, <2>4, <2>5, <2>6, <2>7, <2>8
<1>5. CASE ClearOne(todo \ {query.arg}) /\ UNCHANGED ret
  <2>1. todo \ {query.arg} \subseteq Uids \cup {NoId}
    BY DEF RestInv, RestTypes
  <2>. QED BY <1>1, <1>2, <1>3, <1>5, <2>1, ClearOneKeeps
<1>. QED BY <1>4, <1>5 DEF Cleared

-----------------------------------------------------------------------------
(* The server.                                                             *)

\* What carrying out a request can change.
LEMMA EffectOutcome ==
  ASSUME RestInv, NEW r \in RestRequests, Effect(r)
  PROVE  /\ used \subseteq used' /\ used' \subseteq Uids /\ open' \subseteq used'
         /\ open' \subseteq open \cup (Uids \ used)
         /\ done' = done \/ done' = done \cup {r[2]}
         /\ r[1] \in Clears =>
              open' = open \ ({r[1].arg} \ Refused) /\ done' = done
         /\ r[1] = List => UNCHANGED <<open, done>>
         /\ r[1] \in Texts => r[2] \in done'
         /\ r[1] \in Snapshots =>
              IF ServerReply(r[1]) = EmptyList THEN r[2] \in done' ELSE done' = done
<1>. DEFINE q == r[1]
<1>1. open \subseteq used /\ used \subseteq Uids
  BY DEF RestInv, RestTypes
<1>2. CASE q.op \in {"command", "list"} /\ Done(r, q # List) /\ UNCHANGED <<open, used, snaps>>
  <2>1. q \in Texts => q # List
    BY RequestKinds
  <2>. QED BY <1>1, <1>2, <2>1, RequestKinds DEF Done
<1>3. CASE /\ q.op = "queryhst" /\ Done(r, TRUE) /\ UNCHANGED snaps
           /\ \E u \in Uids \ used : used' = used \cup {u} /\ open' = open \cup {u}
  BY <1>1, <1>3, RequestKinds DEF Done
<1>4. CASE /\ q.op = "clear"
           /\ open' = open \ ({q.arg} \ Refused) /\ UNCHANGED <<used, snaps, done>>
  BY <1>1, <1>4, RequestKinds
<1>5. CASE /\ q.op = "create" /\ snaps' = snaps \cup {q.arg}
           /\ Done(r, q.arg \notin snaps) /\ UNCHANGED <<open, used>>
  <2>1. q # List /\ q \notin Texts /\ q \notin Clears
    BY <1>5, RequestKinds
  <2>2. ServerReply(q) = IF q.arg \notin snaps THEN EmptyList ELSE Other
    BY <1>5, <2>1 DEF ServerReply
  <2>. QED BY <1>1, <1>5, <2>1, <2>2, RequestKinds DEF Done
<1>6. CASE /\ q.op = "delete" /\ snaps' = snaps \ {q.arg}
           /\ Done(r, q.arg \in snaps) /\ UNCHANGED <<open, used>>
  <2>1. q # List /\ q \notin Texts /\ q \notin Clears
    BY <1>6, RequestKinds
  <2>2. ServerReply(q) = IF q.arg \in snaps THEN EmptyList ELSE Other
    BY <1>6, <2>1 DEF ServerReply
  <2>. QED BY <1>1, <1>6, <2>1, <2>2, RequestKinds DEF Done
<1>7. CASE /\ q.op = "restore"
           /\ Done(r, q.arg \in snaps) /\ UNCHANGED <<open, used, snaps>>
  <2>1. q # List /\ q \notin Texts /\ q \notin Clears
    BY <1>7, RequestKinds
  <2>2. ServerReply(q) = IF q.arg \in snaps THEN EmptyList ELSE Other
    BY <1>7, <2>1 DEF ServerReply
  <2>. QED BY <1>1, <1>7, <2>1, <2>2, RequestKinds DEF Done
<1>8. \/ q.op \in {"command", "list"} /\ Done(r, q # List) /\ UNCHANGED <<open, used, snaps>>
      \/ /\ q.op = "queryhst" /\ Done(r, TRUE) /\ UNCHANGED snaps
         /\ \E u \in Uids \ used : used' = used \cup {u} /\ open' = open \cup {u}
      \/ /\ q.op = "clear"
         /\ open' = open \ ({q.arg} \ Refused) /\ UNCHANGED <<used, snaps, done>>
      \/ /\ q.op = "create" /\ snaps' = snaps \cup {q.arg}
         /\ Done(r, q.arg \notin snaps) /\ UNCHANGED <<open, used>>
      \/ /\ q.op = "delete" /\ snaps' = snaps \ {q.arg}
         /\ Done(r, q.arg \in snaps) /\ UNCHANGED <<open, used>>
      \/ q.op = "restore" /\ Done(r, q.arg \in snaps) /\ UNCHANGED <<open, used, snaps>>
  <2>. HIDE DEF q
  <2>. QED BY DEF Effect, q
<1>. QED BY <1>2, <1>3, <1>4, <1>5, <1>6, <1>7, <1>8

\* The server carries out the request in progress and answers it.
LEMMA ExecuteKeeps ==
  ASSUME RestInv, Execute
  PROVE  RestInv'
<1>. DEFINE r == <<query, number>>
<1>1. /\ pc = "wait" /\ pending /\ Effect(r) /\ reply' = ServerReply(query) /\ pending' = FALSE
      /\ UNCHANGED <<pc, call, query, number, count, todo, ret, strays, listed, failed>>
  BY DEF Execute
<1>2. /\ r \in RestRequests /\ r[1] = query /\ r[2] = number /\ number \in 1..MaxCalls
      /\ reply = NoReply /\ MaxCalls \in Nat
  BY RestAssumption, <1>1 DEF RestInv, RestTypes, LoopInv, RestRequests, RestAssumption
<1>. HIDE DEF r
<1>3. /\ used \subseteq used' /\ used' \subseteq Uids /\ open' \subseteq used'
      /\ open' \subseteq open \cup (Uids \ used)
      /\ done' = done \/ done' = done \cup {number}
      /\ query \in Clears => open' = open \ ({query.arg} \ Refused) /\ done' = done
      /\ query = List => UNCHANGED <<open, done>>
      /\ query \in Texts => number \in done'
      /\ query \in Snapshots => IF reply' = EmptyList THEN number \in done' ELSE done' = done
  BY <1>1, <1>2, EffectOutcome
<1>4. /\ reply' \in {EmptyList, Other} \/ (reply' = [text |-> "ids", ids |-> open] /\ query = List)
      /\ reply' # NoReply
  <2>1. reply' \in {EmptyList, Other} \/ (reply' = [text |-> "ids", ids |-> open] /\ query = List)
    BY <1>1 DEF ServerReply
  <2>. QED BY <2>1, RequestKinds
<1>5. reply'.ids \subseteq used
  BY <1>4, RequestKinds DEF RestInv, RestTypes
<1>6. RestTypes'
  <2>1. open \subseteq Uids
    BY DEF RestInv, RestTypes
  <2>2. reply' \in {NoReply, EmptyList, Other} \cup [text: {"ids"}, ids: SUBSET Uids]
    BY <1>4, <2>1
  <2>. QED BY <1>1, <1>3, <2>2 DEF RestInv, RestTypes
<1>7. LoopInv'
  BY <1>1, <1>2 DEF RestInv, LoopInv
<1>8. CleanInv'
  <2>1. listed' \subseteq used' /\ reply'.ids \subseteq used'
    BY <1>1, <1>3, <1>5 DEF RestInv, CleanInv
  <2>2. ASSUME call = Clean, query # List
        PROVE  listed \cap open' \subseteq Refused \cup (todo \ {query.arg})
    <3>1. query \in Clears
      BY <1>1, <2>2 DEF RestInv, LoopInv
    <3>2. listed \cap open \subseteq Refused \cup todo
      BY <1>1, <1>2, <2>2 DEF RestInv, CleanInv
    <3>. QED BY <1>3, <3>1, <3>2
  <2>. QED BY <1>1, <1>4, <2>1, <2>2 DEF CleanInv
<1>9. DoneInv'
  <2>1. done' \subseteq 1..number'
    <3>1. done \subseteq 1..number /\ number' = number
      BY <1>1 DEF RestInv, DoneInv
    <3>2. number \in 1..number
      BY <1>2
    <3>. QED BY <1>3, <3>1, <3>2
  <2>2. ASSUME call # Clean
        PROVE  LET good == reply' # NoReply /\ Success' \in {"answer", "true"}
               IN  (good => number \in done') /\ (number \in done' => good \/ failed)
    <3>1. query = call /\ call \in Texts \cup Snapshots
      BY <1>1, <2>2 DEF RestInv, RestTypes, LoopInv
    <3>2. number \in done => failed
      BY <1>1, <1>2, <2>2 DEF RestInv, DoneInv
    <3>3. CASE call \in Texts
      <4>1. Success' = "answer" /\ number \in done'
        BY <1>1, <1>3, <3>1, <3>3 DEF Success
      <4>. QED BY <1>4, <4>1
    <3>4. CASE call \in Snapshots
      <4>1. Success' = IF reply' = EmptyList THEN "true" ELSE "false"
        BY <1>1, <3>4, RequestKinds DEF Success
      <4>. QED BY <1>3, <1>4, <3>1, <3>2, <3>4, <4>1
    <3>. QED BY <3>1, <3>3, <3>4
  <2>. QED BY <1>1, <2>1, <2>2 DEF RestInv, DoneInv
<1>10. CleanMeansCleared' /\ SuccessMeansDone'
  BY <1>1 DEF CleanMeansCleared, SuccessMeansDone
<1>. QED BY <1>6, <1>7, <1>8, <1>9, <1>10 DEF RestInv

\* A late request is of an earlier call, or of this one and then a try has failed;
\* ids it is given are new.
LEMMA LateKeeps ==
  ASSUME RestInv, NEW r \in RestRequests, ExecuteLate(r)
  PROVE  RestInv'
<1>1. /\ strays[r] > 0 /\ Effect(r) /\ strays' = [strays EXCEPT ![r] = @ - 1]
      /\ UNCHANGED <<pc, call, query, number, count, todo, reply, pending, ret, listed, failed>>
  BY DEF ExecuteLate
<1>2. /\ used \subseteq used' /\ used' \subseteq Uids /\ open' \subseteq used'
      /\ open' \subseteq open \cup (Uids \ used)
      /\ done' = done \/ done' = done \cup {r[2]}
  BY <1>1, EffectOutcome
<1>3. /\ strays' \in [RestRequests -> Nat]
      /\ \A x \in RestRequests : strays'[x] > 0 => strays[x] > 0
  <2>1. strays \in [RestRequests -> Nat]
    BY DEF RestInv, RestTypes
  <2>. QED BY <1>1, <2>1
<1>4. /\ r[2] < number \/ (r[2] = number /\ failed)
      /\ r[2] \in 1..MaxCalls /\ number \in 0..MaxCalls /\ MaxCalls \in Nat
  BY RestAssumption, <1>1 DEF RestInv, RestTypes, DoneInv, RestRequests, RestAssumption
<1>5. listed \subseteq used /\ listed \cap open' \subseteq listed \cap open
  BY <1>2 DEF RestInv, CleanInv
<1>6. RestTypes'
  BY <1>1, <1>2, <1>3 DEF RestInv, RestTypes
<1>7. LoopInv'
  BY <1>1 DEF RestInv, LoopInv
<1>8. CleanInv'
  BY <1>1, <1>2, <1>5 DEF RestInv, CleanInv
<1>9. Success' = Success
  BY <1>1 DEF Success
<1>10. number \in done' => number \in done \/ failed
  BY <1>2, <1>4
<1>11. DoneInv'
  <2>1. done' \subseteq 1..number'
    <3>1. done \subseteq 1..number /\ number' = number
      BY <1>1 DEF RestInv, DoneInv
    <3>2. r[2] \in 1..number
      BY <1>4
    <3>. QED BY <1>2, <3>1, <3>2
  <2>. QED BY <1>1, <1>2, <1>3, <1>9, <1>10, <2>1 DEF RestInv, DoneInv
<1>12. CleanMeansCleared'
  BY <1>1, <1>5 DEF RestInv, CleanMeansCleared
<1>13. SuccessMeansDone'
  BY <1>1, <1>2, <1>10 DEF RestInv, SuccessMeansDone
<1>. QED BY <1>6, <1>7, <1>8, <1>11, <1>12, <1>13 DEF RestInv

\* The invariant of the client's loops, of the ids of a queryClean and of what the
\* server has carried out.
THEOREM RestInvariance == RestSpec => []RestInv
<1>1. RestInit => RestInv
  BY RestStart
<1>2. RestInv /\ [RestNext]_(restVars) => RestInv'
  <2>1. SUFFICES ASSUME RestInv, [RestNext]_(restVars) PROVE RestInv'
    OBVIOUS
  <2>2. CASE \E c \in Texts \cup Snapshots \cup {Clean} : Begin(c)
    BY <2>1, <2>2, BeginKeeps
  <2>3. CASE RestClient
    BY <2>1, <2>3, SendKeeps, GiveUpKeeps, NothingKeeps, TornKeeps, AnsweredKeeps, ListedKeeps,
       ClearedKeeps DEF RestClient
  <2>4. CASE Execute
    BY <2>1, <2>4, ExecuteKeeps
  <2>5. CASE \E r \in RestRequests : ExecuteLate(r)
    BY <2>1, <2>5, LateKeeps
  <2>6. CASE UNCHANGED restVars
    BY <2>1, <2>6 DEF restVars, server, RestInv, RestTypes, LoopInv, CleanInv, DoneInv,
       CleanMeansCleared, SuccessMeansDone, Success
  <2>7. CASE SetNothing
    BY <2>1, <2>7, SetNothingKeeps
  <2>. QED BY <2>1, <2>2, <2>3, <2>4, <2>5, <2>6, <2>7 DEF RestNext, RestTerminated
<1>. QED BY <1>1, <1>2, PTL DEF RestSpec

\* queryClean that returns true has cleared every id it was told that the server does
\* not refuse, whatever requests of earlier calls are executed late.
THEOREM CleanMeansClearedHolds == RestSpec => []CleanMeansCleared
<1>1. RestInv => CleanMeansCleared
  BY DEF RestInv
<1>. QED BY <1>1, RestInvariance, PTL

\* A command that reports success was carried out for this call, and one that reports
\* failure although it was carried out had lost an answer.
THEOREM SuccessMeansDoneHolds == RestSpec => []SuccessMeansDone
<1>1. RestInv => SuccessMeansDone
  BY DEF RestInv
<1>. QED BY <1>1, RestInvariance, PTL
=============================================================================
