------------------------------- MODULE MCHttp -------------------------------
(* TLC instances of HttpLib. *)
EXTENDS HttpLib

LengthReply(s) == [code |-> 200, framing |-> "length", chunks |-> <<s>>]
ChunkedReply(c) == [code |-> 201, framing |-> "chunked", chunks |-> c]

\* Three replies that end by themselves, and two that leave the receiver reading:
\* a line end in the body (which is also longer than the buffer), and no body.
SomeReplies ==
  {LengthReply(<<"a">>), LengthReply(<<"a", "b">>), ChunkedReply(<<<<"b">>, <<"a">>>>),
   LengthReply(<<"a", "cr", "lf">>), LengthReply(<<>>)}

\* A buffer that the shortest plain body fills and the others exceed, and one that
\* holds the shortest with its NUL and is filled by the others.
Rooms == <<1, 2>>
=============================================================================
