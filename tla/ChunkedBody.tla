---------------------------- MODULE ChunkedBody ----------------------------
(***************************************************************************)
(* The chunked transfer coding as mongoose undoes it in place, in the      *)
(* receive buffer of a connection: mg_http_parse_chunk and                 *)
(* mg_handle_chunked.  A body is a sequence of tokens: digits, the end of  *)
(* a line, and other bytes.  A line end that has arrived by half is as     *)
(* good as none, so it is one token.                                       *)
(***************************************************************************)
EXTENDS Integers, Sequences, FiniteSets

CONSTANT MaxDigits   \* digits of a chunk's size: six in mongoose

ASSUME DigitsAssumption == MaxDigits \in Nat \ {0}

Digits == {"0", "1", "2"}            \* for the sixteen of the code
Base == 3
DigitValue == [d \in Digits |-> IF d = "0" THEN 0 ELSE IF d = "1" THEN 1 ELSE 2]
Newline == "nl"

NewlineAt(s, k) == k <= Len(s) /\ s[k] = Newline

\* The digits that follow position i of s.
DigitRun(s, i) ==
  Cardinality({k \in 1..(Len(s) - i) : \A j \in 1..k : s[i + j] \in Digits})

\* The number that the k digits after position i make.
SizeOf(s, i, k) ==
  LET value[j \in 0..k] == IF j = 0 THEN 0
                           ELSE Base * value[j - 1] + DigitValue[s[i + j]]
  IN  value[k]

\* Seeded fault: the line end after the data is not waited for.
BadParseChunk(s, i) ==
  LET k == DigitRun(s, i)
      n == SizeOf(s, i, k)
  IN  IF k \in 1..MaxDigits /\ NewlineAt(s, i + k + 1) /\ i + k + 1 + n <= Len(s)
        THEN [total |-> k + 1 + n, data |-> SubSeq(s, i + k + 2, i + k + 1 + n)]
        ELSE [total |-> 0, data |-> <<>>]

\* The chunk after position i: its length with its size and line ends, 0 unless
\* all of it is there, and its data.
ParseChunk(s, i) ==
  LET k == DigitRun(s, i)
      n == SizeOf(s, i, k)
  IN  IF k \in 1..MaxDigits /\ NewlineAt(s, i + k + 1) /\ NewlineAt(s, i + k + 1 + n + 1)
        THEN [total |-> k + n + 2, data |-> SubSeq(s, i + k + 2, i + k + 1 + n)]
        ELSE [total |-> 0, data |-> <<>>]

\* All whole chunks from position i on, up to an empty one: their data, where the
\* first token after them is, and whether the empty one was among them.
Chunks(s) ==
  LET from[i \in 0..Len(s)] ==
        LET c == ParseChunk(s, i)
        IN  IF c.total = 0 THEN [data |-> <<>>, next |-> i, last |-> FALSE]
            ELSE IF c.data = <<>>
              THEN [data |-> <<>>, next |-> i + c.total, last |-> TRUE]
              ELSE LET more == from[i + c.total]
                   IN  [more EXCEPT !.data = c.data \o @]
  IN  from

\* Seeded fault: what has been put together is searched for chunks again.
BadHandleChunked(s, bodyLen) ==
  LET c == Chunks(s)[0]
  IN  [buf |-> c.data \o SubSeq(s, c.next + 1, Len(s)),
       bodyLen |-> Len(c.data), last |-> c.last]

\* The data of the whole chunks is moved up behind the bodyLen tokens that were
\* put together before, and what is not parsed yet behind it.
HandleChunked(s, bodyLen) ==
  LET c == Chunks(s)[bodyLen]
  IN  [buf |-> SubSeq(s, 1, bodyLen) \o c.data \o SubSeq(s, c.next + 1, Len(s)),
       bodyLen |-> bodyLen + Len(c.data), last |-> c.last]
=============================================================================
