------------------------------- MODULE Base64 -------------------------------
(***************************************************************************)
(* encode.c and decode.c: the codec by which binaries and vectors enter a  *)
(* dataset.  A text is decoded that either comes from the encoder or from  *)
(* elsewhere.                                                              *)
(*                                                                         *)
(* A character of b64_table is its index in the table; Pad stands for '='  *)
(* and Other for anything else.                                            *)
(***************************************************************************)
EXTENDS Integers, Sequences

CONSTANTS
  Inputs,   \* what the encoder is called with
  Texts     \* texts from elsewhere the decoder is called with

Bytes == 0..255
Index == 0..63
Pad == 64
Other == 65
Chars == Index \cup {Pad, Other}

ASSUME Base64Assumption ==
  /\ Inputs \subseteq Seq(Bytes)
  /\ Texts \subseteq Seq(Chars)

VARIABLES
  pc,     \* "start", "encode", "decode", "done", "null" (NULL is returned)
  src,    \* the bytes to encode
  n,      \* how many of them are read
  tmp,    \* tmp[0..i-1] of b64_encode
  enc,    \* the text
  j,      \* how many of its characters are read
  quad,   \* tmp[0..i-1] of b64_decode_ex
  dec,    \* the bytes decoded
  own,    \* the text comes from the encoder (history)
  g       \* groups encoded, then groups decoded (history)

vars == <<pc, src, n, tmp, enc, j, quad, dec, own, g>>

-----------------------------------------------------------------------------
(* One group: three bytes are four indexes.                                *)

\* Seeded fault: the bits of the second byte are shifted to the wrong place.
BadSextets(a, b, c) ==
  <<a \div 4, (a % 4) * 16 + (b % 16), (b % 16) * 4 + (c \div 64), c % 64>>

Sextets(a, b, c) ==
  <<a \div 4, (a % 4) * 16 + (b \div 16), (b % 16) * 4 + (c \div 64), c % 64>>

Octets(p, q, r, s) ==
  <<(p * 4 + ((q \div 16) % 4)) % 256,
    ((q % 16) * 16 + ((r \div 4) % 16)) % 256,
    ((r % 4) * 64 + s) % 256>>

\* Seeded fault: one '=' too few.
BadTail(t) ==
  IF Len(t) = 0 THEN <<>>
  ELSE IF Len(t) = 1
    THEN LET x == Sextets(t[1], 0, 0) IN <<x[1], x[2], Pad>>
    ELSE LET x == Sextets(t[1], t[2], 0) IN <<x[1], x[2], x[3]>>

\* What remains after the last whole group, filled up with zeros, and '='.
Tail64(t) ==
  IF Len(t) = 0 THEN <<>>
  ELSE IF Len(t) = 1
    THEN LET x == Sextets(t[1], 0, 0) IN <<x[1], x[2], Pad, Pad>>
    ELSE LET x == Sextets(t[1], t[2], 0) IN <<x[1], x[2], x[3], Pad>>

\* Seeded fault: the remainder of i characters is taken for i bytes.
BadTail8(q) ==
  IF Len(q) = 0 THEN <<>>
  ELSE IF Len(q) = 1 THEN <<Octets(q[1], 0, 0, 0)[1]>>
  ELSE IF Len(q) = 2
    THEN LET x == Octets(q[1], q[2], 0, 0) IN <<x[1], x[2]>>
    ELSE Octets(q[1], q[2], q[3], 0)

\* i characters that remain are i - 1 bytes.
Tail8(q) ==
  IF Len(q) <= 1 THEN <<>>
  ELSE IF Len(q) = 2
    THEN <<Octets(q[1], q[2], 0, 0)[1]>>
    ELSE LET x == Octets(q[1], q[2], q[3], 0) IN <<x[1], x[2]>>

-----------------------------------------------------------------------------
Init ==
  /\ pc = "start"
  /\ src = <<>> /\ n = 0 /\ tmp = <<>> /\ enc = <<>>
  /\ j = 0 /\ quad = <<>> /\ dec = <<>>
  /\ own = FALSE /\ g = 0

\* b64_encode, its result given to b64_decode.
CallEncode ==
  /\ pc = "start" /\ pc' = "encode"
  /\ src' \in Inputs /\ own' = TRUE
  /\ UNCHANGED <<n, tmp, enc, j, quad, dec, g>>

CallDecode ==
  /\ pc = "start" /\ pc' = "decode"
  /\ enc' \in Texts
  /\ UNCHANGED <<src, n, tmp, j, quad, dec, own, g>>

\* One byte; with the third a group is complete.
EncodeByte ==
  /\ pc = "encode" /\ n < Len(src)
  /\ n' = n + 1
  /\ IF Len(tmp) = 2
       THEN /\ enc' = enc \o Sextets(tmp[1], tmp[2], src[n + 1])
            /\ tmp' = <<>> /\ g' = g + 1
       ELSE tmp' = Append(tmp, src[n + 1]) /\ UNCHANGED <<enc, g>>
  /\ UNCHANGED <<pc, src, j, quad, dec, own>>

EncodeEnd ==
  /\ pc = "encode" /\ n = Len(src)
  /\ enc' = enc \o Tail64(tmp)
  /\ pc' = "decode" /\ g' = 0
  /\ UNCHANGED <<src, n, tmp, j, quad, dec, own>>

\* One character; with the fourth a group is complete.
DecodeChar ==
  /\ pc = "decode" /\ j < Len(enc) /\ enc[j + 1] \in Index
  /\ j' = j + 1
  /\ IF Len(quad) = 3
       THEN /\ dec' = dec \o Octets(quad[1], quad[2], quad[3], enc[j + 1])
            /\ quad' = <<>> /\ g' = g + 1
       ELSE quad' = Append(quad, enc[j + 1]) /\ UNCHANGED <<dec, g>>
  /\ UNCHANGED <<pc, src, n, tmp, enc, own>>

\* One character and no whole group: b64_realloc(dec, 0) frees the block and
\* returns NULL (glibc), which is taken for a failure.
NoBlock == dec = <<>> /\ Len(quad) = 1

\* The text ends, or a character is not in the table.  Without a block the decoder
\* returns NULL and leaves *decsize as it was.
DecodeEnd ==
  /\ pc = "decode" /\ (j < Len(enc) => enc[j + 1] \notin Index)
  /\ dec' = dec \o Tail8(quad)
  /\ pc' = IF NoBlock THEN "null" ELSE "done"
  /\ UNCHANGED <<src, n, tmp, enc, j, quad, own, g>>

Ended == pc \in {"done", "null"}

Terminated == Ended /\ UNCHANGED vars

Next ==
  \/ CallEncode \/ CallDecode
  \/ EncodeByte \/ EncodeEnd \/ DecodeChar \/ DecodeEnd \/ Terminated

Spec == Init /\ [][Next]_vars

-----------------------------------------------------------------------------
(* Properties.                                                             *)

TypeOK ==
  /\ pc \in {"start", "encode", "decode", "done", "null"}
  /\ src \in Seq(Bytes) /\ n \in Nat
  /\ tmp \in Seq(Bytes) /\ Len(tmp) <= 2
  /\ enc \in Seq(Chars) /\ j \in Nat
  /\ quad \in Seq(Index) /\ Len(quad) <= 3
  /\ dec \in Seq(Bytes)
  /\ own \in BOOLEAN /\ g \in Nat

\* What the encoder has written, the decoder gives back, byte for byte and
\* with the same length, however the last group is filled up.
RoundTrip == Ended /\ own => pc = "done" /\ dec = src

\* The text of n bytes has 4 characters for every 3 bytes begun: the length
\* that CrestDataset takes for the base64 text of an attribute.
EncodedLength ==
  (pc = "decode" \/ Ended) /\ own => Len(enc) = 4 * ((Len(src) + 2) \div 3)

\* A text from anywhere is read up to its first character that is not in the
\* table, and decoded to as many bytes as its characters have whole octets; only
\* if it is a single character there is no result at all, not an empty one.
DecodedLength ==
  Ended =>
    /\ \A k \in 1..j : enc[k] \in Index
    /\ j = Len(enc) \/ enc[j + 1] \notin Index
    /\ IF j = 1 THEN pc = "null" ELSE pc = "done" /\ Len(dec) = (6 * j) \div 8

-----------------------------------------------------------------------------
(* The inductive invariant behind them.                                    *)

\* The four characters of group k of the text stand for three bytes of src.
Group(k) ==
  /\ 3 * k + 3 <= Len(src)
  /\ LET x == Sextets(src[3 * k + 1], src[3 * k + 2], src[3 * k + 3])
     IN  /\ enc[4 * k + 1] = x[1] /\ enc[4 * k + 2] = x[2]
         /\ enc[4 * k + 3] = x[3] /\ enc[4 * k + 4] = x[4]

\* While it is encoding: g groups and a remainder shorter than one.
EncodeInv ==
  pc = "encode" =>
    /\ own /\ n <= Len(src) /\ n = 3 * g + Len(tmp)
    /\ \A k \in 1..Len(tmp) : tmp[k] = src[3 * g + k]
    /\ Len(enc) = 4 * g /\ \A k \in 0..(g - 1) : Group(k)
    /\ j = 0 /\ quad = <<>> /\ dec = <<>>

\* The whole text: m groups, and the rest of the bytes with its padding.
Encoded(m) ==
  /\ \A k \in 0..(m - 1) : Group(k)
  /\ \/ Len(src) = 3 * m /\ Len(enc) = 4 * m
     \/ /\ Len(src) = 3 * m + 1 /\ Len(enc) = 4 * m + 4
        /\ LET x == Sextets(src[3 * m + 1], 0, 0)
           IN  enc[4 * m + 1] = x[1] /\ enc[4 * m + 2] = x[2] /\ enc[4 * m + 3] = Pad
     \/ /\ Len(src) = 3 * m + 2 /\ Len(enc) = 4 * m + 4
        /\ LET x == Sextets(src[3 * m + 1], src[3 * m + 2], 0)
           IN  /\ enc[4 * m + 1] = x[1] /\ enc[4 * m + 2] = x[2]
               /\ enc[4 * m + 3] = x[3] /\ enc[4 * m + 4] = Pad

\* While it is decoding: g groups of characters are g groups of bytes.
DecodeInv ==
  pc = "decode" =>
    /\ j <= Len(enc) /\ j = 4 * g + Len(quad) /\ Len(dec) = 3 * g
    /\ \A k \in 1..Len(quad) : quad[k] = enc[4 * g + k]
    /\ \A k \in 1..j : enc[k] \in Index
    /\ own => 3 * g <= Len(src) /\ \A k \in 1..(3 * g) : dec[k] = src[k]

TextInv == (pc = "decode" \/ Ended) /\ own => \E m \in 0..Len(src) : Encoded(m)

StartInv ==
  pc = "start" => /\ n = 0 /\ tmp = <<>> /\ enc = <<>> /\ g = 0
                  /\ j = 0 /\ quad = <<>> /\ dec = <<>> /\ ~own

Base64Inv ==
  /\ TypeOK /\ StartInv /\ EncodeInv /\ TextInv /\ DecodeInv
  /\ RoundTrip /\ DecodedLength
=============================================================================
