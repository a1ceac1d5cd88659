--------------------------- MODULE Base64_proofs ---------------------------
(***************************************************************************)
(* Proofs about Base64: the round trip of every input of any length, and   *)
(* the lengths of what is encoded and decoded.                             *)
(***************************************************************************)
EXTENDS Base64, SequenceTheorems, TLAPS

-----------------------------------------------------------------------------
(* One group.                                                              *)

LEMMA SextetTypes ==
  ASSUME NEW a \in Bytes, NEW b \in Bytes, NEW c \in Bytes
  PROVE  /\ Sextets(a, b, c)[1] \in Index /\ Sextets(a, b, c)[2] \in Index
         /\ Sextets(a, b, c)[3] \in Index /\ Sextets(a, b, c)[4] \in Index
BY DEF Sextets, Bytes, Index

LEMMA OctetTypes ==
  ASSUME NEW p \in Index, NEW q \in Index, NEW r \in Index, NEW s \in Index
  PROVE  /\ Octets(p, q, r, s)[1] \in Bytes /\ Octets(p, q, r, s)[2] \in Bytes
         /\ Octets(p, q, r, s)[3] \in Bytes
BY DEF Octets, Bytes, Index

\* The octets of the sextets of three bytes are the bytes.
LEMMA GroupRoundTrip ==
  ASSUME NEW a \in Bytes, NEW b \in Bytes, NEW c \in Bytes
  PROVE  LET x == Sextets(a, b, c)
             y == Octets(x[1], x[2], x[3], x[4])
         IN  y[1] = a /\ y[2] = b /\ y[3] = c
BY DEF Sextets, Octets, Bytes

\* The zeros that fill up a remainder do not touch its bytes.
LEMMA TailRoundTrip ==
  ASSUME NEW a \in Bytes, NEW b \in Bytes
  PROVE  /\ LET x == Sextets(a, 0, 0) IN Octets(x[1], x[2], 0, 0)[1] = a
         /\ LET x == Sextets(a, b, 0)
            IN  /\ Octets(x[1], x[2], x[3], 0)[1] = a
                /\ Octets(x[1], x[2], x[3], 0)[2] = b
BY DEF Sextets, Octets, Bytes

-----------------------------------------------------------------------------
(* Sequences.                                                              *)

LEMMA Extend ==
  ASSUME NEW S, NEW s \in Seq(S), NEW t \in Seq(S)
  PROVE  /\ s \o t \in Seq(S)
         /\ Len(s \o t) = Len(s) + Len(t)
         /\ \A i \in 1..Len(s) : (s \o t)[i] = s[i]
         /\ \A i \in 1..Len(t) : (s \o t)[Len(s) + i] = t[i]
<1>1. Len(s) \in Nat /\ Len(t) \in Nat
  BY LenProperties
<1>2. /\ s \o t \in Seq(S) /\ Len(s \o t) = Len(s) + Len(t)
      /\ \A i \in 1..(Len(s) + Len(t)) :
           (s \o t)[i] = IF i <= Len(s) THEN s[i] ELSE t[i - Len(s)]
  BY ConcatProperties
<1>3. ASSUME NEW i \in 1..Len(t) PROVE (s \o t)[Len(s) + i] = t[i]
  BY ONLY <1>1, <1>2, <1>3
<1>4. ASSUME NEW i \in 1..Len(s) PROVE (s \o t)[i] = s[i]
  BY ONLY <1>1, <1>2, <1>4
<1>. QED BY <1>2, <1>3, <1>4

LEMMA ExtendByThree ==
  ASSUME NEW S, NEW s \in Seq(S), NEW x \in Seq(S), Len(x) = 3
  PROVE  /\ s \o x \in Seq(S) /\ Len(s \o x) = Len(s) + 3
         /\ \A i \in 1..Len(s) : (s \o x)[i] = s[i]
         /\ (s \o x)[Len(s) + 1] = x[1] /\ (s \o x)[Len(s) + 2] = x[2]
         /\ (s \o x)[Len(s) + 3] = x[3]
<1>1. 1 \in 1..3 /\ 2 \in 1..3 /\ 3 \in 1..3
  OBVIOUS
<1>2. /\ s \o x \in Seq(S) /\ Len(s \o x) = Len(s) + Len(x)
      /\ \A i \in 1..Len(s) : (s \o x)[i] = s[i]
      /\ \A i \in 1..Len(x) : (s \o x)[Len(s) + i] = x[i]
  BY ONLY s \in Seq(S), x \in Seq(S), Extend
<1>. QED BY <1>1, <1>2

LEMMA ExtendByFour ==
  ASSUME NEW S, NEW s \in Seq(S), NEW x \in Seq(S), Len(x) = 4
  PROVE  /\ s \o x \in Seq(S) /\ Len(s \o x) = Len(s) + 4
         /\ \A i \in 1..Len(s) : (s \o x)[i] = s[i]
         /\ (s \o x)[Len(s) + 1] = x[1] /\ (s \o x)[Len(s) + 2] = x[2]
         /\ (s \o x)[Len(s) + 3] = x[3] /\ (s \o x)[Len(s) + 4] = x[4]
<1>1. \A t \in Seq(S) :
        /\ s \o t \in Seq(S) /\ Len(s \o t) = Len(s) + Len(t)
        /\ \A i \in 1..Len(s) : (s \o t)[i] = s[i]
        /\ \A i \in 1..Len(t) : (s \o t)[Len(s) + i] = t[i]
  BY ONLY Extend, s \in Seq(S)
<1>2. /\ s \o x \in Seq(S) /\ Len(s \o x) = Len(s) + Len(x)
      /\ \A i \in 1..Len(s) : (s \o x)[i] = s[i]
      /\ \A i \in 1..Len(x) : (s \o x)[Len(s) + i] = x[i]
  BY ONLY <1>1, x \in Seq(S), Zenon
<1>5. 1 \in 1..4 /\ 2 \in 1..4 /\ 3 \in 1..4 /\ 4 \in 1..4
  OBVIOUS
<1>. QED BY <1>2, <1>5

LEMMA FourSeq ==
  ASSUME NEW S, NEW p \in S, NEW q \in S, NEW r \in S, NEW s \in S
  PROVE  <<p, q, r, s>> \in Seq(S) /\ Len(<<p, q, r, s>>) = 4
OBVIOUS

LEMMA SextetsSeq ==
  ASSUME NEW a \in Bytes, NEW b \in Bytes, NEW c \in Bytes
  PROVE  Sextets(a, b, c) \in Seq(Chars) /\ Len(Sextets(a, b, c)) = 4
<1>1. /\ a \div 4 \in Chars /\ (a % 4) * 16 + (b \div 16) \in Chars
      /\ (b % 16) * 4 + (c \div 64) \in Chars /\ c % 64 \in Chars
  BY DEF Bytes, Chars, Index
<1>. QED BY <1>1, FourSeq DEF Sextets

LEMMA UpToThree ==
  ASSUME NEW m \in Nat, m <= 3 PROVE m = 0 \/ m = 1 \/ m = 2 \/ m = 3
OBVIOUS

LEMMA UpToTwo == ASSUME NEW m \in Nat, m <= 2 PROVE m \in 0..2
OBVIOUS

\* Groups stay what they are when the text is extended.
LEMMA GroupStays ==
  ASSUME NEW k \in Nat, Group(k), src' = src, 4 * k + 4 <= Len(enc),
         Len(enc) \in Nat, \A i \in 1..Len(enc) : enc'[i] = enc[i]
  PROVE  Group(k)'
<1>1. /\ 4 * k + 1 \in 1..Len(enc) /\ 4 * k + 2 \in 1..Len(enc)
      /\ 4 * k + 3 \in 1..Len(enc) /\ 4 * k + 4 \in 1..Len(enc)
  OBVIOUS
<1>. QED BY <1>1 DEF Group

-----------------------------------------------------------------------------
(* The encoder.                                                            *)

LEMMA EncodeByteKeepsInv ==
  ASSUME Base64Inv, EncodeByte
  PROVE  Base64Inv'
<1>1. /\ TypeOK /\ EncodeInv /\ pc = "encode" /\ pc' = "encode" /\ n < Len(src)
      /\ n' = n + 1 /\ UNCHANGED <<src, j, quad, dec, own>>
  BY DEF Base64Inv, EncodeByte
<1>2. /\ Len(src) \in Nat /\ n \in Nat /\ g \in Nat
      /\ Len(tmp) \in 0..2 /\ Len(enc) \in Nat /\ src[n + 1] \in Bytes
  <2>1. /\ src \in Seq(Bytes) /\ tmp \in Seq(Bytes) /\ enc \in Seq(Chars)
        /\ n \in Nat /\ g \in Nat /\ Len(tmp) <= 2
    BY <1>1 DEF TypeOK
  <2>2. Len(src) \in Nat /\ Len(tmp) \in Nat /\ Len(enc) \in Nat
    BY <2>1, LenProperties
  <2>3. n + 1 \in 1..Len(src)
    BY <1>1, <2>1, <2>2
  <2>4. src[n + 1] \in Bytes
    BY ONLY <2>1, <2>3, ElementOfSeq
  <2>5. Len(tmp) \in 0..2
    BY <2>1, <2>2, UpToTwo
  <2>. QED BY <2>1, <2>2, <2>4, <2>5
<1>3. /\ own /\ n = 3 * g + Len(tmp) /\ Len(enc) = 4 * g
      /\ \A k \in 1..Len(tmp) : tmp[k] = src[3 * g + k]
      /\ \A k \in 0..(g - 1) : Group(k)
      /\ j = 0 /\ quad = <<>> /\ dec = <<>>
  BY <1>1 DEF EncodeInv
<1>4. TypeOK' /\ EncodeInv'
  <2>1. CASE Len(tmp) = 2
    <3> DEFINE x == Sextets(tmp[1], tmp[2], src[n + 1])
    <3>1. enc' = enc \o x /\ tmp' = <<>> /\ g' = g + 1
      BY <2>1 DEF EncodeByte
    <3>2. /\ tmp[1] \in Bytes /\ tmp[2] \in Bytes
          /\ tmp[1] = src[3 * g + 1] /\ tmp[2] = src[3 * g + 2] /\ n + 1 = 3 * g + 3
      <4>1. tmp \in Seq(Bytes) /\ 1 \in 1..Len(tmp) /\ 2 \in 1..Len(tmp)
        BY <1>1, <2>1 DEF TypeOK
      <4>2. tmp[1] \in Bytes /\ tmp[2] \in Bytes
        BY ONLY <4>1, ElementOfSeq
      <4>3. tmp[1] = src[3 * g + 1] /\ tmp[2] = src[3 * g + 2]
        BY <1>3, <4>1
      <4>. QED BY <1>2, <1>3, <2>1, <4>2, <4>3
    <3>3. x \in Seq(Chars) /\ Len(x) = 4
      BY <1>2, <3>2, SextetsSeq
    <3>4. enc \in Seq(Chars)
      BY <1>1 DEF TypeOK
    <3>. HIDE DEF x
    <3>5. /\ enc' \in Seq(Chars) /\ Len(enc') = Len(enc) + 4
          /\ \A i \in 1..Len(enc) : enc'[i] = enc[i]
          /\ enc'[Len(enc) + 1] = x[1] /\ enc'[Len(enc) + 2] = x[2]
          /\ enc'[Len(enc) + 3] = x[3] /\ enc'[Len(enc) + 4] = x[4]
      <4>1. /\ enc \o x \in Seq(Chars) /\ Len(enc \o x) = Len(enc) + 4
            /\ \A i \in 1..Len(enc) : (enc \o x)[i] = enc[i]
            /\ (enc \o x)[Len(enc) + 1] = x[1] /\ (enc \o x)[Len(enc) + 2] = x[2]
            /\ (enc \o x)[Len(enc) + 3] = x[3] /\ (enc \o x)[Len(enc) + 4] = x[4]
        BY <3>3, <3>4, ExtendByFour
      <4>. QED BY ONLY <3>1, <4>1
    <3>6. ASSUME NEW k \in 0..g PROVE Group(k)'
      <4>1. CASE k = g
        <5>1. x = Sextets(src[3 * k + 1], src[3 * k + 2], src[3 * k + 3])
          BY <1>3, <3>2, <4>1 DEF x
        <5>2. 3 * k + 3 <= Len(src)
          BY <1>1, <1>2, <3>2, <4>1
        <5>. QED BY <1>1, <1>3, <3>5, <4>1, <5>1, <5>2 DEF Group
      <4>2. CASE k # g
        <5>1. k \in 0..(g - 1) /\ k \in Nat /\ 4 * k + 4 <= Len(enc)
          BY <1>2, <1>3, <4>2
        <5>. QED BY <1>1, <1>2, <1>3, <3>5, <5>1, GroupStays
      <4>. QED BY <4>1, <4>2
    <3>7. TypeOK'
      BY <1>1, <1>2, <3>1, <3>5, EmptySeq DEF TypeOK
    <3>8. EncodeInv'
      <4>1. /\ n' <= Len(src') /\ n' = 3 * g' + Len(tmp') /\ Len(enc') = 4 * g'
            /\ Len(tmp') = 0 /\ own' /\ j' = 0 /\ quad' = <<>> /\ dec' = <<>>
        BY <1>1, <1>2, <1>3, <3>1, <3>2, <3>5
      <4>2. \A k \in 0..(g' - 1) : Group(k)'
        BY <1>2, <3>1, <3>6
      <4>. QED BY <4>1, <4>2 DEF EncodeInv
    <3>. QED BY <3>7, <3>8
  <2>2. CASE Len(tmp) # 2
    <3>1. tmp' = Append(tmp, src[n + 1]) /\ UNCHANGED <<enc, g>>
      BY <2>2 DEF EncodeByte
    <3>2. /\ tmp' \in Seq(Bytes) /\ Len(tmp') = Len(tmp) + 1
          /\ \A k \in 1..Len(tmp) : tmp'[k] = tmp[k]
          /\ tmp'[Len(tmp) + 1] = src[n + 1]
      BY <1>1, <1>2, <3>1, AppendProperties DEF TypeOK
    <3>3. \A k \in 1..Len(tmp') : tmp'[k] = src[3 * g + k]
      <4>1. ASSUME NEW k \in 1..Len(tmp') PROVE tmp'[k] = src[3 * g + k]
        <5>1. CASE k \in 1..Len(tmp)
          BY <1>3, <3>2, <5>1
        <5>2. CASE k = Len(tmp) + 1
          BY <1>2, <1>3, <3>2, <5>2
        <5>. QED BY <1>2, <3>2, <5>1, <5>2
      <4>. QED BY <4>1
    <3>4. ASSUME NEW k \in 0..(g - 1) PROVE Group(k)'
      BY <1>1, <1>3, <3>1 DEF Group
    <3>5. TypeOK'
      <4>1. Len(tmp') <= 2 /\ n' \in Nat
        BY ONLY <1>1, <1>2, <2>2, <3>2
      <4>. QED BY <1>1, <3>1, <3>2, <4>1 DEF TypeOK
    <3>6. EncodeInv'
      <4>1. n' <= Len(src) /\ n' = 3 * g + Len(tmp')
        BY ONLY <1>1, <1>2, <1>3, <3>2
      <4>2. Len(enc') = 4 * g' /\ \A k \in 0..(g' - 1) : Group(k)'
        BY <1>3, <3>1, <3>4
      <4>. QED BY <1>1, <1>3, <3>1, <3>3, <4>1, <4>2 DEF EncodeInv
    <3>. QED BY <3>5, <3>6
  <2>. QED BY <2>1, <2>2
<1>. QED BY <1>1, <1>4 DEF Base64Inv, StartInv, TextInv, DecodeInv, RoundTrip, DecodedLength, Ended

\* What the tail adds to the whole groups.
LEMMA TailSeq ==
  ASSUME NEW t \in Seq(Bytes), Len(t) <= 2
  PROVE  /\ Len(t) = 0 => Tail64(t) = <<>>
         /\ Len(t) # 0 => Tail64(t) \in Seq(Chars) /\ Len(Tail64(t)) = 4
         /\ Len(t) = 1 =>
              LET x == Sextets(t[1], 0, 0)
              IN  Tail64(t)[1] = x[1] /\ Tail64(t)[2] = x[2] /\ Tail64(t)[3] = Pad
         /\ Len(t) = 2 =>
              LET x == Sextets(t[1], t[2], 0)
              IN  /\ Tail64(t)[1] = x[1] /\ Tail64(t)[2] = x[2]
                  /\ Tail64(t)[3] = x[3] /\ Tail64(t)[4] = Pad
<1>1. Len(t) \in 0..2 /\ 0 \in Bytes /\ Pad \in Chars /\ Index \subseteq Chars
  <2>1. Len(t) \in Nat
    BY LenProperties
  <2>2. 0 \in Bytes /\ Pad \in Chars /\ Index \subseteq Chars
    BY DEF Bytes, Pad, Chars
  <2>. QED BY <2>1, <2>2, UpToTwo
<1>2. CASE Len(t) = 0
  BY <1>2 DEF Tail64
<1>3. CASE Len(t) = 1
  <2>1. t[1] \in Bytes
    <3>1. 1 \in 1..Len(t)
      BY <1>3
    <3>. QED BY <3>1, ElementOfSeq
  <2> DEFINE x == Sextets(t[1], 0, 0)
  <2>2. x[1] \in Chars /\ x[2] \in Chars
    BY <1>1, <2>1, SextetTypes
  <2>3. Tail64(t) = <<x[1], x[2], Pad, Pad>>
    BY <1>3 DEF Tail64
  <2>. HIDE DEF x
  <2>4. Tail64(t) \in Seq(Chars) /\ Len(Tail64(t)) = 4
    BY <1>1, <2>2, <2>3, FourSeq
  <2>5. Tail64(t)[1] = x[1] /\ Tail64(t)[2] = x[2] /\ Tail64(t)[3] = Pad
    BY <2>3
  <2>. QED BY <1>3, <2>4, <2>5 DEF x
<1>4. CASE Len(t) = 2
  <2>1. t[1] \in Bytes /\ t[2] \in Bytes
    BY <1>4, ElementOfSeq
  <2> DEFINE x == Sextets(t[1], t[2], 0)
  <2>2. x[1] \in Chars /\ x[2] \in Chars /\ x[3] \in Chars
    BY <1>1, <2>1, SextetTypes
  <2>3. Tail64(t) = <<x[1], x[2], x[3], Pad>>
    BY <1>4 DEF Tail64
  <2>. HIDE DEF x
  <2>4. Tail64(t) \in Seq(Chars) /\ Len(Tail64(t)) = 4
    BY <1>1, <2>2, <2>3, FourSeq
  <2>5. /\ Tail64(t)[1] = x[1] /\ Tail64(t)[2] = x[2]
        /\ Tail64(t)[3] = x[3] /\ Tail64(t)[4] = Pad
    BY <2>3
  <2>. QED BY <1>4, <2>4, <2>5 DEF x
<1>. QED BY <1>1, <1>2, <1>3, <1>4

LEMMA EncodeEndKeepsInv ==
  ASSUME Base64Inv, EncodeEnd
  PROVE  Base64Inv'
<1>1. /\ TypeOK /\ EncodeInv /\ pc = "encode" /\ pc' = "decode" /\ n = Len(src)
      /\ enc' = enc \o Tail64(tmp) /\ g' = 0 /\ UNCHANGED <<src, n, tmp, j, quad, dec, own>>
  BY DEF Base64Inv, EncodeEnd
<1>2. /\ Len(src) \in Nat /\ g \in Nat /\ Len(tmp) \in 0..2 /\ Len(enc) \in Nat
      /\ tmp \in Seq(Bytes) /\ enc \in Seq(Chars)
  BY <1>1, LenProperties, UpToTwo DEF TypeOK
<1>3. /\ own /\ n = 3 * g + Len(tmp) /\ Len(enc) = 4 * g
      /\ \A k \in 1..Len(tmp) : tmp[k] = src[3 * g + k]
      /\ \A k \in 0..(g - 1) : Group(k)
      /\ j = 0 /\ quad = <<>> /\ dec = <<>>
  BY <1>1 DEF EncodeInv
<1>10. /\ Len(tmp) = 0 => Tail64(tmp) = <<>>
       /\ Len(tmp) # 0 => Tail64(tmp) \in Seq(Chars) /\ Len(Tail64(tmp)) = 4
       /\ Len(tmp) = 1 =>
            LET x == Sextets(tmp[1], 0, 0)
            IN  Tail64(tmp)[1] = x[1] /\ Tail64(tmp)[2] = x[2] /\ Tail64(tmp)[3] = Pad
       /\ Len(tmp) = 2 =>
            LET x == Sextets(tmp[1], tmp[2], 0)
            IN  /\ Tail64(tmp)[1] = x[1] /\ Tail64(tmp)[2] = x[2]
                /\ Tail64(tmp)[3] = x[3] /\ Tail64(tmp)[4] = Pad
  <2>1. tmp \in Seq(Bytes) /\ Len(tmp) <= 2
    BY <1>1 DEF TypeOK
  <2>. QED BY ONLY <2>1, TailSeq
<1>4. /\ enc' \in Seq(Chars)
      /\ Len(tmp) = 0 => enc' = enc
      /\ Len(tmp) # 0 =>
           /\ Len(enc') = Len(enc) + 4
           /\ enc'[4 * g + 1] = Tail64(tmp)[1] /\ enc'[4 * g + 2] = Tail64(tmp)[2]
           /\ enc'[4 * g + 3] = Tail64(tmp)[3] /\ enc'[4 * g + 4] = Tail64(tmp)[4]
      /\ \A i \in 1..Len(enc) : enc'[i] = enc[i]
  <2>1. CASE Len(tmp) = 0
    <3>1. enc' = enc
      BY <1>1, <1>2, <1>10, <2>1, ConcatEmptySeq
    <3>. QED BY <1>2, <2>1, <3>1
  <2>2. CASE Len(tmp) # 0
    <3>1. Tail64(tmp) \in Seq(Chars) /\ Len(Tail64(tmp)) = 4
      BY <1>10, <2>2
    <3> DEFINE x == Tail64(tmp)
    <3>2. enc \in Seq(Chars) /\ x \in Seq(Chars) /\ Len(x) = 4
      BY <1>2, <3>1
    <3>3. enc' = enc \o x
      BY <1>1
    <3>. HIDE DEF x
    <3>4. /\ enc' \in Seq(Chars) /\ Len(enc') = Len(enc) + 4
          /\ \A i \in 1..Len(enc) : enc'[i] = enc[i]
          /\ enc'[Len(enc) + 1] = x[1] /\ enc'[Len(enc) + 2] = x[2]
          /\ enc'[Len(enc) + 3] = x[3] /\ enc'[Len(enc) + 4] = x[4]
      BY ONLY <3>2, <3>3, ExtendByFour
    <3>. QED BY <1>3, <2>2, <3>4 DEF x
  <2>. QED BY <2>1, <2>2
<1>5. ASSUME NEW k \in 0..(g - 1) PROVE Group(k)'
  <2>1. k \in Nat /\ 4 * k + 4 <= Len(enc)
    BY <1>2, <1>3
  <2>. QED BY <1>1, <1>2, <1>3, <1>4, <2>1, GroupStays
<1>6. \E m \in 0..Len(src) : Encoded(m)'
  <2>1. g \in 0..Len(src)
    BY <1>1, <1>2, <1>3
  <2>2. PICK m \in 0..Len(src) : m = g
    BY <2>1
  <2>3. \A k \in 0..(m - 1) : Group(k)'
    BY <1>5, <2>2
  <2>4. CASE Len(tmp) = 0
    BY <1>1, <1>2, <1>3, <1>4, <2>2, <2>3, <2>4 DEF Encoded
  <2>5. CASE Len(tmp) = 1
    <3>1. tmp[1] = src[3 * m + 1] /\ Len(src) = 3 * m + 1 /\ Len(enc') = 4 * m + 4
      BY <1>1, <1>2, <1>3, <1>4, <2>2, <2>5
    <3>2. LET x == Sextets(src[3 * m + 1], 0, 0)
          IN  enc'[4 * m + 1] = x[1] /\ enc'[4 * m + 2] = x[2] /\ enc'[4 * m + 3] = Pad
      BY <1>4, <1>10, <2>2, <2>5, <3>1
    <3>. QED BY <1>1, <2>3, <3>1, <3>2 DEF Encoded
  <2>6. CASE Len(tmp) = 2
    <3>1. /\ tmp[1] = src[3 * m + 1] /\ tmp[2] = src[3 * m + 2]
          /\ Len(src) = 3 * m + 2 /\ Len(enc') = 4 * m + 4
      BY <1>1, <1>2, <1>3, <1>4, <2>2, <2>6
    <3>2. LET x == Sextets(src[3 * m + 1], src[3 * m + 2], 0)
          IN  /\ enc'[4 * m + 1] = x[1] /\ enc'[4 * m + 2] = x[2]
              /\ enc'[4 * m + 3] = x[3] /\ enc'[4 * m + 4] = Pad
      BY <1>4, <1>10, <2>2, <2>6, <3>1
    <3>. QED BY <1>1, <2>3, <3>1, <3>2 DEF Encoded
  <2>. QED BY <1>2, <2>4, <2>5, <2>6
<1>7. TypeOK'
  BY <1>1, <1>4 DEF TypeOK
<1>8. DecodeInv'
  <2>1. Len(quad) = 0 /\ Len(dec) = 0 /\ Len(enc') \in Nat
    BY <1>3, <1>4, EmptySeq, LenProperties
  <2>. QED BY <1>1, <1>2, <1>3, <2>1 DEF DecodeInv
<1>. QED BY <1>1, <1>6, <1>7, <1>8
         DEF Base64Inv, StartInv, EncodeInv, TextInv, RoundTrip, DecodedLength, Ended

-----------------------------------------------------------------------------
(* The decoder.                                                            *)

\* A whole group of characters in the encoder's text stands for three bytes:
\* the group with the padding does not qualify.
LEMMA WholeGroup ==
  ASSUME NEW m \in Nat, Encoded(m), src \in Seq(Bytes),
         NEW k \in Nat, 4 * k + 4 <= Len(enc), Len(enc) \in Nat,
         enc[4 * k + 3] \in Index, enc[4 * k + 4] \in Index
  PROVE  Group(k)
<1>1. Pad \notin Index
  BY DEF Pad, Index
<1>2. CASE k < m
  BY <1>2 DEF Encoded
<1>3. CASE ~(k < m)
  <2>1. Len(enc) = 4 * m \/ Len(enc) = 4 * m + 4
    BY DEF Encoded
  <2>2. k = m /\ Len(enc) = 4 * m + 4
    BY <1>3, <2>1
  <2>3. Len(enc) # 4 * m
    BY <2>2
  <2>4. enc[4 * m + 3] = Pad \/ enc[4 * m + 4] = Pad
    BY <2>3 DEF Encoded
  <2>. QED BY <1>1, <2>2, <2>4
<1>. QED BY <1>2, <1>3

LEMMA ThreeSeq ==
  ASSUME NEW S, NEW p \in S, NEW q \in S, NEW r \in S
  PROVE  <<p, q, r>> \in Seq(S) /\ Len(<<p, q, r>>) = 3
OBVIOUS

LEMMA OctetsSeq ==
  ASSUME NEW p \in Index, NEW q \in Index, NEW r \in Index, NEW s \in Index
  PROVE  Octets(p, q, r, s) \in Seq(Bytes) /\ Len(Octets(p, q, r, s)) = 3
<1>1. /\ (p * 4 + ((q \div 16) % 4)) % 256 \in Bytes
      /\ ((q % 16) * 16 + ((r \div 4) % 16)) % 256 \in Bytes
      /\ ((r % 4) * 64 + s) % 256 \in Bytes
  BY DEF Bytes, Index
<1>. QED BY <1>1, ThreeSeq DEF Octets

LEMMA DecodeCharKeepsInv ==
  ASSUME Base64Inv, DecodeChar
  PROVE  Base64Inv'
<1>1. /\ TypeOK /\ DecodeInv /\ TextInv /\ pc = "decode" /\ pc' = "decode"
      /\ j < Len(enc) /\ enc[j + 1] \in Index /\ j' = j + 1
      /\ UNCHANGED <<src, n, tmp, enc, own>>
  BY DEF Base64Inv, DecodeChar
<1>2. /\ src \in Seq(Bytes) /\ enc \in Seq(Chars) /\ dec \in Seq(Bytes) /\ quad \in Seq(Index)
      /\ j \in Nat /\ g \in Nat /\ own \in BOOLEAN /\ Len(quad) <= 3
  BY <1>1 DEF TypeOK
<1>3. Len(src) \in Nat /\ Len(enc) \in Nat /\ Len(dec) \in Nat /\ Len(quad) \in Nat
  BY <1>2, LenProperties
<1>4. /\ j = 4 * g + Len(quad) /\ Len(dec) = 3 * g
      /\ \A k \in 1..Len(quad) : quad[k] = enc[4 * g + k]
      /\ \A k \in 1..j : enc[k] \in Index
      /\ own => 3 * g <= Len(src) /\ \A k \in 1..(3 * g) : dec[k] = src[k]
  BY <1>1 DEF DecodeInv
<1>5. TextInv'
  <2>1. TextInv' <=> TextInv
    BY <1>1 DEF TextInv, Encoded, Group
  <2>. QED BY <1>1, <2>1
<1>6. \A k \in 1..(j + 1) : enc[k] \in Index
  <2>1. ASSUME NEW k \in 1..(j + 1) PROVE k \in 1..j \/ k = j + 1
    BY <1>2
  <2>. QED BY <1>1, <1>4, <2>1
<1>7. TypeOK' /\ DecodeInv'
  <2>1. CASE Len(quad) = 3
    <3> DEFINE y == Octets(quad[1], quad[2], quad[3], enc[j + 1])
    <3>1. dec' = dec \o y /\ quad' = <<>> /\ g' = g + 1
      BY <2>1 DEF DecodeChar
    <3>2. /\ quad[1] \in Index /\ quad[2] \in Index /\ quad[3] \in Index
          /\ quad[1] = enc[4 * g + 1] /\ quad[2] = enc[4 * g + 2] /\ quad[3] = enc[4 * g + 3]
          /\ j + 1 = 4 * g + 4
      <4>1. 1 \in 1..Len(quad) /\ 2 \in 1..Len(quad) /\ 3 \in 1..Len(quad)
        BY <2>1
      <4>2. quad[1] \in Index /\ quad[2] \in Index /\ quad[3] \in Index
        BY <1>2, <4>1, ElementOfSeq
      <4>. QED BY <1>2, <1>4, <2>1, <4>1, <4>2
    <3>3. y \in Seq(Bytes) /\ Len(y) = 3
      <4>1. enc[j + 1] \in Index
        BY <1>1
      <4>2. quad[1] \in Index /\ quad[2] \in Index /\ quad[3] \in Index
        BY <3>2
      <4>. QED BY ONLY <4>1, <4>2, OctetsSeq
    <3>4. own => /\ 3 * g + 3 <= Len(src)
                 /\ y[1] = src[3 * g + 1] /\ y[2] = src[3 * g + 2] /\ y[3] = src[3 * g + 3]
      <4>1. SUFFICES ASSUME own
                     PROVE  /\ 3 * g + 3 <= Len(src)
                            /\ y[1] = src[3 * g + 1] /\ y[2] = src[3 * g + 2]
                            /\ y[3] = src[3 * g + 3]
        OBVIOUS
      <4>2. PICK m \in 0..Len(src) : Encoded(m)
        BY <1>1, <4>1 DEF TextInv
      <4>3. Group(g)
        <5>1. /\ m \in Nat /\ 4 * g + 4 <= Len(enc)
              /\ enc[4 * g + 3] \in Index /\ enc[4 * g + 4] \in Index
          BY <1>1, <1>2, <1>3, <3>2, <4>2
        <5>. QED BY <1>2, <1>3, <4>2, <5>1, WholeGroup
      <4>4. 3 * g + 3 <= Len(src)
        BY <4>3 DEF Group
      <4>5. /\ src[3 * g + 1] \in Bytes /\ src[3 * g + 2] \in Bytes /\ src[3 * g + 3] \in Bytes
        <5>1. /\ 3 * g + 1 \in 1..Len(src) /\ 3 * g + 2 \in 1..Len(src)
              /\ 3 * g + 3 \in 1..Len(src)
          BY <1>2, <1>3, <4>4
        <5>. QED BY <1>2, <5>1, ElementOfSeq
      <4>6. LET x == Sextets(src[3 * g + 1], src[3 * g + 2], src[3 * g + 3])
            IN  y = Octets(x[1], x[2], x[3], x[4])
        BY <3>2, <4>3 DEF Group
      <4>. QED BY <4>4, <4>5, <4>6, GroupRoundTrip
    <3>. HIDE DEF y
    <3>5. /\ dec' \in Seq(Bytes) /\ Len(dec') = Len(dec) + 3
          /\ \A i \in 1..Len(dec) : dec'[i] = dec[i]
          /\ dec'[Len(dec) + 1] = y[1] /\ dec'[Len(dec) + 2] = y[2]
          /\ dec'[Len(dec) + 3] = y[3]
      BY <1>2, <3>1, <3>3, ExtendByThree
    <3>6. own => \A k \in 1..(3 * g + 3) : dec'[k] = src[k]
      <4>1. SUFFICES ASSUME own, NEW k \in 1..(3 * g + 3) PROVE dec'[k] = src[k]
        OBVIOUS
      <4>2. k \in 1..(3 * g) \/ k = 3 * g + 1 \/ k = 3 * g + 2 \/ k = 3 * g + 3
        BY <1>2
      <4>. QED BY <1>4, <3>4, <3>5, <4>1, <4>2
    <3>7. Len(quad') = 0 /\ quad' \in Seq(Index)
      BY <3>1, EmptySeq
    <3>8. TypeOK'
      BY <1>1, <1>2, <3>1, <3>5, <3>7 DEF TypeOK
    <3>9. /\ j' <= Len(enc) /\ j' = 4 * g' + Len(quad') /\ Len(dec') = 3 * g'
          /\ own => 3 * g' <= Len(src) /\ \A k \in 1..(3 * g') : dec'[k] = src[k]
      <4>1. 3 * g' = 3 * g + 3
        BY <1>2, <3>1
      <4>2. j' <= Len(enc) /\ j' = 4 * g' + Len(quad')
        BY <1>1, <1>2, <1>3, <3>1, <3>2, <3>7
      <4>3. Len(dec') = 3 * g'
        BY <1>3, <1>4, <3>5, <4>1
      <4>. QED BY <3>4, <3>6, <4>1, <4>2, <4>3
    <3>10. \A k \in 1..Len(quad') : quad'[k] = enc[4 * g' + k]
      BY <3>7
    <3>. QED BY <1>1, <1>6, <3>8, <3>9, <3>10 DEF DecodeInv
  <2>2. CASE Len(quad) # 3
    <3>1. quad' = Append(quad, enc[j + 1]) /\ UNCHANGED <<dec, g>>
      BY <2>2 DEF DecodeChar
    <3>2. /\ quad' \in Seq(Index) /\ Len(quad') = Len(quad) + 1
          /\ \A k \in 1..Len(quad) : quad'[k] = quad[k]
          /\ quad'[Len(quad) + 1] = enc[j + 1]
      BY <1>1, <1>2, <3>1, AppendProperties
    <3>3. ASSUME NEW k \in 1..Len(quad') PROVE quad'[k] = enc[4 * g + k]
      <4>1. CASE k \in 1..Len(quad)
        BY <1>4, <3>2, <4>1
      <4>2. CASE k = Len(quad) + 1
        BY <1>2, <1>3, <1>4, <3>2, <4>2
      <4>. QED BY <1>3, <3>2, <4>1, <4>2
    <3>4. Len(quad') <= 3 /\ j' <= Len(enc) /\ j' = 4 * g + Len(quad') /\ j' \in Nat
      <4>1. Len(quad) + 1 <= 3
        <5>1. Len(quad) = 0 \/ Len(quad) = 1 \/ Len(quad) = 2
          BY <1>2, <1>3, <2>2, UpToThree
        <5>. QED BY <5>1
      <4>2. j + 1 <= Len(enc) /\ j + 1 \in Nat
        BY <1>1, <1>2, <1>3
      <4>3. j + 1 = 4 * g + (Len(quad) + 1)
        BY <1>2, <1>3, <1>4
      <4>. QED BY ONLY <1>1, <3>2, <4>1, <4>2, <4>3
    <3>5. TypeOK'
      BY <1>1, <1>2, <3>1, <3>2, <3>4 DEF TypeOK
    <3>. QED BY <1>1, <1>4, <1>6, <3>1, <3>3, <3>4, <3>5 DEF DecodeInv
  <2>. QED BY <2>1, <2>2
<1>. QED BY <1>1, <1>5, <1>7 DEF Base64Inv, StartInv, EncodeInv, RoundTrip, DecodedLength, Ended

\* Where the decoder stops in a text of the encoder: after the last whole
\* group, or before its padding.
LEMMA WhereItStops ==
  ASSUME Base64Inv, pc = "decode", own, j < Len(enc) => enc[j + 1] \notin Index
  PROVE  \/ Len(quad) = 0 /\ Len(src) = 3 * g
         \/ /\ Len(quad) = 2 /\ Len(src) = 3 * g + 1
            /\ LET x == Sextets(src[3 * g + 1], 0, 0)
               IN  quad[1] = x[1] /\ quad[2] = x[2]
         \/ /\ Len(quad) = 3 /\ Len(src) = 3 * g + 2
            /\ LET x == Sextets(src[3 * g + 1], src[3 * g + 2], 0)
               IN  quad[1] = x[1] /\ quad[2] = x[2] /\ quad[3] = x[3]
<1>1. /\ src \in Seq(Bytes) /\ enc \in Seq(Chars) /\ quad \in Seq(Index)
      /\ j \in Nat /\ g \in Nat /\ Len(quad) <= 3
  BY DEF Base64Inv, TypeOK
<1>2. Len(src) \in Nat /\ Len(enc) \in Nat /\ Len(quad) \in Nat
  BY <1>1, LenProperties
<1>21. Len(quad) = 0 \/ Len(quad) = 1 \/ Len(quad) = 2 \/ Len(quad) = 3
  BY <1>1, <1>2, UpToThree
<1>3. /\ j <= Len(enc) /\ j = 4 * g + Len(quad)
      /\ \A k \in 1..Len(quad) : quad[k] = enc[4 * g + k]
      /\ \A k \in 1..j : enc[k] \in Index
  BY DEF Base64Inv, DecodeInv
<1>4. PICK m \in 0..Len(src) : Encoded(m)
  BY DEF Base64Inv, TextInv
<1>5. Pad \notin Index /\ 0 \in Bytes /\ m \in Nat
  BY <1>2, <1>4 DEF Pad, Index, Bytes
<1>6. Len(enc) = 4 * m \/ Len(enc) = 4 * m + 4
  BY <1>4 DEF Encoded
<1>7. ASSUME NEW i \in 1..Len(src) PROVE src[i] \in Bytes
  BY <1>1, <1>7, ElementOfSeq
\* No character of a whole group stops it.
<1>8. ASSUME g < m PROVE FALSE
  <2>1. Group(g)
    BY <1>1, <1>4, <1>8 DEF Encoded
  <2>2. /\ src[3 * g + 1] \in Bytes /\ src[3 * g + 2] \in Bytes /\ src[3 * g + 3] \in Bytes
    <3>1. 3 * g + 3 <= Len(src)
      BY <2>1 DEF Group
    <3>2. 3 * g + 1 \in 1..Len(src) /\ 3 * g + 2 \in 1..Len(src) /\ 3 * g + 3 \in 1..Len(src)
      BY <1>1, <1>2, <3>1
    <3>. QED BY <1>7, <3>2
  <2>3. /\ enc[4 * g + 1] \in Index /\ enc[4 * g + 2] \in Index
        /\ enc[4 * g + 3] \in Index /\ enc[4 * g + 4] \in Index
    BY <2>1, <2>2, SextetTypes DEF Group
  <2>4. j < Len(enc)
    BY <1>1, <1>2, <1>3, <1>5, <1>6, <1>8
  <2>5. j + 1 = 4 * g + 1 \/ j + 1 = 4 * g + 2 \/ j + 1 = 4 * g + 3 \/ j + 1 = 4 * g + 4
    <3>1. CASE Len(quad) = 0
      BY <1>1, <1>3, <3>1
    <3>2. CASE Len(quad) = 1
      BY <1>1, <1>3, <3>2
    <3>3. CASE Len(quad) = 2
      BY <1>1, <1>3, <3>3
    <3>4. CASE Len(quad) = 3
      BY <1>1, <1>3, <3>4
    <3>. QED BY <1>21, <3>1, <3>2, <3>3, <3>4
  <2>. QED BY <2>3, <2>4, <2>5
<1>9. g >= m
  BY <1>1, <1>5, <1>8
<1>10. CASE Len(src) = 3 * m /\ Len(enc) = 4 * m
  <2>1. g = m /\ Len(quad) = 0
    BY <1>1, <1>2, <1>3, <1>5, <1>9, <1>10
  <2>. QED BY <1>10, <2>1
<1>11. CASE Len(src) = 3 * m + 1 /\ Len(enc) = 4 * m + 4
  <2> DEFINE x == Sextets(src[3 * m + 1], 0, 0)
  <2>1. enc[4 * m + 1] = x[1] /\ enc[4 * m + 2] = x[2] /\ enc[4 * m + 3] = Pad
    <3>1. Len(src) # 3 * m /\ Len(src) # 3 * m + 2
      BY <1>5, <1>11
    <3>. QED BY <1>4, <3>1 DEF Encoded
  <2>2. x[1] \in Index /\ x[2] \in Index
    <3>1. 3 * m + 1 \in 1..Len(src)
      BY <1>5, <1>11
    <3>2. src[3 * m + 1] \in Bytes
      BY <1>7, <3>1
    <3>. QED BY <1>5, <3>2, SextetTypes
  <2>. HIDE DEF x
  <2>3. ~(j >= 4 * m + 3)
    BY <1>1, <1>3, <1>5, <2>1
  <2>4. g = m /\ Len(quad) <= 2
    BY <1>1, <1>2, <1>3, <1>5, <1>9, <2>3
  <2>5. j < Len(enc) /\ enc[j + 1] \notin Index
    BY <1>1, <1>2, <1>5, <1>11, <2>3
  <2>6. Len(quad) # 0 /\ Len(quad) # 1 /\ Len(quad) # 3
    <3>1. j + 1 # 4 * m + 1 /\ j + 1 # 4 * m + 2
      BY <2>1, <2>2, <2>5
    <3>2. ASSUME Len(quad) = 0 PROVE FALSE
      <4>1. j = 4 * m
        BY ONLY <1>1, <1>3, <2>4, <3>2
      <4>. QED BY ONLY <3>1, <4>1
    <3>3. ASSUME Len(quad) = 1 PROVE FALSE
      <4>1. j = 4 * m + 1
        BY ONLY <1>1, <1>3, <2>4, <3>3
      <4>2. j + 1 = 4 * m + 2
        BY ONLY <1>5, <4>1
      <4>. QED BY ONLY <3>1, <4>2
    <3>. QED BY <2>4, <3>2, <3>3
  <2>7. Len(quad) = 2
    BY <1>21, <2>6
  <2>8. quad[1] = x[1] /\ quad[2] = x[2]
    <3>1. 1 \in 1..Len(quad) /\ 2 \in 1..Len(quad)
      BY <2>7
    <3>. QED BY <1>3, <2>1, <2>4, <3>1
  <2>. QED BY <1>11, <2>4, <2>7, <2>8 DEF x
<1>12. CASE Len(src) = 3 * m + 2 /\ Len(enc) = 4 * m + 4
  <2> DEFINE x == Sextets(src[3 * m + 1], src[3 * m + 2], 0)
  <2>1. /\ enc[4 * m + 1] = x[1] /\ enc[4 * m + 2] = x[2]
        /\ enc[4 * m + 3] = x[3] /\ enc[4 * m + 4] = Pad
    <3>1. Len(src) # 3 * m /\ Len(src) # 3 * m + 1
      BY <1>5, <1>12
    <3>. QED BY <1>4, <3>1 DEF Encoded
  <2>2. x[1] \in Index /\ x[2] \in Index /\ x[3] \in Index
    <3>1. 3 * m + 1 \in 1..Len(src) /\ 3 * m + 2 \in 1..Len(src)
      BY <1>5, <1>12
    <3>2. src[3 * m + 1] \in Bytes /\ src[3 * m + 2] \in Bytes
      BY <1>7, <3>1
    <3>. QED BY <1>5, <3>2, SextetTypes
  <2>. HIDE DEF x
  <2>3. ~(j >= 4 * m + 4)
    BY <1>1, <1>3, <1>5, <2>1
  <2>4. g = m
    BY <1>1, <1>2, <1>3, <1>5, <1>9, <2>3
  <2>5. j < Len(enc) /\ enc[j + 1] \notin Index
    BY <1>1, <1>2, <1>5, <1>12, <2>3
  <2>6. Len(quad) # 0 /\ Len(quad) # 1 /\ Len(quad) # 2
    <3>1. j + 1 # 4 * m + 1 /\ j + 1 # 4 * m + 2 /\ j + 1 # 4 * m + 3
      BY <2>1, <2>2, <2>5
    <3>2. ASSUME Len(quad) = 0 PROVE FALSE
      <4>1. j = 4 * m
        BY ONLY <1>1, <1>3, <2>4, <3>2
      <4>. QED BY ONLY <3>1, <4>1
    <3>3. ASSUME Len(quad) = 1 PROVE FALSE
      <4>1. j = 4 * m + 1
        BY ONLY <1>1, <1>3, <2>4, <3>3
      <4>2. j + 1 = 4 * m + 2
        BY ONLY <1>5, <4>1
      <4>. QED BY ONLY <3>1, <4>2
    <3>4. ASSUME Len(quad) = 2 PROVE FALSE
      <4>1. j = 4 * m + 2
        BY ONLY <1>1, <1>3, <2>4, <3>4
      <4>2. j + 1 = 4 * m + 3
        BY ONLY <1>5, <4>1
      <4>. QED BY ONLY <3>1, <4>2
    <3>. QED BY <3>2, <3>3, <3>4
  <2>7. Len(quad) = 3
    BY <1>21, <2>6
  <2>8. quad[1] = x[1] /\ quad[2] = x[2] /\ quad[3] = x[3]
    <3>1. 1 \in 1..Len(quad) /\ 2 \in 1..Len(quad) /\ 3 \in 1..Len(quad)
      BY <2>7
    <3>. QED BY <1>3, <2>1, <2>4, <3>1
  <2>. QED BY <1>12, <2>4, <2>7, <2>8 DEF x
<1>. QED BY <1>4, <1>10, <1>11, <1>12 DEF Encoded

\* The bytes of the remainder complete the input.
LEMMA DecodeEndKeepsInv ==
  ASSUME Base64Inv, DecodeEnd
  PROVE  Base64Inv'
<1>1. /\ TypeOK /\ DecodeInv /\ TextInv /\ pc = "decode" /\ Ended'
      /\ pc' = IF NoBlock THEN "null" ELSE "done"
      /\ j < Len(enc) => enc[j + 1] \notin Index
      /\ dec' = dec \o Tail8(quad) /\ UNCHANGED <<src, n, tmp, enc, j, quad, own, g>>
  BY DEF Base64Inv, DecodeEnd, Ended
<1>2. /\ src \in Seq(Bytes) /\ enc \in Seq(Chars) /\ dec \in Seq(Bytes) /\ quad \in Seq(Index)
      /\ j \in Nat /\ g \in Nat /\ own \in BOOLEAN /\ Len(quad) <= 3
  BY <1>1 DEF TypeOK
<1>3. Len(src) \in Nat /\ Len(enc) \in Nat /\ Len(dec) \in Nat /\ Len(quad) \in Nat
  BY <1>2, LenProperties
<1>4. Len(quad) = 0 \/ Len(quad) = 1 \/ Len(quad) = 2 \/ Len(quad) = 3
  BY <1>2, <1>3, UpToThree
<1>5. /\ j <= Len(enc) /\ j = 4 * g + Len(quad) /\ Len(dec) = 3 * g
      /\ \A k \in 1..j : enc[k] \in Index
      /\ own => 3 * g <= Len(src) /\ \A k \in 1..(3 * g) : dec[k] = src[k]
  BY <1>1 DEF DecodeInv
<1>6. TextInv'
  <2>1. TextInv' <=> TextInv
    BY <1>1 DEF TextInv, Encoded, Group
  <2>. QED BY <1>1, <2>1
<1>7. ASSUME NEW i \in 1..Len(quad) PROVE quad[i] \in Index
  BY <1>2, <1>7, ElementOfSeq
<1>8. ASSUME NEW i \in 1..Len(src) PROVE src[i] \in Bytes
  BY <1>2, <1>8, ElementOfSeq
<1>9. 0 \in Index /\ 0 \in Bytes
  BY DEF Index, Bytes
<1>10. /\ Tail8(quad) \in Seq(Bytes)
       /\ Len(Tail8(quad)) = IF Len(quad) <= 1 THEN 0 ELSE Len(quad) - 1
       /\ own => /\ Len(src) = 3 * g + Len(Tail8(quad))
                 /\ \A k \in 1..Len(Tail8(quad)) : Tail8(quad)[k] = src[3 * g + k]
  <2>1. CASE Len(quad) = 0 \/ Len(quad) = 1
    <3>1. Tail8(quad) = <<>>
      <4>1. CASE Len(quad) = 0
        BY <4>1 DEF Tail8
      <4>2. CASE Len(quad) = 1
        BY <4>2 DEF Tail8
      <4>. QED BY <2>1, <4>1, <4>2
    <3>2. Len(Tail8(quad)) = 0 /\ Tail8(quad) \in Seq(Bytes)
      BY <3>1, EmptySeq
    <3>3. own => Len(src) = 3 * g
      BY <1>1, <2>1, WhereItStops
    <3>. QED BY <1>2, <2>1, <3>2, <3>3
  <2>2. CASE Len(quad) = 2
    <3> DEFINE b == Octets(quad[1], quad[2], 0, 0)[1]
    <3>1. b \in Bytes
      <4>1. quad[1] \in Index /\ quad[2] \in Index
        BY <1>7, <2>2
      <4>. QED BY <1>9, <4>1, OctetTypes
    <3>2. Tail8(quad) = <<b>>
      BY <2>2 DEF Tail8
    <3>3. own => Len(src) = 3 * g + 1 /\ b = src[3 * g + 1]
      <4>1. SUFFICES ASSUME own PROVE Len(src) = 3 * g + 1 /\ b = src[3 * g + 1]
        OBVIOUS
      <4>2. /\ Len(src) = 3 * g + 1
            /\ LET x == Sextets(src[3 * g + 1], 0, 0)
               IN  quad[1] = x[1] /\ quad[2] = x[2]
        BY <1>1, <2>2, <4>1, WhereItStops
      <4>3. src[3 * g + 1] \in Bytes
        <5>1. 3 * g + 1 \in 1..Len(src)
          BY <1>2, <4>2
        <5>. QED BY <1>8, <5>1
      <4>4. b = LET x == Sextets(src[3 * g + 1], 0, 0) IN Octets(x[1], x[2], 0, 0)[1]
        BY <4>2
      <4>. QED BY <1>9, <4>2, <4>3, <4>4, TailRoundTrip
    <3>. HIDE DEF b
    <3>4. Tail8(quad) \in Seq(Bytes) /\ Len(Tail8(quad)) = 1 /\ Tail8(quad)[1] = b
      BY <3>1, <3>2
    <3>. QED BY <1>2, <2>2, <3>3, <3>4
  <2>3. CASE Len(quad) = 3
    <3> DEFINE y == Octets(quad[1], quad[2], quad[3], 0)
    <3>1. y[1] \in Bytes /\ y[2] \in Bytes
      <4>1. quad[1] \in Index /\ quad[2] \in Index /\ quad[3] \in Index
        BY <1>7, <2>3
      <4>. QED BY <1>9, <4>1, OctetTypes
    <3>2. Tail8(quad) = <<y[1], y[2]>>
      BY <2>3 DEF Tail8
    <3>3. own => /\ Len(src) = 3 * g + 2
                 /\ y[1] = src[3 * g + 1] /\ y[2] = src[3 * g + 2]
      <4>1. SUFFICES ASSUME own
                     PROVE  /\ Len(src) = 3 * g + 2
                            /\ y[1] = src[3 * g + 1] /\ y[2] = src[3 * g + 2]
        OBVIOUS
      <4>2. /\ Len(src) = 3 * g + 2
            /\ LET x == Sextets(src[3 * g + 1], src[3 * g + 2], 0)
               IN  quad[1] = x[1] /\ quad[2] = x[2] /\ quad[3] = x[3]
        BY <1>1, <2>3, <4>1, WhereItStops
      <4>3. src[3 * g + 1] \in Bytes /\ src[3 * g + 2] \in Bytes
        <5>1. 3 * g + 1 \in 1..Len(src) /\ 3 * g + 2 \in 1..Len(src)
          BY <1>2, <4>2
        <5>. QED BY <1>8, <5>1
      <4>4. LET x == Sextets(src[3 * g + 1], src[3 * g + 2], 0)
            IN  y = Octets(x[1], x[2], x[3], 0)
        BY <4>2
      <4>. QED BY <4>2, <4>3, <4>4, TailRoundTrip
    <3>. HIDE DEF y
    <3>4. /\ Tail8(quad) \in Seq(Bytes) /\ Len(Tail8(quad)) = 2
          /\ Tail8(quad)[1] = y[1] /\ Tail8(quad)[2] = y[2]
      BY <3>1, <3>2
    <3>. QED BY <1>2, <2>3, <3>3, <3>4
  <2>. QED BY <1>4, <2>1, <2>2, <2>3
<1>11. /\ dec' \in Seq(Bytes) /\ Len(dec') = Len(dec) + Len(Tail8(quad))
       /\ \A i \in 1..Len(dec) : dec'[i] = dec[i]
       /\ \A i \in 1..Len(Tail8(quad)) : dec'[Len(dec) + i] = Tail8(quad)[i]
  <2>1. dec \in Seq(Bytes) /\ Tail8(quad) \in Seq(Bytes) /\ dec' = dec \o Tail8(quad)
    BY <1>1, <1>2, <1>10
  <2>. HIDE DEF Tail8
  <2>. QED BY ONLY <2>1, Extend
<1>12. NoBlock <=> j = 1
  <2>1. dec = <<>> <=> Len(dec) = 0
    BY <1>2, EmptySeq
  <2>2. Len(quad) = 1 /\ Len(dec) = 0 <=> j = 1
    <3>1. j \in Nat /\ g \in Nat /\ Len(dec) = 3 * g /\ j = 4 * g + Len(quad)
      BY <1>2, <1>5
    <3>2. j = 1 => Len(quad) = 1
      BY ONLY <3>1, <1>4
    <3>3. Len(quad) = 1 => (Len(dec) = 0 <=> j = 1)
      BY ONLY <3>1
    <3>. QED BY <3>2, <3>3
  <2>. QED BY <2>1, <2>2 DEF NoBlock
<1>15. RoundTrip'
  <2>1. SUFFICES ASSUME own PROVE pc' = "done" /\ dec' = src
    BY <1>1 DEF RoundTrip
  <2>2. Len(dec') = Len(src)
    BY <1>5, <1>10, <1>11, <2>1
  <2>3. ASSUME NEW i \in 1..Len(src) PROVE dec'[i] = src[i]
    <3>1. CASE i <= 3 * g
      BY <1>2, <1>5, <1>11, <2>1, <3>1
    <3>2. CASE ~(i <= 3 * g)
      <4>1. PICK k \in Nat : i = 3 * g + k /\ k \in 1..Len(Tail8(quad))
        <5>1. i - 3 * g \in Nat /\ i = 3 * g + (i - 3 * g)
          BY <1>2, <1>3, <3>2
        <5>2. Len(Tail8(quad)) \in Nat
          BY <1>10, LenProperties
        <5>3. Len(src) = 3 * g + Len(Tail8(quad))
          BY <1>10, <2>1
        <5>4. i - 3 * g \in 1..Len(Tail8(quad))
          BY ONLY <1>2, <1>3, <3>2, <5>1, <5>2, <5>3, i \in 1..Len(src)
        <5>. QED BY ONLY <5>1, <5>4
      <4>. QED BY <1>5, <1>10, <1>11, <2>1, <4>1
    <3>. QED BY <3>1, <3>2
  <2>4. pc' = "done"
    <3>1. j # 1
      <4>. SUFFICES ASSUME j = 1 PROVE FALSE
        OBVIOUS
      <4>1. g = 0 /\ Len(quad) = 1
        <5>1. j = 1 /\ g \in Nat /\ j = 4 * g + Len(quad)
          BY <1>2, <1>5
        <5>. QED BY ONLY <5>1, <1>4
      <4>. QED BY <1>1, <2>1, <4>1, WhereItStops
    <3>. QED BY <1>1, <1>12, <3>1
  <2>. QED BY <1>2, <1>11, <2>2, <2>3, <2>4, SeqEqual
<1>13. DecodedLength'
  <2>1. Len(dec') = 3 * g + (IF Len(quad) <= 1 THEN 0 ELSE Len(quad) - 1)
    BY <1>5, <1>10, <1>11
  <2>2. Len(dec') = (6 * j) \div 8
    <3>1. CASE Len(quad) = 0
      BY ONLY <1>2, <1>5, <2>1, <3>1
    <3>2. CASE Len(quad) = 1
      BY ONLY <1>2, <1>5, <2>1, <3>2
    <3>3. CASE Len(quad) = 2
      BY ONLY <1>2, <1>5, <2>1, <3>3
    <3>4. CASE Len(quad) = 3
      BY ONLY <1>2, <1>5, <2>1, <3>4
    <3>. QED BY <1>4, <3>1, <3>2, <3>3, <3>4
  <2>3. j = Len(enc) \/ enc[j + 1] \notin Index
    BY <1>1, <1>2, <1>3, <1>5
  <2>. QED BY <1>1, <1>5, <1>12, <2>2, <2>3 DEF DecodedLength
<1>14. TypeOK'
  BY <1>1, <1>11 DEF TypeOK
<1>. QED BY <1>1, <1>6, <1>13, <1>14, <1>15
         DEF Base64Inv, StartInv, EncodeInv, DecodeInv, Ended

-----------------------------------------------------------------------------
(* The theorems.                                                           *)

LEMMA Base64Init == ASSUME Init PROVE Base64Inv
<1>1. TypeOK
  <2>1. Len(tmp) = 0 /\ Len(quad) = 0
    BY EmptySeq DEF Init
  <2>2. Len(tmp) <= 2 /\ Len(quad) <= 3
    BY <2>1
  <2>3. src \in Seq(Bytes) /\ tmp \in Seq(Bytes) /\ dec \in Seq(Bytes)
    BY EmptySeq DEF Init
  <2>4. enc \in Seq(Chars) /\ quad \in Seq(Index)
    BY EmptySeq DEF Init
  <2>. QED BY <2>2, <2>3, <2>4 DEF Init, TypeOK
<1>. QED BY <1>1 DEF Init, Base64Inv, StartInv, EncodeInv, TextInv, DecodeInv,
                     RoundTrip, DecodedLength, Ended

LEMMA CallKeepsInv ==
  ASSUME Base64Inv, CallEncode \/ CallDecode
  PROVE  Base64Inv'
<1>1. /\ TypeOK /\ n = 0 /\ tmp = <<>> /\ enc = <<>> /\ g = 0
      /\ j = 0 /\ quad = <<>> /\ dec = <<>> /\ own = FALSE
  BY DEF Base64Inv, StartInv, TypeOK, CallEncode, CallDecode
<1>2. Len(tmp) = 0 /\ Len(enc) = 0 /\ Len(quad) = 0 /\ Len(dec) = 0
  BY <1>1, EmptySeq
<1>3. CASE CallEncode
  <2>1. /\ src' \in Seq(Bytes) /\ pc' = "encode" /\ own' = TRUE
        /\ UNCHANGED <<n, tmp, enc, j, quad, dec, g>>
    BY <1>3, Base64Assumption DEF CallEncode
  <2>2. n' <= Len(src') /\ n' = 3 * g' + Len(tmp')
    BY <1>1, <1>2, <2>1, LenProperties
  <2>3. TypeOK'
    BY <1>1, <2>1 DEF TypeOK
  <2>4. EncodeInv'
    BY <1>1, <1>2, <2>1, <2>2 DEF EncodeInv
  <2>. QED BY <2>1, <2>3, <2>4
           DEF Base64Inv, StartInv, TextInv, DecodeInv, RoundTrip, DecodedLength, Ended
<1>4. CASE CallDecode
  <2>1. /\ enc' \in Seq(Chars) /\ pc' = "decode" /\ own' = FALSE
        /\ UNCHANGED <<src, n, tmp, j, quad, dec, own, g>>
    BY <1>1, <1>4, Base64Assumption DEF CallDecode
  <2>2. Len(enc') \in Nat
    BY <2>1, LenProperties
  <2>3. TypeOK'
    BY <1>1, <2>1 DEF TypeOK
  <2>4. DecodeInv'
    BY <1>1, <1>2, <2>1, <2>2 DEF DecodeInv
  <2>. QED BY <2>1, <2>3, <2>4
           DEF Base64Inv, StartInv, EncodeInv, TextInv, RoundTrip, DecodedLength, Ended
<1>. QED BY <1>3, <1>4

\* The inductive invariant holds in every behaviour.
THEOREM Base64Invariance == Spec => []Base64Inv
<1>1. ASSUME Base64Inv, [Next]_vars PROVE Base64Inv'
  <2>1. CASE UNCHANGED vars
    BY <1>1, <2>1 DEF vars, Base64Inv, TypeOK, StartInv, EncodeInv, TextInv, DecodeInv,
                      RoundTrip, DecodedLength, Ended, Encoded, Group
  <2>. QED BY <1>1, <2>1, CallKeepsInv, EncodeByteKeepsInv, EncodeEndKeepsInv,
              DecodeCharKeepsInv, DecodeEndKeepsInv DEF Next, Terminated
<1>. QED BY <1>1, Base64Init, PTL DEF Spec

\* Type correctness of the codec.
THEOREM Base64Types == Spec => []TypeOK
<1>1. Base64Inv => TypeOK
  BY DEF Base64Inv
<1>. QED BY <1>1, Base64Invariance, PTL

\* What is encoded is decoded to what it was, whatever its length.
THEOREM RoundTripHolds == Spec => []RoundTrip
<1>1. Base64Inv => RoundTrip
  BY DEF Base64Inv
<1>. QED BY <1>1, Base64Invariance, PTL

\* Four characters for every three bytes begun.
THEOREM EncodedLengthHolds == Spec => []EncodedLength
<1>1. ASSUME Base64Inv PROVE EncodedLength
  <2>1. SUFFICES ASSUME pc = "decode" \/ Ended, own
                 PROVE  Len(enc) = 4 * ((Len(src) + 2) \div 3)
    BY DEF EncodedLength
  <2>2. PICK m \in 0..Len(src) : Encoded(m)
    BY <1>1, <2>1 DEF Base64Inv, TextInv
  <2>3. Len(src) \in Nat
    BY <1>1, LenProperties DEF Base64Inv, TypeOK
  <2>4. m \in Nat /\ \/ Len(src) = 3 * m /\ Len(enc) = 4 * m
                     \/ Len(src) = 3 * m + 1 /\ Len(enc) = 4 * m + 4
                     \/ Len(src) = 3 * m + 2 /\ Len(enc) = 4 * m + 4
    BY <2>2, <2>3 DEF Encoded
  <2>. QED BY ONLY <2>4
<1>. QED BY <1>1, Base64Invariance, PTL

\* As many bytes as the characters read have whole octets, and NULL for a single
\* character.
THEOREM DecodedLengthHolds == Spec => []DecodedLength
<1>1. Base64Inv => DecodedLength
  BY DEF Base64Inv
<1>. QED BY <1>1, Base64Invariance, PTL
=============================================================================
