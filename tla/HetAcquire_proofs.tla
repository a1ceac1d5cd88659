------------------------- MODULE HetAcquire_proofs -------------------------
(***************************************************************************)
(* Proofs about HetAcquire, for every size of a block, bound on the polls, *)
(* number of events and of faults.                                         *)
(***************************************************************************)
EXTENDS HetAcquire, SequenceTheorems, FiniteSetTheorems, TLAPS

-----------------------------------------------------------------------------
(* Constants, and pieces of a stream.                                      *)

LEMMA HetConstants ==
  /\ Block \in Nat /\ Block > 0 /\ PollTries \in Nat /\ TrigPolls \in Nat
  /\ TrigPolls > 0 /\ PollTries > 0
  /\ TrigMod \in Nat /\ TrigMod > 0 /\ Burst \in Nat
  /\ MaxData \in Nat /\ MaxEvents \in Nat /\ MaxFaults \in Nat
BY HetAssumption DEF HetAssumption

LEMMA CutStream ==
  ASSUME NEW s \in Seq(Kinds), Stream(s),
         NEW m \in 1..(Len(s) + 1), NEW n \in (m - 1)..Len(s)
  PROVE  /\ SubSeq(s, m, n) \in Seq(Kinds) /\ Len(SubSeq(s, m, n)) = n - m + 1
         /\ Stream(SubSeq(s, m, n))
         /\ SubSeq(s, m, n) # <<>> /\ n = Len(s) =>
              SubSeq(s, m, n)[Len(SubSeq(s, m, n))] = s[Len(s)]
<1> DEFINE t == SubSeq(s, m, n)
<1>1. /\ t \in Seq(Kinds) /\ Len(t) = n - m + 1
      /\ \A i \in 1..(n - m + 1) : t[i] = s[m + i - 1]
  BY SubSeqProperties
<1>2. Len(s) \in Nat /\ m \in Nat /\ n \in Int
  BY LenProperties
<1>. HIDE DEF t
<1>3. Stream(t)
  <2>1. SUFFICES ASSUME NEW i \in 1..(Len(t) - 1) PROVE Follows(t[i], t[i + 1])
    BY DEF Stream
  <2>2. i \in 1..(n - m + 1) /\ i + 1 \in 1..(n - m + 1)
    BY <1>1, <1>2
  <2>3. t[i] = s[m + i - 1] /\ t[i + 1] = s[m + (i + 1) - 1]
    BY <1>1, <2>2
  <2>4. m + i - 1 \in 1..(Len(s) - 1) /\ m + (i + 1) - 1 = (m + i - 1) + 1
    BY <1>2, <2>2
  <2>. QED BY <2>3, <2>4 DEF Stream
<1>4. ASSUME t # <<>>, n = Len(s) PROVE t[Len(t)] = s[Len(s)]
  <2>1. Len(t) # 0
    BY <1>1, <1>4, EmptySeq
  <2>2. n - m + 1 \in 1..(n - m + 1) /\ m + (n - m + 1) - 1 = n
    BY <1>1, <1>2, <2>1
  <2>. QED BY <1>1, <1>4, <2>2
<1>. QED BY <1>1, <1>3, <1>4 DEF t

LEMMA GrowStream ==
  ASSUME NEW s \in Seq(Kinds), Stream(s), NEW k \in Kinds,
         s # <<>> => Follows(s[Len(s)], k)
  PROVE  /\ Append(s, k) \in Seq(Kinds) /\ Len(Append(s, k)) = Len(s) + 1
         /\ Stream(Append(s, k)) /\ Append(s, k)[Len(Append(s, k))] = k
<1> DEFINE t == Append(s, k)
<1>1. /\ t \in Seq(Kinds) /\ Len(t) = Len(s) + 1
      /\ \A i \in 1..Len(s) : t[i] = s[i]
      /\ t[Len(s) + 1] = k
  BY AppendProperties
<1>2. Len(s) \in Nat
  BY LenProperties
<1>. HIDE DEF t
<1>3. Stream(t)
  <2>1. SUFFICES ASSUME NEW i \in 1..(Len(t) - 1) PROVE Follows(t[i], t[i + 1])
    BY DEF Stream
  <2>2. i \in 1..Len(s)
    BY <1>1, <1>2
  <2>3. CASE i = Len(s)
    <3>1. s # <<>>
      BY <2>2, <2>3, EmptySeq
    <3>. QED BY <1>1, <2>2, <2>3, <3>1
  <2>4. CASE i # Len(s)
    <3>1. i \in 1..(Len(s) - 1) /\ i + 1 \in 1..Len(s)
      BY <1>2, <2>2, <2>4
    <3>. QED BY <1>1, <2>2, <3>1 DEF Stream
  <2>. QED BY <2>3, <2>4
<1>. QED BY <1>1, <1>3 DEF t

LEMMA EmptyStream ==
  /\ Stream(<<>>) /\ <<>> \in Seq(Kinds) /\ Len(<<>>) = 0
<1>1. <<>> \in Seq(Kinds) /\ Len(<<>>) = 0
  BY EmptySeq
<1>. QED BY <1>1 DEF Stream

-----------------------------------------------------------------------------
(* Whole events.                                                           *)

\* What holds of the event of the next word.
LEMMA HasInStep ==
  ASSUME NEW b, NEW k \in Nat, NEW w
  PROVE  HasIn(b, k + 1, w) <=>
           b[k + 1] = w \/ (k > 0 /\ b[k] # "E" /\ HasIn(b, k, w))
<1>1. ASSUME HasIn(b, k + 1, w), b[k + 1] # w
      PROVE  k > 0 /\ b[k] # "E" /\ HasIn(b, k, w)
  <2>1. PICK i \in 1..(k + 1) : b[i] = w /\ \A m \in i..((k + 1) - 1) : b[m] # "E"
    BY <1>1 DEF HasIn
  <2>2. i \in 1..k /\ k \in i..((k + 1) - 1)
    BY <1>1, <2>1
  <2>3. \A m \in i..(k - 1) : m \in i..((k + 1) - 1)
    BY <2>2
  <2>. QED BY <2>1, <2>2, <2>3 DEF HasIn
<1>2. ASSUME b[k + 1] = w PROVE HasIn(b, k + 1, w)
  <2>1. k + 1 \in 1..(k + 1) /\ \A m \in (k + 1)..((k + 1) - 1) : FALSE
    OBVIOUS
  <2>. QED BY <1>2, <2>1 DEF HasIn
<1>3. ASSUME k > 0, b[k] # "E", HasIn(b, k, w) PROVE HasIn(b, k + 1, w)
  <2>1. PICK i \in 1..k : b[i] = w /\ \A m \in i..(k - 1) : b[m] # "E"
    BY <1>3 DEF HasIn
  <2>2. i \in 1..(k + 1) /\ \A m \in i..((k + 1) - 1) : m = k \/ m \in i..(k - 1)
    BY <2>1
  <2>. QED BY <1>3, <2>1, <2>2 DEF HasIn
<1>. QED BY <1>1, <1>2, <1>3

LEMMA WholeInStep ==
  ASSUME NEW b, NEW k \in Nat
  PROVE  /\ WholeIn(b, 0) = 0 /\ WholeIn(b, k) \in Nat
         /\ WholeIn(b, k + 1) = WholeIn(b, k) + (IF WholeAt(b, k + 1) THEN 1 ELSE 0)
<1> DEFINE S(n) == {i \in 1..n : WholeAt(b, i)}
<1>1. S(0) = {}
  OBVIOUS
<1>2. IsFiniteSet(S(k))
  <2>1. IsFiniteSet(1..k)
    BY FS_Interval
  <2>2. S(k) \subseteq 1..k
    OBVIOUS
  <2>. HIDE DEF S
  <2>. QED BY <2>1, <2>2, FS_Subset
<1>3. k + 1 \notin S(k)
  OBVIOUS
<1>4. S(k + 1) = IF WholeAt(b, k + 1) THEN S(k) \cup {k + 1} ELSE S(k)
  <2>1. \A i : i \in 1..(k + 1) <=> i \in 1..k \/ i = k + 1
    OBVIOUS
  <2>. QED BY <2>1
<1>5. /\ WholeIn(b, 0) = Cardinality(S(0)) /\ WholeIn(b, k) = Cardinality(S(k))
      /\ WholeIn(b, k + 1) = Cardinality(S(k + 1))
  BY DEF WholeIn
<1>. HIDE DEF S
<1>6. Cardinality(S(0)) = 0 /\ Cardinality(S(k)) \in Nat
  BY <1>1, <1>2, FS_EmptySet, FS_CardinalityType
<1>7. Cardinality(S(k) \cup {k + 1}) = Cardinality(S(k)) + 1
  BY <1>2, <1>3, FS_AddElement
<1>8. Cardinality(S(k + 1)) = Cardinality(S(k)) + (IF WholeAt(b, k + 1) THEN 1 ELSE 0)
  BY <1>4, <1>6, <1>7
<1>. QED BY <1>5, <1>6, <1>8

\* One word of a stream keeps the decoder's state right, and the decoder counts
\* exactly the words that end a whole event.
LEMMA ScanStep ==
  ASSUME NEW b, NEW k \in Nat, NEW s, Scanned(b, k, s),
         b[k + 1] \in Kinds, k > 0 => b[k] \in Kinds /\ Follows(b[k], b[k + 1])
  PROVE  /\ Scanned(b, k + 1, Decoded(s, b[k + 1]))
         /\ WholeAt(b, k + 1) <=> s = "FOOTER2" /\ b[k + 1] = "E"
<1> DEFINE h == HasIn(b, k, "H1")
           d == HasIn(b, k, "D")
           w == b[k + 1]
<1>1. /\ HasIn(b, k + 1, "H1") <=> w = "H1" \/ (k > 0 /\ b[k] # "E" /\ h)
      /\ HasIn(b, k + 1, "D") <=> w = "D" \/ (k > 0 /\ b[k] # "E" /\ d)
  BY HasInStep
<1>2. WholeAt(b, k + 1) <=> w = "E" /\ HasIn(b, k + 1, "H1") /\ HasIn(b, k + 1, "D")
  BY DEF WholeAt
<1>3. k + 1 # 0
  OBVIOUS
<1>31. ASSUME k > 0, h
       PROVE  /\ b[k] = "H1" => s = "HEADER1" /\ ~d
              /\ b[k] = "H2" => s = "HEADER2" /\ ~d
              /\ b[k] = "D"  => s = "DATA" /\ d
              /\ b[k] = "F1" => s = IF d THEN "FOOTER1" ELSE "HEADER2"
              /\ b[k] = "F2" => s = IF d THEN "FOOTER2" ELSE "HEADER2"
  <2>1. ~(k = 0 \/ ~HasIn(b, k, "H1"))
    BY <1>31
  <2>. QED BY <2>1 DEF Scanned
<1>. HIDE DEF h, d
<1>4. CASE k = 0 \/ ~h
  <2>1. s = "SEARCH"
    BY <1>4 DEF Scanned, h
  <2>2. CASE w = "H1"
    <3>1. HasIn(b, k + 1, "H1") /\ ~HasIn(b, k + 1, "D")
      BY <1>1, <1>4, <2>2 DEF Follows, Kinds
    <3>. QED BY <1>2, <1>3, <2>1, <2>2, <3>1 DEF Scanned, Decoded
  <2>3. CASE w # "H1"
    <3>1. ~HasIn(b, k + 1, "H1")
      BY <1>1, <1>4, <2>3
    <3>2. Decoded(s, w) = "SEARCH"
      BY <2>1, <2>3 DEF Decoded
    <3>. QED BY <1>2, <1>3, <2>1, <3>1, <3>2 DEF Scanned
  <2>. QED BY <2>2, <2>3
<1>5. CASE k > 0 /\ h
  <2>1. /\ b[k] = "H1" => s = "HEADER1" /\ ~d
        /\ b[k] = "H2" => s = "HEADER2" /\ ~d
        /\ b[k] = "D"  => s = "DATA" /\ d
        /\ b[k] = "F1" => s = IF d THEN "FOOTER1" ELSE "HEADER2"
        /\ b[k] = "F2" => s = IF d THEN "FOOTER2" ELSE "HEADER2"
    BY <1>5, <1>31
  <2>2. CASE b[k] = "E"
    <3>1. w = "H1" /\ HasIn(b, k + 1, "H1") /\ ~HasIn(b, k + 1, "D")
      BY <1>1, <1>5, <2>2 DEF Follows
    <3>. QED BY <1>2, <1>3, <3>1 DEF Scanned, Decoded
  <2>3. CASE b[k] = "H1"
    BY <1>1, <1>2, <1>3, <1>5, <2>1, <2>3 DEF Follows, Scanned, Decoded, High
  <2>4. CASE b[k] = "H2"
    BY <1>1, <1>2, <1>3, <1>5, <2>1, <2>4 DEF Follows, Scanned, Decoded, High
  <2>5. CASE b[k] = "D"
    BY <1>1, <1>2, <1>3, <1>5, <2>1, <2>5 DEF Follows, Scanned, Decoded, High
  <2>6. CASE b[k] = "F1"
    BY <1>1, <1>2, <1>3, <1>5, <2>1, <2>6 DEF Follows, Scanned, Decoded, High
  <2>7. CASE b[k] = "F2"
    BY <1>1, <1>2, <1>3, <1>5, <2>1, <2>7 DEF Follows, Scanned, Decoded, High
  <2>. QED BY <1>5, <2>2, <2>3, <2>4, <2>5, <2>6, <2>7 DEF Kinds
<1>. QED BY <1>4, <1>5

-----------------------------------------------------------------------------
(* Types.                                                                  *)

LEMMA OccupancyType ==
  /\ Occupancy \in 0..5 /\ Occupancy \in Status
  /\ mem \in Seq(Kinds) /\ Occupancy <= 3 => Len(mem) >= Block
<1>1. Occupancy \in 0..5
  BY DEF Occupancy
<1>2. ASSUME mem \in Seq(Kinds), Occupancy <= 3 PROVE Len(mem) >= Block
  <2>1. Len(mem) \in Nat /\ Block \in Nat
    BY <1>2, HetConstants, LenProperties
  <2>2. Occupancy # 5 /\ Occupancy # 4
    BY <1>2
  <2>. QED BY <2>1, <2>2 DEF Occupancy
<1>. QED BY <1>1, <1>2 DEF Status

\* Nothing but the memory and the board's place in an event changes in a reset.
LEMMA WriteSR4Keeps ==
  ASSUME TypeOK, BoardInv, NEW bits \in SR4Values, WriteSR4(bits)
  PROVE  /\ sr4' = bits
         /\ mem' \in Seq(Kinds) /\ Len(mem') <= 4 * Block /\ bk' \in Kinds
         /\ nd' \in Nat /\ trig' \in Nat /\ pending' \in Nat /\ nev' \in Nat
         /\ BoardInv'
<1>1. CASE "MEM" \in sr1 /\ "MEM" \in bits
  <2>1. sr4' = bits /\ mem' = <<>> /\ bk' = "E" /\ pending' = 0 /\ UNCHANGED <<nd, trig, nev>>
    BY <1>1 DEF WriteSR4
  <2>2. mem' \in Seq(Kinds) /\ Len(mem') <= 4 * Block
    BY <2>1, EmptyStream, HetConstants
  <2>3. BoardInv'
    BY <2>1, EmptyStream DEF BoardInv
  <2>. QED BY <2>1, <2>2, <2>3 DEF TypeOK, Kinds
<1>2. CASE ~("MEM" \in sr1 /\ "MEM" \in bits)
  <2>1. sr4' = bits /\ UNCHANGED board
    BY <1>2 DEF WriteSR4
  <2>. QED BY <2>1 DEF TypeOK, board, BoardInv
<1>. QED BY <1>1, <1>2

LEMMA BoardWordKeeps ==
  ASSUME TypeOK, BoardInv, NEW k \in Kinds, BoardWord(k)
  PROVE  /\ mem' \in Seq(Kinds) /\ Len(mem') <= 4 * Block /\ bk' \in Kinds
         /\ nd' \in Nat /\ trig' \in Nat /\ pending' \in Nat /\ nev' \in Nat
         /\ Len(mem') = Len(mem) + 1
         /\ BoardInv'
<1>1. /\ mem \in Seq(Kinds) /\ Stream(mem)
      /\ mem # <<>> => Follows(mem[Len(mem)], k)
      /\ mem' = Append(mem, k) /\ bk' = k /\ Len(mem) < 4 * Block
  BY DEF TypeOK, BoardInv, BoardWord
<1>2. Len(mem) \in Nat
  BY <1>1, LenProperties
<1>3. /\ Append(mem, k) \in Seq(Kinds) /\ Len(Append(mem, k)) = Len(mem) + 1
      /\ Stream(Append(mem, k)) /\ Append(mem, k)[Len(Append(mem, k))] = k
  BY <1>1, GrowStream
<1>4. BoardInv'
  BY <1>1, <1>3 DEF BoardInv
<1>5. nd' \in Nat /\ nev' \in Nat
  <2>1. nd \in Nat /\ nev \in Nat
    BY DEF TypeOK
  <2>2. /\ nd' = CASE k = "H1" -> 0 [] k = "D" -> nd + 1 [] OTHER -> nd
        /\ nev' = IF k = "H1" THEN nev + 1 ELSE nev
    BY DEF BoardWord
  <2>3. nd' = 0 \/ nd' = nd + 1 \/ nd' = nd
    <3>1. CASE k = "H1"
      BY <3>1, <2>2
    <3>2. CASE k = "D"
      BY <3>2, <2>2
    <3>3. CASE k # "H1" /\ k # "D"
      BY <3>3, <2>2
    <3>. QED BY <3>1, <3>2, <3>3
  <2>. QED BY <2>1, <2>2, <2>3
<1>6. trig' \in Nat
  <2>1. trig \in Nat /\ trig' \in {trig, (trig + 1) % TrigMod}
    BY DEF BoardWord, TypeOK
  <2>. QED BY <2>1, HetConstants
<1>7. pending' \in Nat
  <2>1. /\ pending \in Nat
        /\ k = "H1" /\ testmode => pending > 0
        /\ pending' = IF k = "H1" /\ testmode THEN pending - 1 ELSE pending
    BY DEF BoardWord, TypeOK, Triggered
  <2>. QED BY <2>1
<1>8. Len(mem') <= 4 * Block
  BY <1>1, <1>2, <1>3, HetConstants
<1>. QED BY <1>1, <1>3, <1>4, <1>5, <1>6, <1>7, <1>8

\* What a DMA read takes, whole or in part, leaves a piece of the stream.
LEMMA TakenKeeps ==
  ASSUME HetInv, pc = "dma", NEW k \in 0..Block,
         mem' = SubSeq(mem, k + 1, Len(mem)), UNCHANGED bk
  PROVE  /\ mem' \in Seq(Kinds) /\ Len(mem') <= 4 * Block /\ BoardInv'
<1>1. /\ mem \in Seq(Kinds) /\ Stream(mem) /\ Len(mem) >= Block /\ Len(mem) <= 4 * Block
      /\ mem # <<>> => mem[Len(mem)] = bk
  BY DEF HetInv, TypeOK, BoardInv, BlockInv
<1>2. Len(mem) \in Nat
  BY <1>1, LenProperties
<1>3. k + 1 \in 1..(Len(mem) + 1) /\ Len(mem) \in ((k + 1) - 1)..Len(mem)
  BY <1>1, <1>2, HetConstants
<1>4. /\ mem' \in Seq(Kinds) /\ Len(mem') = Len(mem) - (k + 1) + 1 /\ Stream(mem')
      /\ mem' # <<>> => mem'[Len(mem')] = mem[Len(mem)]
  BY <1>1, <1>3, CutStream
<1>5. Len(mem') <= 4 * Block
  BY <1>1, <1>2, <1>4, HetConstants
<1>6. mem' # <<>> => mem # <<>>
  <2>1. SUFFICES ASSUME mem = <<>> PROVE mem' = <<>>
    OBVIOUS
  <2>2. Len(mem) = 0
    BY <2>1, EmptyStream
  <2>3. Len(mem') = 0
    BY <1>2, <1>4, <2>2, LenProperties
  <2>. QED BY <1>4, <2>3, EmptySeq
<1>. QED BY <1>1, <1>4, <1>5, <1>6 DEF BoardInv

LEMMA BlockTaken ==
  ASSUME HetInv, pc = "dma"
  PROVE  /\ SubSeq(mem, 1, Block) \in Seq(Kinds) /\ Len(SubSeq(mem, 1, Block)) = Block
         /\ Stream(SubSeq(mem, 1, Block))
<1>1. mem \in Seq(Kinds) /\ Stream(mem) /\ Len(mem) >= Block /\ Len(mem) \in Nat
  BY LenProperties DEF HetInv, TypeOK, BoardInv, BlockInv
<1>2. 1 \in 1..(Len(mem) + 1) /\ Block \in (1 - 1)..Len(mem) /\ Block - 1 + 1 = Block
  BY <1>1, HetConstants
<1>. QED BY <1>1, <1>2, CutStream

-----------------------------------------------------------------------------
(* The invariant is kept, conjunct by conjunct.                            *)

LEMMA TypesKept == ASSUME HetInv, Next PROVE TypeOK'
<1>1. TypeOK /\ BoardInv
  BY DEF HetInv
<1>. USE DEF TypeOK, prog, poll, loop, dec, regs, board, hist
<1>2. ASSUME NEW k \in Kinds, BoardWord(k) PROVE TypeOK'
  <2>1. /\ mem' \in Seq(Kinds) /\ Len(mem') <= 4 * Block /\ bk' \in Kinds
        /\ nd' \in Nat /\ trig' \in Nat /\ pending' \in Nat /\ nev' \in Nat
    BY <1>1, <1>2, BoardWordKeeps
  <2>2. UNCHANGED <<testmode, pc, after, prog, regs, server, faults, hist>>
    BY <1>2 DEF BoardWord
  <2>. QED BY <1>1, <2>1, <2>2
<1>3. CASE SaveSR1 \/ EnableReset
  <2>1. CASE SaveSR1
    BY <1>1, <2>1 DEF SaveSR1, Places, SR1Values
  <2>2. CASE EnableReset
    BY <1>1, <2>2 DEF EnableReset, Places, SR1Values
  <2>. QED BY <1>3, <2>1, <2>2
<1>4. CASE PulseReset
  <2>1. WriteSR4(ResetBits) /\ ResetBits \in SR4Values
    BY <1>4 DEF PulseReset, SR4Values
  <2>. QED BY <1>1, <1>4, <2>1, WriteSR4Keeps DEF PulseReset, Places
<1>5. CASE ClearReset
  <2>1. WriteSR4({}) /\ {} \in SR4Values
    BY <1>5 DEF ClearReset, SR4Values
  <2>. QED BY <1>1, <1>5, <2>1, WriteSR4Keeps DEF ClearReset, Places
<1>6. CASE RestoreSR1
  <2>1. save \in SR1Values
    BY <1>6 DEF RestoreSR1, HetInv, RegInv, InReset
  <2>. QED BY <1>1, <1>6, <2>1 DEF RestoreSR1, Places
<1>7. CASE ResetAll
  <2> DEFINE all == ResetBits \cup {"GLOBAL", "PLL", "CTRL"}
  <2>1. WriteSR4(all) /\ all \in SR4Values
    BY <1>7 DEF ResetAll, SR4Values
  <2>. HIDE DEF all
  <2>2. /\ sr4' \in SR4Values
        /\ mem' \in Seq(Kinds) /\ Len(mem') <= 4 * Block /\ bk' \in Kinds
        /\ nd' \in Nat /\ trig' \in Nat /\ pending' \in Nat /\ nev' \in Nat
    BY <1>1, <2>1, WriteSR4Keeps
  <2>. QED BY <1>1, <1>7, <2>2 DEF ResetAll, Places
<1>8. CASE Configure
  <2>1. WriteSR4({}) /\ {} \in SR4Values
    BY <1>8 DEF Configure, SR4Values
  <2>. QED BY <1>1, <1>8, <2>1, WriteSR4Keeps DEF Configure, Places, SR1Values
<1>9. CASE InitT1 \/ InitT2
  BY <1>1, <1>9 DEF InitT1, InitT2, Places, SR1Values
<1>10. CASE Register
  <2>1. Unset \in Dataset
    BY EmptyStream DEF Unset, Dataset, Status
  <2>. QED BY <1>1, <1>10, <2>1 DEF Register, Places
<1>11. CASE Prime
  <2>1. [status |-> Occupancy, events |-> eventn, fifo |-> <<>>] \in Dataset
    BY <1>1, EmptyStream, OccupancyType DEF Dataset
  <2>. QED BY <1>1, <1>11, <2>1 DEF Prime, Publish, Places
<1>12. CASE Loop
  BY <1>1, <1>12, HetConstants DEF Loop, Places
<1>13. CASE AutSave
  BY <1>1, <1>13 DEF AutSave, Places, SR1Values
<1>14. CASE AutFire
  <2>1. pending + Burst \in Nat
    BY <1>1, HetConstants
  <2>. QED BY <1>1, <1>14, <2>1 DEF AutFire, Places, SR1Values
<1>15. CASE AutRestore
  <2>1. save \in SR1Values
    BY <1>15 DEF AutRestore, HetInv, RegInv, Right, SR1Values
  <2>. QED BY <1>1, <1>15, <2>1 DEF AutRestore, Places
<1>16. CASE CountTriggers
  <2>1. nn \in Nat /\ nn < TrigPolls /\ nn' = nn + 1
    BY <1>1, <1>16 DEF CountTriggers, HetInv, TriesInv
  <2>2. nn' \in 0..TrigPolls
    BY <2>1, HetConstants
  <2>. QED BY <1>1, <1>16, <2>2 DEF CountTriggers, Places
<1>17. CASE Poll
  <2>1. r6' \in Status /\ status' \in Status
    BY <1>17, OccupancyType DEF Poll, Status
  <2>2. retry' \in 0..(PollTries + 1) /\ pc' \in Places
    <3>1. retry \in Nat /\ retry <= PollTries /\ retry' = retry + 1
      BY <1>1, <1>17 DEF Poll, HetInv, TriesInv
    <3>2. pc' \in Places
      BY <1>17 DEF Poll, Places
    <3>. QED BY <3>1, <3>2, HetConstants
  <2>3. ds' \in Dataset
    <3>1. [ds EXCEPT !.status = r6'] \in Dataset
      BY <1>1, <2>1 DEF Dataset
    <3>. QED BY <1>1, <1>17, <3>1 DEF Poll
  <2>4. faults' \in Nat
    <3>1. faults' = faults \/ faults' = faults + 1
      BY <1>17 DEF Poll
    <3>2. faults \in Nat
      BY <1>1
    <3>. QED BY ONLY <3>1, <3>2
  <2>5. UNCHANGED <<testmode, after, save, loop, dec, regs, board, server, hist>>
    BY <1>17 DEF Poll
  <2>. QED BY <1>1, <2>1, <2>2, <2>3, <2>4, <2>5
<1>18. CASE Check
  BY <1>1, <1>18 DEF Check, Places
<1>19. CASE DmaRead
  <2>1. /\ pc = "dma" /\ mem' = SubSeq(mem, Block + 1, Len(mem)) /\ UNCHANGED bk
        /\ Block \in 0..Block
    BY <1>19, HetConstants DEF DmaRead
  <2>2. mem' \in Seq(Kinds) /\ Len(mem') <= 4 * Block
    BY <2>1, TakenKeeps
  <2>3. evtbuf' \in Seq(Kinds)
    BY <1>19, BlockTaken DEF DmaRead
  <2>. QED BY <1>1, <1>19, <2>2, <2>3, HetConstants DEF DmaRead, StartDecoder, Places, States
<1>20. CASE DmaError
  <2>1. PICK k \in 0..Block : mem' = SubSeq(mem, k + 1, Len(mem))
    BY <1>20 DEF DmaError
  <2>2. mem' \in Seq(Kinds) /\ Len(mem') <= 4 * Block
    BY <1>20, <2>1, TakenKeeps DEF DmaError
  <2>. QED BY <1>1, <1>20, <2>2 DEF DmaError, Places
<1>21. CASE DecodeWord
  BY <1>1, <1>21, HetConstants DEF DecodeWord, Decoded, States
<1>22. CASE DecodeEnd
  <2>1. WholeIn(evtbuf, Block) \in Nat
    BY HetConstants, WholeInStep
  <2>2. Updated \in Dataset
    <3>1. [ds EXCEPT !.events = eventn] \in Dataset
      BY <1>1 DEF Dataset
    <3>2. [[ds EXCEPT !.events = eventn] EXCEPT !.fifo = evtbuf] \in Dataset
      BY <1>1, <3>1 DEF Dataset
    <3>. QED BY <3>2 DEF Updated
  <2>. QED BY <1>1, <1>22, <2>1, <2>2 DEF DecodeEnd, Places
<1>23. CASE Push
  BY <1>1, <1>23 DEF Push, Publish, Places
<1>24. CASE Crash
  BY <1>1, <1>24 DEF Crash, Places
<1>25. CASE Restart
  <2>1. Unset \in Dataset
    BY EmptyStream DEF Unset, Dataset, Status
  <2>. QED BY <1>1, <1>25, <2>1, EmptyStream, HetConstants
           DEF Restart, Places, States, Status
<1>. QED BY <1>2, <1>3, <1>4, <1>5, <1>6, <1>7, <1>8, <1>9, <1>10, <1>11, <1>12,
            <1>13, <1>14, <1>15, <1>16, <1>17, <1>18, <1>19, <1>20, <1>21, <1>22,
            <1>23, <1>24, <1>25 DEF Next, Program

\* Where the program gets with a step, for the conjuncts below.
LEMMA TriesKept == ASSUME HetInv, Next PROVE TriesInv'
<1>1. TypeOK /\ TriesInv
  BY DEF HetInv
<1>. USE DEF TriesInv, prog, poll, loop
<1>2. ASSUME NEW k \in Kinds, BoardWord(k) PROVE TriesInv'
  BY <1>1, <1>2 DEF BoardWord
<1>3. CASE SaveSR1 \/ EnableReset \/ PulseReset \/ ClearReset
  BY <1>1, <1>3 DEF SaveSR1, EnableReset, PulseReset, ClearReset
<1>4. CASE RestoreSR1
  BY <1>1, <1>4 DEF RestoreSR1, TypeOK
<1>5. CASE ResetAll \/ Configure \/ InitT1 \/ InitT2 \/ Register \/ Prime
  BY <1>1, <1>5 DEF ResetAll, Configure, InitT1, InitT2, Register, Prime
<1>6. CASE Loop
  BY <1>1, <1>6, HetConstants DEF Loop
<1>7. CASE AutSave \/ AutFire \/ AutRestore
  BY <1>1, <1>7 DEF AutSave, AutFire, AutRestore
<1>8. CASE CountTriggers
  <2>1. nn \in Nat /\ nn < TrigPolls /\ retry = 0 /\ nn' = nn + 1 /\ retry' = retry
    BY <1>1, <1>8 DEF CountTriggers, TypeOK
  <2>2. pc' = "exit" \/ (nn + 1 # TrigPolls /\ pc' \in {"count", "poll"})
    BY <1>8 DEF CountTriggers, GiveUp
  <2>. QED BY <2>1, <2>2, HetConstants
<1>9. CASE Poll
  BY <1>1, <1>9 DEF Poll, PollAgain
<1>10. CASE Check \/ DmaRead \/ DmaError \/ DecodeWord \/ DecodeEnd \/ Push
  BY <1>1, <1>10 DEF Check, DmaRead, DmaError, DecodeWord, DecodeEnd, Push
<1>11. CASE Crash \/ Restart
  BY <1>1, <1>11 DEF Crash, Restart
<1>. QED BY <1>2, <1>3, <1>4, <1>5, <1>6, <1>7, <1>8, <1>9, <1>10, <1>11
         DEF Next, Program

\* The memory, and the block taken from it.
LEMMA BoardKept == ASSUME HetInv, Next PROVE BoardInv' /\ BlockInv'
<1>1. TypeOK /\ BoardInv /\ BlockInv
  BY DEF HetInv
<1>. USE DEF BlockInv, prog, poll, loop, dec, regs, board, hist
<1>2. ASSUME NEW k \in Kinds, BoardWord(k) PROVE BoardInv' /\ BlockInv'
  <2>1. BoardInv' /\ Len(mem') = Len(mem) + 1
    BY <1>1, <1>2, BoardWordKeeps
  <2>2. Len(mem) \in Nat
    BY <1>1, LenProperties DEF TypeOK
  <2>3. Len(mem) >= Block => Len(mem') >= Block
    BY <2>1, <2>2, HetConstants
  <2>. QED BY <1>1, <1>2, <2>1, <2>3 DEF BoardWord
<1>3. CASE SaveSR1 \/ EnableReset
  BY <1>1, <1>3 DEF SaveSR1, EnableReset, BoardInv
<1>4. CASE RestoreSR1
  BY <1>1, <1>4 DEF RestoreSR1, TypeOK, BoardInv
<1>5. CASE PulseReset \/ ClearReset \/ ResetAll \/ Configure
  <2>1. \E bits \in SR4Values : WriteSR4(bits)
    BY <1>5 DEF PulseReset, ClearReset, ResetAll, Configure, SR4Values
  <2>2. BoardInv'
    BY <1>1, <2>1, WriteSR4Keeps
  <2>. QED BY <1>5, <2>2 DEF PulseReset, ClearReset, ResetAll, Configure
<1>6. CASE InitT1 \/ InitT2 \/ Register \/ Prime \/ Loop
  BY <1>1, <1>6 DEF InitT1, InitT2, Register, Prime, Loop, BoardInv
<1>7. CASE AutSave \/ AutFire \/ AutRestore \/ CountTriggers
  BY <1>1, <1>7 DEF AutSave, AutFire, AutRestore, CountTriggers, BoardInv
<1>8. CASE Poll
  <2>1. status' <= 3 => Len(mem) >= Block
    <3>1. SUFFICES ASSUME status' <= 3 PROVE Len(mem) >= Block
      OBVIOUS
    <3>2. r6' = Occupancy /\ status' = r6'
      BY <1>8, <3>1 DEF Poll
    <3>. QED BY <1>1, <3>1, <3>2, OccupancyType DEF TypeOK
  <2>. QED BY <1>1, <1>8, <2>1 DEF Poll, BoardInv
<1>9. CASE Check
  BY <1>1, <1>9 DEF Check, Enough, BoardInv
<1>10. CASE DmaRead
  <2>1. /\ pc = "dma" /\ mem' = SubSeq(mem, Block + 1, Len(mem)) /\ UNCHANGED bk
        /\ Block \in 0..Block
    BY <1>10, HetConstants DEF DmaRead
  <2>2. BoardInv'
    BY <2>1, TakenKeeps
  <2>3. evtbuf' \in Seq(Kinds) /\ Len(evtbuf') = Block /\ Stream(evtbuf')
    BY <1>10, BlockTaken DEF DmaRead
  <2>. QED BY <1>10, <2>2, <2>3 DEF DmaRead
<1>11. CASE DmaError
  <2>1. PICK k \in 0..Block : mem' = SubSeq(mem, k + 1, Len(mem))
    BY <1>11 DEF DmaError
  <2>2. BoardInv'
    BY <1>11, <2>1, TakenKeeps DEF DmaError
  <2>. QED BY <1>11, <2>2 DEF DmaError
<1>12. CASE DecodeWord \/ DecodeEnd \/ Push \/ Crash \/ Restart
  BY <1>1, <1>12 DEF DecodeWord, DecodeEnd, Push, Crash, Restart, BoardInv
<1>. QED BY <1>2, <1>3, <1>4, <1>5, <1>6, <1>7, <1>8, <1>9, <1>10, <1>11, <1>12
         DEF Next, Program

\* Only these three steps touch the decoder and what it has counted.
LEMMA OthersLeaveDecoder ==
  ASSUME HetInv, Next, ~DmaRead, ~DecodeWord, ~DecodeEnd, ~Restart
  PROVE  /\ UNCHANGED <<evtbuf, cnt, shm_state, eventn, blk, total>>
         /\ pc' = "decode" => pc = "decode"
         /\ pc = "decode" => pc' \in {"decode", "exit"}
<1>1. TypeOK
  BY DEF HetInv
<1>. USE DEF prog, dec, hist
<1>2. ASSUME NEW k \in Kinds, BoardWord(k)
      PROVE  UNCHANGED <<pc, evtbuf, cnt, shm_state, eventn, blk, total>>
  BY <1>2 DEF BoardWord
<1>3. CASE SaveSR1 \/ EnableReset \/ PulseReset \/ ClearReset
  BY <1>3 DEF SaveSR1, EnableReset, PulseReset, ClearReset
<1>4. CASE RestoreSR1
  BY <1>1, <1>4 DEF RestoreSR1, TypeOK
<1>5. CASE ResetAll \/ Configure \/ InitT1 \/ InitT2 \/ Register \/ Prime \/ Loop
  BY <1>5 DEF ResetAll, Configure, InitT1, InitT2, Register, Prime, Loop
<1>6. CASE AutSave \/ AutFire \/ AutRestore \/ CountTriggers
  BY <1>6 DEF AutSave, AutFire, AutRestore, CountTriggers
<1>7. CASE Poll \/ Check \/ DmaError \/ Push \/ Crash
  BY <1>7 DEF Poll, Check, DmaError, Push, Crash
<1>. QED BY <1>2, <1>3, <1>4, <1>5, <1>6, <1>7 DEF Next, Program

\* The decoder, and its count.
LEMMA CountKept == ASSUME HetInv, Next PROVE ScanInv' /\ CountsWhole'
<1>1. TypeOK /\ ScanInv /\ CountsWhole /\ BlockInv
  BY DEF HetInv
<1>2. CASE DmaRead
  <2>1. /\ pc = "dma" /\ pc' = "decode" /\ cnt' = 0 /\ shm_state' = "SEARCH"
        /\ UNCHANGED <<eventn, total>>
    BY <1>2 DEF DmaRead, StartDecoder, hist
  <2>2. eventn = total /\ total \in Nat
    BY <1>1, <2>1 DEF CountsWhole, TypeOK
  <2>3. WholeIn(evtbuf', 0) = 0
    BY WholeInStep
  <2>4. CountsWhole'
    BY <2>1, <2>2, <2>3 DEF CountsWhole
  <2>. QED BY <2>1, <2>4 DEF ScanInv, Scanned
<1>3. CASE DecodeWord
  <2>1. /\ pc = "decode" /\ pc' = "decode" /\ cnt \in Nat /\ cnt < Block /\ cnt' = cnt + 1
        /\ shm_state' = Decoded(shm_state, evtbuf[cnt + 1])
        /\ eventn' = IF shm_state = "FOOTER2" /\ evtbuf[cnt + 1] = "E"
                       THEN eventn + 1 ELSE eventn
        /\ UNCHANGED <<evtbuf, total>>
    BY <1>1, <1>3 DEF DecodeWord, TypeOK, hist
  <2>2. evtbuf \in Seq(Kinds) /\ Len(evtbuf) = Block /\ Stream(evtbuf)
        /\ Scanned(evtbuf, cnt, shm_state)
    BY <1>1, <2>1 DEF BlockInv, TypeOK, ScanInv
  <2>3. cnt + 1 \in 1..Len(evtbuf) /\ (cnt > 0 => cnt \in 1..(Len(evtbuf) - 1))
    BY <2>1, <2>2, HetConstants
  <2>4. evtbuf[cnt + 1] \in Kinds
    BY <2>2, <2>3, ElementOfSeq
  <2>5. cnt > 0 => evtbuf[cnt] \in Kinds /\ Follows(evtbuf[cnt], evtbuf[cnt + 1])
    <3>1. SUFFICES ASSUME cnt > 0
                   PROVE  evtbuf[cnt] \in Kinds /\ Follows(evtbuf[cnt], evtbuf[cnt + 1])
      OBVIOUS
    <3>2. cnt \in 1..Len(evtbuf)
      BY <2>1, <2>2, <3>1, HetConstants
    <3>. QED BY <2>2, <2>3, <3>1, <3>2, ElementOfSeq DEF Stream
  <2>6. /\ Scanned(evtbuf, cnt + 1, shm_state')
        /\ WholeAt(evtbuf, cnt + 1) <=> shm_state = "FOOTER2" /\ evtbuf[cnt + 1] = "E"
    BY <2>1, <2>2, <2>4, <2>5, ScanStep
  <2>7. /\ WholeIn(evtbuf, cnt) \in Nat
        /\ WholeIn(evtbuf, cnt + 1) =
             WholeIn(evtbuf, cnt) + (IF WholeAt(evtbuf, cnt + 1) THEN 1 ELSE 0)
    BY <2>1, WholeInStep
  <2>8. eventn = total + WholeIn(evtbuf, cnt) /\ total \in Nat
    BY <1>1, <2>1 DEF CountsWhole, TypeOK
  <2>9. eventn' = total + WholeIn(evtbuf, cnt + 1)
    <3>1. CASE WholeAt(evtbuf, cnt + 1)
      BY <2>1, <2>6, <2>7, <2>8, <3>1
    <3>2. CASE ~WholeAt(evtbuf, cnt + 1)
      BY <2>1, <2>6, <2>7, <2>8, <3>2
    <3>. QED BY <3>1, <3>2
  <2>. QED BY <2>1, <2>6, <2>9 DEF ScanInv, CountsWhole
<1>4. CASE DecodeEnd
  BY <1>1, <1>4 DEF DecodeEnd, ScanInv, CountsWhole, dec
<1>5. CASE Restart
  BY <1>5 DEF Restart, ScanInv, CountsWhole
<1>6. CASE ~DmaRead /\ ~DecodeWord /\ ~DecodeEnd /\ ~Restart
  <2>1. /\ UNCHANGED <<evtbuf, cnt, shm_state, eventn, total>>
        /\ pc' = "decode" => pc = "decode"
        /\ pc = "decode" => pc' \in {"decode", "exit"}
    BY <1>6, OthersLeaveDecoder
  <2>2. pc' # "exit" => pc # "exit"
    <3>1. ASSUME pc = "exit" PROVE FALSE \/ pc' = "exit"
      BY <1>6, <3>1 DEF Next, Program, BoardWord, SaveSR1, EnableReset, PulseReset,
         ClearReset, RestoreSR1, ResetAll, Configure, InitT1, InitT2, Register, Prime,
         Loop, AutSave, AutFire, AutRestore, CountTriggers, Poll, Check, DmaError,
         Push, Crash
    <3>. QED BY <3>1
  <2>. QED BY <1>1, <2>1, <2>2 DEF ScanInv, CountsWhole
<1>. QED BY <1>2, <1>3, <1>4, <1>5, <1>6

\* The dataset of the handle.
LEMMA DatasetKept == ASSUME HetInv, Next PROVE DsInv'
<1>1. TypeOK /\ DsInv /\ CountsWhole /\ BlockInv /\ TypeOK'
  BY TypesKept DEF HetInv
<1>. USE DEF DsInv, Starting, InReset, prog, poll, loop, dec, regs, board, hist
<1>2. ASSUME NEW k \in Kinds, BoardWord(k) PROVE DsInv'
  BY <1>1, <1>2 DEF BoardWord
<1>3. CASE SaveSR1 \/ EnableReset \/ PulseReset \/ ClearReset
  BY <1>1, <1>3 DEF SaveSR1, EnableReset, PulseReset, ClearReset
<1>4. CASE RestoreSR1
  BY <1>1, <1>4 DEF RestoreSR1, TypeOK
<1>5. CASE ResetAll \/ Configure \/ InitT1 \/ InitT2
  BY <1>1, <1>5 DEF ResetAll, Configure, InitT1, InitT2
<1>6. CASE Register
  BY <1>1, <1>6 DEF Register, Unset
<1>7. CASE Prime
  BY <1>1, <1>7 DEF Prime
<1>8. CASE Loop \/ AutSave \/ AutFire \/ AutRestore \/ CountTriggers
  BY <1>1, <1>8 DEF Loop, AutSave, AutFire, AutRestore, CountTriggers
<1>9. CASE Poll
  <2>1. ds \in Dataset /\ ds' \in {ds, [ds EXCEPT !.status = r6']}
    BY <1>1, <1>9 DEF Poll, TypeOK
  <2>2. ds'.fifo = ds.fifo /\ ds'.events = ds.events
    BY <2>1 DEF Dataset
  <2>. QED BY <1>1, <1>9, <2>2 DEF Poll
<1>10. CASE Check \/ DmaRead \/ DmaError \/ DecodeWord
  BY <1>1, <1>10 DEF Check, DmaRead, DmaError, DecodeWord
<1>11. CASE DecodeEnd
  <2>1. ds \in Dataset /\ ds' = [ds EXCEPT !.events = eventn, !.fifo = evtbuf]
    BY <1>1, <1>11 DEF DecodeEnd, Updated, TypeOK
  <2>2. ds'.fifo = evtbuf /\ ds'.events = eventn
    BY <2>1 DEF Dataset
  <2>3. eventn = total + WholeIn(evtbuf, Block)
    BY <1>1, <1>11 DEF DecodeEnd, CountsWhole
  <2>. QED BY <1>11, <2>2, <2>3 DEF DecodeEnd
<1>12. CASE Push \/ Crash
  BY <1>1, <1>12 DEF Push, Crash
<1>13. CASE Restart
  BY <1>13 DEF Restart, Unset
<1>. QED BY <1>2, <1>3, <1>4, <1>5, <1>6, <1>7, <1>8, <1>9, <1>10, <1>11, <1>12, <1>13
         DEF Next, Program

\* The registers.
LEMMA RegistersKept == ASSUME HetInv, Next PROVE RegInv'
<1>1. TypeOK /\ RegInv
  BY DEF HetInv
<1>. USE DEF RegInv, InReset, Right, prog, poll, loop, dec, regs, board, hist
<1>2. ASSUME NEW k \in Kinds, BoardWord(k) PROVE RegInv'
  BY <1>1, <1>2 DEF BoardWord
<1>3. CASE SaveSR1
  BY <1>1, <1>3 DEF SaveSR1, TypeOK
<1>4. CASE EnableReset
  BY <1>1, <1>4 DEF EnableReset
<1>5. CASE PulseReset
  BY <1>1, <1>5 DEF PulseReset
<1>6. CASE ClearReset
  <2>1. sr4' = {}
    BY <1>6 DEF ClearReset, WriteSR4
  <2>. QED BY <1>1, <1>6, <2>1 DEF ClearReset
<1>7. CASE RestoreSR1
  BY <1>1, <1>7 DEF RestoreSR1, TypeOK
<1>8. CASE ResetAll
  BY <1>1, <1>8 DEF ResetAll
<1>9. CASE Configure
  <2>1. sr4' = {}
    BY <1>9 DEF Configure, WriteSR4
  <2>. QED BY <1>1, <1>9, <2>1 DEF Configure
<1>10. CASE InitT1
  BY <1>1, <1>10 DEF InitT1
<1>11. CASE InitT2
  BY <1>1, <1>11 DEF InitT2
<1>12. CASE Register \/ Prime \/ Loop
  BY <1>1, <1>12 DEF Register, Prime, Loop
<1>13. CASE AutSave \/ AutFire \/ AutRestore \/ CountTriggers
  BY <1>1, <1>13 DEF AutSave, AutFire, AutRestore, CountTriggers
<1>14. CASE Poll \/ Check \/ DmaRead \/ DmaError
  BY <1>1, <1>14 DEF Poll, Check, DmaRead, DmaError
<1>15. CASE DecodeWord \/ DecodeEnd \/ Push \/ Crash
  BY <1>1, <1>15 DEF DecodeWord, DecodeEnd, Push, Crash
<1>16. CASE Restart
  BY <1>1, <1>16 DEF Restart
<1>. QED BY <1>2, <1>3, <1>4, <1>5, <1>6, <1>7, <1>8, <1>9, <1>10, <1>11, <1>12,
            <1>13, <1>14, <1>15, <1>16 DEF Next, Program

-----------------------------------------------------------------------------
(* The theorems.                                                           *)

LEMMA HetInit == ASSUME Init PROVE HetInv
<1>1. Unset \in Dataset
  BY EmptyStream DEF Unset, Dataset, Status
<1>2. TypeOK
  BY <1>1, EmptyStream, HetConstants
     DEF Init, TypeOK, Places, Status, States, Kinds
<1>3. BoardInv /\ BlockInv /\ ScanInv /\ CountsWhole /\ TriesInv
  BY EmptyStream DEF Init, BoardInv, BlockInv, ScanInv, CountsWhole, TriesInv
<1>4. DsInv /\ RegInv
  BY DEF Init, DsInv, RegInv, Unset, InReset, Starting
<1>. QED BY <1>2, <1>3, <1>4 DEF HetInv

\* The invariant of the acquisition, at every step of the program, the board, and
\* of a crash and a restart.
THEOREM HetInvariance == Spec => []HetInv
<1>1. Init => HetInv
  BY HetInit
<1>2. HetInv /\ [Next]_vars => HetInv'
  <2>1. SUFFICES ASSUME HetInv, [Next]_vars PROVE HetInv'
    OBVIOUS
  <2>2. CASE Next
    BY <2>1, <2>2, TypesKept, TriesKept, BoardKept, CountKept, DatasetKept,
       RegistersKept DEF HetInv
  <2>3. CASE UNCHANGED vars
    BY <2>1, <2>3 DEF vars, prog, poll, loop, dec, regs, board, hist, HetInv, TypeOK,
       TriesInv, BoardInv, BlockInv, ScanInv, DsInv, Starting, InReset, RegInv, Right,
       CountsWhole
  <2>. QED BY <2>1, <2>2, <2>3
<1>. QED BY <1>1, <1>2, PTL DEF Spec

\* The types of the program's and the board's state: the decoder stays inside its
\* block, the polls inside their number of tries.
THEOREM HetTypes == Spec => []TypeOK
<1>1. HetInv => TypeOK
  BY DEF HetInv
<1>. QED BY <1>1, HetInvariance, PTL

\* EVENTS counts the whole events of the blocks read and no other, wherever the
\* blocks begin and end.
THEOREM CountsWholeHolds == Spec => []CountsWhole
<1>1. HetInv => CountsWhole
  BY DEF HetInv
<1>. QED BY <1>1, HetInvariance, PTL

\* Whatever was saved and restored, and wherever the program before was killed,
\* the registers are what was configured when the program polls and reads.
THEOREM RegistersRightHolds == Spec => []RegistersRight
<1>1. HetInv => RegistersRight
  BY DEF HetInv, RegInv, RegistersRight, InReset, Right
<1>. QED BY <1>1, HetInvariance, PTL

\* The FIFO and the EVENTS the server takes are those of the last block read.
THEOREM EventsMatchFifoHolds == Spec => EventsMatchFifo
<1>1. HetInv /\ [Next]_vars => (server' # server => server'.fifo = blk /\ server'.events = total)
  <2>1. SUFFICES ASSUME HetInv, Next, server' # server
                 PROVE  server'.fifo = blk /\ server'.events = total
    BY DEF vars
  <2>2. ~(\E k \in Kinds : BoardWord(k)) /\ ~Crash /\ ~Restart
    BY <2>1 DEF BoardWord, Crash, Restart
  <2>3. ~SaveSR1 /\ ~EnableReset /\ ~PulseReset /\ ~ClearReset /\ ~RestoreSR1
    BY <2>1 DEF SaveSR1, EnableReset, PulseReset, ClearReset, RestoreSR1
  <2>4. ~ResetAll /\ ~Configure /\ ~InitT1 /\ ~InitT2 /\ ~Register
    BY <2>1 DEF ResetAll, Configure, InitT1, InitT2, Register
  <2>5. ~Loop /\ ~AutSave /\ ~AutFire /\ ~AutRestore /\ ~CountTriggers
    BY <2>1 DEF Loop, AutSave, AutFire, AutRestore, CountTriggers
  <2>6. ~Poll /\ ~Check /\ ~DmaRead /\ ~DmaError /\ ~DecodeWord /\ ~DecodeEnd
    BY <2>1 DEF Poll, Check, DmaRead, DmaError, DecodeWord, DecodeEnd
  <2>7. CASE Push
    BY <2>1, <2>7 DEF Push, Publish, HetInv, DsInv
  <2>8. CASE Prime
    <3>1. ds' = [status |-> Occupancy, events |-> eventn, fifo |-> <<>>] /\ server' = ds'
      BY <2>1, <2>8 DEF Prime, Publish
    <3>2. eventn = 0 /\ total = 0 /\ blk = <<>>
      BY <2>1, <2>8 DEF Prime, HetInv, DsInv, Starting
    <3>. QED BY <3>1, <3>2
  <2>. QED BY <2>1, <2>2, <2>3, <2>4, <2>5, <2>6, <2>7, <2>8 DEF Next, Program
<1>2. HetInv /\ [Next]_vars =>
        [server' # server => server'.fifo = blk /\ server'.events = total]_vars
  BY <1>1
<1>. QED BY <1>2, HetInvariance, PTL DEF Spec, EventsMatchFifo
=============================================================================
