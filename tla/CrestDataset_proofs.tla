------------------------ MODULE CrestDataset_proofs ------------------------
(***************************************************************************)
(* Proofs about CrestDataset, for every set of attributes, length of names *)
(* and values, and header.                                                 *)
(***************************************************************************)
EXTENDS CrestDataset, SequenceTheorems, TLAPS

-----------------------------------------------------------------------------
(* Lengths.                                                                *)

LEMMA LengthTypes ==
  ASSUME NEW s \in Spec_t
  PROVE  /\ Template(s) \in Nat /\ Template(s) <= s.name + 44
         /\ Conversion(s) \in Nat
         /\ Bytes(s) \in Nat
         /\ AllocSize(s) \in Nat /\ AllocSize(s) >= 16
         /\ s.type \in Coded => AllocSize(s) = 3 * Bytes(s) + 16
         /\ Default(s) \in Nat
<1>1. s.type \in Types /\ s.size \in Nat /\ s.name \in Nat
  BY DEF Spec_t
<1>2. Template(s) \in Nat /\ Template(s) <= s.name + 44
  BY <1>1 DEF Template
<1>3. Conversion(s) \in Nat /\ Default(s) \in Nat
  BY <1>1 DEF Conversion, Default
<1>4. Bytes(s) \in Nat
  <2>1. CASE s.type = "int32vec"
    BY <1>1, <2>1 DEF Bytes
  <2>2. CASE s.type \in {"int64vec", "doublevec"}
    BY <1>1, <2>2 DEF Bytes
  <2>3. CASE ~(s.type \in {"int32vec", "int64vec", "doublevec"})
    BY <1>1, <2>3 DEF Bytes
  <2>. QED BY <2>1, <2>2, <2>3
<1>5. /\ AllocSize(s) \in Nat /\ AllocSize(s) >= 16
      /\ s.type \in Coded => AllocSize(s) = 3 * Bytes(s) + 16
  BY <1>4 DEF AllocSize
<1>. QED BY <1>2, <1>3, <1>4, <1>5

\* The base64 text of n bytes against three times n and 16.
LEMMA Base64Fits ==
  ASSUME NEW n \in Nat
  PROVE  B64Len(n) \in Nat /\ 3 * B64Len(n) <= 4 * n + 8
BY DEF B64Len

LEMMA CodedFits ==
  ASSUME NEW s \in Spec_t, s.type \in Coded
  PROVE  /\ B64Len(Bytes(s)) \in Nat
         /\ ~(B64Len(Bytes(s)) > AllocSize(s))
         /\ Bytes(s) >= s.name + 19 => Template(s) + B64Len(Bytes(s)) < AllocSize(s)
<1>1. s.name \in Nat
  BY DEF Spec_t
<1>. QED BY <1>1, LengthTypes, Base64Fits

LEMMA WrittenFits ==
  ASSUME NEW n \in Nat, NEW bound \in Nat
  PROVE  /\ Written(n, bound) \in Nat
         /\ bound > 0 => Written(n, bound) < bound
         /\ n < bound => Written(n, bound) = n
BY DEF Written

\* snprintf behind a text that was itself cut if it had to be.
LEMMA WrittenBehind ==
  ASSUME NEW n \in Nat, NEW k \in Nat, NEW bound \in Nat, bound > 0,
         NEW kept, kept = IF n < bound THEN n ELSE bound - 1
  PROVE  kept + Written(k, bound - kept) = IF n + k < bound THEN n + k ELSE bound - 1
<1>1. CASE n < bound
  BY <1>1 DEF Written
<1>2. CASE ~(n < bound)
  BY <1>2 DEF Written
<1>. QED BY <1>1, <1>2

LEMMA PrintedTypes ==
  ASSUME NEW s \in Spec_t, NEW n \in Printed(s)
  PROVE  /\ n \in Nat
         /\ s.type \in Coded => n = B64Len(Bytes(s))
<1>1. Lens \subseteq Nat
  BY DatasetAssumption
<1>2. CASE s.type \in Coded
  <2>1. Printed(s) = {B64Len(Bytes(s))}
    BY <1>2 DEF Printed, Coded, Vectors
  <2>. QED BY <2>1, <1>2, CodedFits
<1>3. CASE s.type \notin Coded
  <2>1. s.type \in Scalars
    BY <1>3 DEF Spec_t, Types
  <2>2. Printed(s) \subseteq Lens
    BY <2>1 DEF Printed, Scalars
  <2>. QED BY <1>1, <1>3, <2>2
<1>. QED BY <1>2, <1>3

-----------------------------------------------------------------------------
(* The inductive invariant.                                                *)

LEMMA InitInv == ASSUME Init PROVE DatasetInv
<1>1. attrs = <<>> /\ Len(attrs) = 0 /\ DOMAIN attrs = {} /\ attrs \in Seq(Spec_t)
  BY EmptySeq, LenProperties DEF Init
<1>2. /\ mem \in Lengths /\ alloc \in Lengths /\ text \in Lengths /\ want \in Lengths
  BY <1>1 DEF Init, Lengths
<1>. QED BY <1>1, <1>2 DEF Init, DatasetInv, TypeOK, InMemory, NeverGrows,
                           VectorWhole, BufferInv

\* What Append does to the columns of the table.
LEMMA AppendColumn ==
  ASSUME NEW n \in Nat, NEW col \in [1..n -> Nat], NEW x \in Nat
  PROVE  /\ Append(col, x) \in [1..(n + 1) -> Nat]
         /\ \A a \in 1..n : Append(col, x)[a] = col[a]
         /\ Append(col, x)[n + 1] = x
<1>1. col \in Seq(Nat) /\ Len(col) = n
  BY LenProperties, SeqDef
<1>2. /\ Append(col, x) \in Seq(Nat) /\ Len(Append(col, x)) = n + 1
      /\ Append(col, x)[n + 1] = x
      /\ \A a \in 1..n : Append(col, x)[a] = col[a]
  BY <1>1, AppendProperties
<1>3. Append(col, x) \in [1..(n + 1) -> Nat]
  BY <1>2, LenProperties
<1>. QED BY <1>2, <1>3

LEMMA DeclareKeepsInv ==
  ASSUME DatasetInv, NEW s \in Specs, Declare(s)
  PROVE  DatasetInv'
<1>. USE DEF DatasetInv, TypeOK, InMemory, NeverGrows, VectorWhole, BufferInv, Lengths
<1>1. s \in Spec_t
  BY DatasetAssumption
<1>2. /\ attrs' = Append(attrs, s) /\ attrs' \in Seq(Spec_t)
      /\ Len(attrs') = Len(attrs) + 1 /\ Len(attrs) \in Nat
      /\ DOMAIN attrs = 1..Len(attrs) /\ DOMAIN attrs' = 1..(Len(attrs) + 1)
      /\ \A a \in DOMAIN attrs : attrs'[a] = attrs[a]
      /\ attrs'[Len(attrs) + 1] = s
  BY <1>1, AppendProperties, LenProperties DEF Declare
<1>3. /\ mem' \in Lengths' /\ alloc' \in Lengths' /\ text' \in Lengths' /\ want' \in Lengths'
      /\ \A a \in DOMAIN attrs : /\ mem'[a] = mem[a] /\ alloc'[a] = alloc[a]
                                 /\ text'[a] = text[a] /\ want'[a] = want[a]
      /\ mem'[Len(attrs) + 1] = AllocSize(s) /\ alloc'[Len(attrs) + 1] = AllocSize(s)
      /\ text'[Len(attrs) + 1] = 0 /\ want'[Len(attrs) + 1] = 0
  <2>1. AllocSize(s) \in Nat /\ 0 \in Nat
    BY <1>1, LengthTypes
  <2>2. /\ mem \in [1..Len(attrs) -> Nat] /\ alloc \in [1..Len(attrs) -> Nat]
        /\ text \in [1..Len(attrs) -> Nat] /\ want \in [1..Len(attrs) -> Nat]
    OBVIOUS
  <2>3. /\ mem' = Append(mem, AllocSize(s)) /\ alloc' = Append(alloc, AllocSize(s))
        /\ text' = Append(text, 0) /\ want' = Append(want, 0)
    BY DEF Declare
  <2>10. Lengths' = [1..(Len(attrs) + 1) -> Nat] /\ DOMAIN attrs = 1..Len(attrs)
    BY ONLY <1>2 DEF Lengths
  <2>9. \A col \in [1..Len(attrs) -> Nat], x \in Nat :
          /\ Append(col, x) \in [1..(Len(attrs) + 1) -> Nat]
          /\ \A a \in 1..Len(attrs) : Append(col, x)[a] = col[a]
          /\ Append(col, x)[Len(attrs) + 1] = x
    BY ONLY <1>2, AppendColumn
  <2>4. mem' \in Lengths' /\ mem'[Len(attrs) + 1] = AllocSize(s)
        /\ \A a \in DOMAIN attrs : mem'[a] = mem[a]
    <3>1. /\ Append(mem, AllocSize(s)) \in [1..(Len(attrs) + 1) -> Nat]
          /\ \A a \in 1..Len(attrs) : Append(mem, AllocSize(s))[a] = mem[a]
          /\ Append(mem, AllocSize(s))[Len(attrs) + 1] = AllocSize(s)
      BY ONLY <2>1, <2>2, <2>9
    <3>. QED BY ONLY <2>3, <2>10, <3>1
  <2>5. alloc' \in Lengths' /\ alloc'[Len(attrs) + 1] = AllocSize(s)
        /\ \A a \in DOMAIN attrs : alloc'[a] = alloc[a]
    <3>1. /\ Append(alloc, AllocSize(s)) \in [1..(Len(attrs) + 1) -> Nat]
          /\ \A a \in 1..Len(attrs) : Append(alloc, AllocSize(s))[a] = alloc[a]
          /\ Append(alloc, AllocSize(s))[Len(attrs) + 1] = AllocSize(s)
      BY ONLY <2>1, <2>2, <2>9
    <3>. QED BY ONLY <2>3, <2>10, <3>1
  <2>6. text' \in Lengths' /\ text'[Len(attrs) + 1] = 0
        /\ \A a \in DOMAIN attrs : text'[a] = text[a]
    <3>1. /\ Append(text, 0) \in [1..(Len(attrs) + 1) -> Nat]
          /\ \A a \in 1..Len(attrs) : Append(text, 0)[a] = text[a]
          /\ Append(text, 0)[Len(attrs) + 1] = 0
      BY ONLY <2>1, <2>2, <2>9
    <3>. QED BY ONLY <2>3, <2>10, <3>1
  <2>7. want' \in Lengths' /\ want'[Len(attrs) + 1] = 0
        /\ \A a \in DOMAIN attrs : want'[a] = want[a]
    <3>1. /\ Append(want, 0) \in [1..(Len(attrs) + 1) -> Nat]
          /\ \A a \in 1..Len(attrs) : Append(want, 0)[a] = want[a]
          /\ Append(want, 0)[Len(attrs) + 1] = 0
      BY ONLY <2>1, <2>2, <2>9
    <3>. QED BY ONLY <2>3, <2>10, <3>1
  <2>. QED BY <2>4, <2>5, <2>6, <2>7
<1>4. UNCHANGED <<pc, postVars>> /\ pc = "idle"
  BY DEF Declare
<1>5. AllocSize(s) >= 16 /\ AllocSize(s) \in Nat
  BY <1>1, LengthTypes
<1>6. TypeOK'
  BY <1>2, <1>3, <1>4, EmptySeq DEF postVars
<1>7. /\ \A a \in DOMAIN attrs' : a \in DOMAIN attrs \/ a = Len(attrs) + 1
  BY <1>2
<1>8. InMemory' /\ NeverGrows'
  <2>1. ASSUME NEW a \in DOMAIN attrs' PROVE text'[a] < mem'[a] /\ alloc'[a] = AllocSize(attrs'[a])
    <3>1. CASE a \in DOMAIN attrs
      BY <1>2, <1>3, <3>1
    <3>2. CASE a = Len(attrs) + 1
      BY <1>2, <1>3, <1>5, <3>2
    <3>. QED BY <1>7, <3>1, <3>2
  <2>. QED BY <2>1
<1>9. VectorWhole'
  BY <1>2, <1>3, <1>7
<1>10. BufferInv'
  <2>1. \A a \in DOMAIN attrs' : mem'[a] = alloc'[a]
    BY <1>2, <1>3, <1>7
  <2>. QED BY <1>4, <2>1 DEF postVars
<1>. QED BY <1>6, <1>8, <1>9, <1>10

\* A value put into an attribute leaves it as large as it was.
LEMMA UpdateKeepsInv ==
  ASSUME DatasetInv, NEW a \in 1..MaxAttrs, Update(a)
  PROVE  DatasetInv'
<1>. USE DEF DatasetInv, TypeOK, InMemory, NeverGrows, VectorWhole, BufferInv, Lengths
<1>1. PICK n \in Printed(attrs[a]) :
        /\ alloc' = [alloc EXCEPT ![a] = Room(a, n)]
        /\ mem' = [mem EXCEPT ![a] = IF Room(a, n) = alloc[a] THEN mem[a] ELSE Room(a, n)]
        /\ Format(a, n, Room(a, n))
  BY DEF Update
<1>2. a \in DOMAIN attrs /\ DOMAIN attrs = 1..Len(attrs) /\ attrs[a] \in Spec_t
  BY LenProperties, ElementOfSeq DEF Update
<1>3. n \in Nat /\ (attrs[a].type \in Coded => n = B64Len(Bytes(attrs[a])))
  BY <1>1, <1>2, PrintedTypes
<1>4. Room(a, n) = alloc[a] /\ alloc[a] = AllocSize(attrs[a])
  BY <1>2, <1>3, CodedFits DEF Room
<1>5. alloc' = alloc /\ mem' = mem
  BY <1>1, <1>2, <1>4
<1>6. alloc[a] \in Nat /\ alloc[a] > 0 /\ Template(attrs[a]) + n \in Nat
  <2>1. AllocSize(attrs[a]) \in Nat /\ AllocSize(attrs[a]) >= 16 /\ Template(attrs[a]) \in Nat
    BY ONLY <1>2, LengthTypes
  <2>. QED BY ONLY <1>3, <1>4, <2>1
<1>7. /\ want' = [want EXCEPT ![a] = Template(attrs[a]) + n]
      /\ text' = [text EXCEPT ![a] = Written(Template(attrs[a]) + n, alloc[a])]
  BY <1>1, <1>4 DEF Format
<1>8. /\ Written(Template(attrs[a]) + n, alloc[a]) \in Nat
      /\ Written(Template(attrs[a]) + n, alloc[a]) < alloc[a]
      /\ Template(attrs[a]) + n < alloc[a] =>
           Written(Template(attrs[a]) + n, alloc[a]) = Template(attrs[a]) + n
  BY ONLY <1>6, WrittenFits
<1>9. attrs[a].type \in Coded /\ Bytes(attrs[a]) >= attrs[a].name + 19 =>
        Template(attrs[a]) + n < alloc[a]
  BY <1>2, <1>3, <1>4, CodedFits
<1>10. UNCHANGED <<pc, attrs, postVars>>
  BY DEF Update
<1>11. TypeOK' /\ NeverGrows' /\ BufferInv'
  BY <1>2, <1>5, <1>6, <1>7, <1>8, <1>10 DEF postVars
<1>12. InMemory'
  BY <1>2, <1>5, <1>7, <1>8, <1>10
<1>13. VectorWhole'
  BY <1>2, <1>7, <1>8, <1>9, <1>10
<1>. QED BY <1>11, <1>12, <1>13

\* The defaults leave the allocations alone, and fit as the values do.
LEMMA BeginKeepsInv ==
  ASSUME DatasetInv, NEW register \in BOOLEAN, Begin(register)
  PROVE  DatasetInv'
<1>. USE DEF DatasetInv, TypeOK, InMemory, NeverGrows, VectorWhole, BufferInv, Lengths
<1>1. /\ pc' = "sum" /\ attrs' = attrs /\ attrs # <<>> /\ mem' = mem /\ alloc' = alloc
      /\ size' = 0 /\ len' = 0 /\ head' = 0 /\ at' = 1 /\ full' = 0 /\ end' = 0
  BY DEF Begin, Defaults, attrVars
<1>2. at' \in 1..(Len(attrs) + 1)
  BY <1>1, LenProperties
<1>3. DOMAIN attrs = 1..Len(attrs) /\ \A a \in DOMAIN attrs : attrs[a] \in Spec_t
  BY LenProperties, ElementOfSeq
<1>4. CASE ~register
  BY <1>1, <1>2, <1>4 DEF Begin, attrVars
<1>5. CASE register
  <2>1. \A a \in DOMAIN attrs :
          /\ Template(attrs[a]) + Default(attrs[a]) \in Nat
          /\ alloc[a] \in Nat /\ alloc[a] > 0 /\ alloc[a] = AllocSize(attrs[a])
    <3>1. \A a \in DOMAIN attrs :
            /\ Template(attrs[a]) \in Nat /\ Default(attrs[a]) \in Nat
            /\ AllocSize(attrs[a]) \in Nat /\ AllocSize(attrs[a]) >= 16
      BY ONLY <1>3, LengthTypes
    <3>. QED BY <3>1
  <2>2. \A a \in DOMAIN attrs :
          /\ Written(Template(attrs[a]) + Default(attrs[a]), alloc[a]) \in Nat
          /\ Written(Template(attrs[a]) + Default(attrs[a]), alloc[a]) < alloc[a]
          /\ Template(attrs[a]) + Default(attrs[a]) < alloc[a] =>
               Written(Template(attrs[a]) + Default(attrs[a]), alloc[a]) =
                 Template(attrs[a]) + Default(attrs[a])
    BY ONLY <2>1, WrittenFits
  <2>3. \A a \in DOMAIN attrs :
          attrs[a].type \in Coded /\ Bytes(attrs[a]) >= attrs[a].name + 19 =>
            Template(attrs[a]) + Default(attrs[a]) < alloc[a]
    <3>1. SUFFICES ASSUME NEW a \in DOMAIN attrs, attrs[a].type \in Coded,
                          Bytes(attrs[a]) >= attrs[a].name + 19
                   PROVE  Template(attrs[a]) + Default(attrs[a]) < alloc[a]
      OBVIOUS
    <3>2. Default(attrs[a]) = 0
      BY <3>1 DEF Default, Coded, Vectors
    <3>3. attrs[a] \in Spec_t /\ alloc[a] = AllocSize(attrs[a])
      BY <1>3, <2>1
    <3>4. /\ B64Len(Bytes(attrs[a])) \in Nat
          /\ Template(attrs[a]) + B64Len(Bytes(attrs[a])) < AllocSize(attrs[a])
      BY ONLY <3>1, <3>3, CodedFits
    <3>5. Template(attrs[a]) \in Nat /\ AllocSize(attrs[a]) \in Nat
      BY ONLY <3>3, LengthTypes
    <3>. QED BY ONLY <3>2, <3>3, <3>4, <3>5
  <2>4. /\ want' = [a \in DOMAIN attrs |-> Template(attrs[a]) + Default(attrs[a])]
        /\ text' = [a \in DOMAIN attrs |->
                      Written(Template(attrs[a]) + Default(attrs[a]), alloc[a])]
    BY <1>5 DEF Begin, Defaults
  <2>5. TypeOK' /\ NeverGrows' /\ BufferInv'
    BY <1>1, <1>2, <1>3, <2>1, <2>2, <2>4
  <2>6. InMemory' /\ VectorWhole'
    BY <1>1, <1>3, <2>2, <2>3, <2>4
  <2>. QED BY <2>5, <2>6
<1>. QED BY <1>4, <1>5

\* The loops over the attributes leave the table alone.
LEMMA LoopKeepsInv ==
  ASSUME DatasetInv, Sum \/ Header \/ Dump \/ Brace \/ Posted
  PROVE  DatasetInv'
<1>. USE DEF DatasetInv, TypeOK, BufferInv
<1>1. Len(attrs) \in Nat /\ UNCHANGED attrVars
  BY LenProperties DEF Sum, Header, Dump, Brace, Posted
<1>2. InMemory' /\ NeverGrows' /\ VectorWhole' /\ Lengths' = Lengths
  BY <1>1 DEF attrVars, InMemory, NeverGrows, VectorWhole, Lengths
<1>3. CASE Sum
  <2>1. at \in DOMAIN attrs /\ attrs[at] \in Spec_t
    BY <1>3, LenProperties, ElementOfSeq DEF Sum
  <2>2. alloc[at] \in Nat /\ alloc[at] >= 16
    BY <2>1, LengthTypes DEF NeverGrows
  <2>. QED BY <1>1, <1>2, <1>3, <2>2 DEF Sum, attrVars
<1>4. CASE Header
  <2>1. PICK h \in HeadLens : head' = h /\ full' = h /\ len' = Written(h, size)
    BY <1>4 DEF Header
  <2>2. h \in Nat
    BY DatasetAssumption
  <2>3. at > 1 /\ size > 0
    BY <1>1, <1>4, EmptySeq DEF Header
  <2>. QED BY <1>1, <1>2, <1>4, <2>1, <2>2, <2>3 DEF Header, Written, attrVars
<1>5. CASE Dump
  <2>1. at \in 1..Len(attrs) /\ text[at] \in Nat /\ Comma \in Nat
    BY <1>1, <1>5 DEF Dump, Lengths, Comma
  <2>2. /\ pc = "dump" /\ pc' = "dump" /\ size > 0 /\ size \in Nat /\ len \in Nat
        /\ full \in Nat /\ len = IF full < size THEN full ELSE size - 1
    BY <1>5 DEF Dump
  <2>3. len' = len + Written(text[at] + Comma, size - len)
        /\ full' = full + text[at] + Comma /\ at' = at + 1 /\ UNCHANGED <<size, head, end>>
    BY <1>5 DEF Dump
  <2>4. len' \in Nat /\ full' \in Nat /\ len' = IF full' < size THEN full' ELSE size - 1
    <3>1. text[at] + Comma \in Nat /\ full' = full + (text[at] + Comma)
      BY ONLY <2>1, <2>2, <2>3
    <3>2. len' = IF full + (text[at] + Comma) < size THEN full + (text[at] + Comma) ELSE size - 1
      BY ONLY <2>2, <2>3, <3>1, WrittenBehind
    <3>. QED BY ONLY <2>2, <3>1, <3>2
  <2>5. at' \in 1..(Len(attrs) + 1)
    BY ONLY <1>1, <2>1, <2>3
  <2>. QED BY <1>1, <1>2, <2>2, <2>3, <2>4, <2>5 DEF attrVars
<1>6. CASE Brace
  BY <1>1, <1>2, <1>6 DEF Brace, attrVars
<1>7. CASE Posted
  BY <1>1, <1>2, <1>7 DEF Posted, attrVars, postVars
<1>. QED BY <1>3, <1>4, <1>5, <1>6, <1>7

\* The inductive invariant holds in every behaviour.
THEOREM DatasetInvariance == Spec => []DatasetInv
<1>1. Init => DatasetInv
  BY InitInv
<1>2. ASSUME DatasetInv, [Next]_vars PROVE DatasetInv'
  <2>1. CASE UNCHANGED vars
    BY <1>2, <2>1 DEF vars, attrVars, postVars, DatasetInv, TypeOK, InMemory,
                      NeverGrows, VectorWhole, BufferInv, Lengths
  <2>. QED BY <1>2, <2>1, DeclareKeepsInv, UpdateKeepsInv, BeginKeepsInv,
              LoopKeepsInv DEF Next
<1>. QED BY <1>1, <1>2, PTL DEF Spec

-----------------------------------------------------------------------------
(* The properties.                                                         *)

\* Type correctness of the table and of the loops.
THEOREM DatasetTypes == Spec => []TypeOK
<1>1. DatasetInv => TypeOK
  BY DEF DatasetInv
<1>. QED BY <1>1, DatasetInvariance, PTL

\* No value is written past the memory of its attribute.
THEOREM InMemoryHolds == Spec => []InMemory
<1>1. DatasetInv => InMemory
  BY DEF DatasetInv
<1>. QED BY <1>1, DatasetInvariance, PTL

\* update_attribute never takes the branch that grows an attribute.
THEOREM NeverGrowsHolds == Spec => []NeverGrows
<1>1. DatasetInv => NeverGrows
  BY DEF DatasetInv
<1>. QED BY <1>1, DatasetInvariance, PTL

\* Vectors and binaries that are long against their names are sent whole.
THEOREM VectorWholeHolds == Spec => []VectorWhole
<1>1. DatasetInv => VectorWhole
  BY DEF DatasetInv
<1>. QED BY <1>1, DatasetInvariance, PTL

\* What is posted is a prefix of the dataset and a brace.
THEOREM BodyIsPrefixHolds == Spec => []BodyIsPrefix
<1>1. DatasetInv => BodyIsPrefix
  BY DEF DatasetInv, BufferInv, BodyIsPrefix
<1>. QED BY <1>1, DatasetInvariance, PTL

\* The closing brace reaches at most one byte past the buffer.
THEOREM OverrunByOneHolds == Spec => []OverrunByOne
<1>1. DatasetInv => OverrunByOne
  BY DEF DatasetInv, TypeOK, BufferInv, OverrunByOne
<1>. QED BY <1>1, DatasetInvariance, PTL
=============================================================================
