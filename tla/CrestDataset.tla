---------------------------- MODULE CrestDataset ----------------------------
(***************************************************************************)
(* The text buffers of a control unit in chaos_crest.c: the allocation of  *)
(* every output attribute, the formatting of a value into it, and the      *)
(* buffer push_cu_int allocates, fills and closes with a brace.            *)
(*                                                                         *)
(* A text is its length: what matters is whether it fits, where it is cut  *)
(* and which byte is written last.  A name is its length too.              *)
(***************************************************************************)
EXTENDS Integers, Sequences

CONSTANTS
  Specs,       \* attributes an application may declare
  MaxAttrs,    \* bound on the output attributes of the CU
  Lens,        \* lengths of a printed scalar or string
  HeadLens     \* lengths of the header of a body

Scalars == {"int32", "int64", "double", "string"}
Vectors == {"int16vec", "int32vec", "int64vec", "doublevec"}
Coded == Vectors \cup {"binary"}     \* sent in base64
Types == Scalars \cup Coded

\* The declared size is a number of bytes, of a vector that of its elements.
\* Not modelled: sizes whose allocation overflows an int (over 89 million), and
\* names that cut the format at its 255 characters.
Spec_t == [type: Types, size: Nat, name: Nat]

ASSUME DatasetAssumption ==
  /\ Specs \subseteq Spec_t
  /\ MaxAttrs \in Nat \ {0}
  /\ Lens \subseteq Nat
  /\ HeadLens \subseteq Nat

VARIABLES
  pc,      \* "idle", "sum", "dump", "post"
  attrs,   \* the attributes declared
  mem,     \* bytes of memory behind ds_t.data
  alloc,   \* ds_t.alloc_size
  text,    \* length of the text in it
  want,    \* length of the text the last update formatted
  size,    \* bytes of the post buffer
  len,     \* length of the text in it
  head,    \* length of the header
  at,      \* cnt, the attribute the loop has come to
  full,    \* length of the body without any bound (history)
  end      \* the number of bytes written by the final strcat reaches (history)

attrVars == <<attrs, mem, alloc, text, want>>
postVars == <<size, len, head, at, full, end>>
vars == <<pc, attrVars, postVars>>

-----------------------------------------------------------------------------
(* Lengths.                                                                *)

\* The characters of "name":format, without the conversion in it.
Template(s) == s.name + 3 +
  CASE s.type = "int32"  -> 0
    [] s.type = "int64"  -> 18
    [] s.type = "double" -> 20
    [] s.type = "string" -> 2
    [] s.type = "binary" -> 41
    [] OTHER             -> 40

\* The conversion is %d, %lld, %lf or %s.
Conversion(s) == CASE s.type = "int64"  -> 4
                   [] s.type = "double" -> 3
                   [] OTHER             -> 2

\* ds_t.size of what is sent in base64: an int16 vector counts its elements as bytes.
Bytes(s) == CASE s.type = "int32vec" -> 4 * s.size
              [] s.type \in {"int64vec", "doublevec"} -> 8 * s.size
              [] OTHER -> s.size

B64Len(n) == 4 * ((n + 2) \div 3)

\* Seeded fault: room for the elements instead of three times their bytes.
BadAllocSize(s) == IF s.type \in Coded THEN s.size + 16 ELSE 64

AllocSize(s) == IF s.type \in Coded THEN 3 * Bytes(s) + 16 ELSE 64

\* What the conversion of a value to text can yield.
Printed(s) == CASE s.type = "int32"  -> Lens \cap 1..11
                [] s.type = "int64"  -> Lens \cap 1..20
                [] s.type = "double" -> Lens \cap 8..317
                [] s.type = "string" -> Lens
                [] OTHER             -> {B64Len(Bytes(s))}

\* register_cu formats 0, 1.2 or "".
Default(s) == CASE s.type \in {"int32", "int64"} -> 1
                [] s.type = "double" -> 8
                [] OTHER -> 0

\* Seeded fault: sprintf.
BadWritten(n, bound) == n

\* The length snprintf leaves of n characters in bound bytes.
Written(n, bound) == IF n < bound THEN n ELSE IF bound > 0 THEN bound - 1 ELSE 0

-----------------------------------------------------------------------------
Init ==
  /\ pc = "idle"
  /\ attrs = <<>> /\ mem = <<>> /\ alloc = <<>> /\ text = <<>> /\ want = <<>>
  /\ size = 0 /\ len = 0 /\ head = 0 /\ at = 1 /\ full = 0 /\ end = 0

\* One round of the loop of chaos_crest_add_cu.
Declare(s) ==
  /\ pc = "idle" /\ size = 0 /\ Len(attrs) < MaxAttrs
  /\ attrs' = Append(attrs, s)
  /\ mem' = Append(mem, AllocSize(s)) /\ alloc' = Append(alloc, AllocSize(s))
  /\ text' = Append(text, 0) /\ want' = Append(want, 0)
  /\ UNCHANGED <<pc, postVars>>

\* snprintf of a value of n characters into ds_t.data.
Format(a, n, bound) ==
  /\ want' = [want EXCEPT ![a] = Template(attrs[a]) + n]
  /\ text' = [text EXCEPT ![a] = Written(Template(attrs[a]) + n, bound)]

\* The size of the allocation when a text of n characters is put into it: one in
\* base64 that is longer makes it grow, by the difference and the length of the
\* format.
Room(a, n) ==
  IF attrs[a].type \in Coded /\ n > alloc[a]
    THEN n + Template(attrs[a]) + Conversion(attrs[a]) ELSE alloc[a]

Update(a) ==
  /\ pc = "idle" /\ a \in DOMAIN attrs
  /\ \E n \in Printed(attrs[a]) :
       /\ alloc' = [alloc EXCEPT ![a] = Room(a, n)]
       /\ mem' = [mem EXCEPT ![a] = IF Room(a, n) = alloc[a] THEN @ ELSE Room(a, n)]
       /\ Format(a, n, Room(a, n))
  /\ UNCHANGED <<pc, attrs, postVars>>

\* The loop of register_cu; it leaves the allocations alone.
Defaults ==
  /\ want' = [a \in DOMAIN attrs |-> Template(attrs[a]) + Default(attrs[a])]
  /\ text' = [a \in DOMAIN attrs |->
                Written(Template(attrs[a]) + Default(attrs[a]), alloc[a])]
  /\ UNCHANGED <<attrs, mem, alloc>>

\* push_cu_int, from register_cu or from a push: the buffer is as long as the
\* allocations together.
Begin(register) ==
  /\ pc = "idle" /\ attrs # <<>>
  /\ pc' = "sum"
  /\ IF register THEN Defaults ELSE UNCHANGED attrVars
  /\ size' = 0 /\ len' = 0 /\ head' = 0 /\ at' = 1 /\ full' = 0 /\ end' = 0

Sum ==
  /\ pc = "sum" /\ at <= Len(attrs)
  /\ size' = size + alloc[at]
  /\ at' = at + 1
  /\ UNCHANGED <<pc, attrVars, len, head, full, end>>

Header ==
  /\ pc = "sum" /\ at > Len(attrs)
  /\ pc' = "dump"
  /\ \E h \in HeadLens : head' = h /\ full' = h /\ len' = Written(h, size)
  /\ at' = 1
  /\ UNCHANGED <<attrVars, size, end>>

Comma == IF at = Len(attrs) THEN 0 ELSE 1

\* Seeded faults: every attribute may fill the whole buffer; one that does not
\* fit is left out.
BadDumpBound ==
  /\ pc = "dump" /\ at <= Len(attrs)
  /\ len' = len + Written(text[at] + Comma, size)
  /\ full' = full + text[at] + Comma
  /\ at' = at + 1
  /\ UNCHANGED <<pc, attrVars, size, head, end>>

BadDumpSkips ==
  /\ pc = "dump" /\ at <= Len(attrs)
  /\ len' = IF text[at] + Comma < size - len THEN len + text[at] + Comma ELSE len
  /\ full' = full + text[at] + Comma
  /\ at' = at + 1
  /\ UNCHANGED <<pc, attrVars, size, head, end>>

\* dump_attribute_value behind what the buffer holds.
Dump ==
  /\ pc = "dump" /\ at <= Len(attrs)
  /\ len' = len + Written(text[at] + Comma, size - len)
  /\ full' = full + text[at] + Comma
  /\ at' = at + 1
  /\ UNCHANGED <<pc, attrVars, size, head, end>>

\* strcat, without a bound: the brace and its NUL.
Brace ==
  /\ pc = "dump" /\ at > Len(attrs)
  /\ pc' = "post"
  /\ end' = len + 2
  /\ UNCHANGED <<attrVars, size, len, head, at, full>>

\* http_post returns and the buffer is freed.
Posted == pc = "post" /\ pc' = "idle" /\ UNCHANGED <<attrVars, postVars>>

Next ==
  \/ \E s \in Specs : Declare(s)
  \/ \E a \in 1..MaxAttrs : Update(a)
  \/ \E register \in BOOLEAN : Begin(register)
  \/ Sum \/ Header \/ Dump \/ Brace \/ Posted

Spec == Init /\ [][Next]_vars

-----------------------------------------------------------------------------
(* Properties.                                                             *)

Lengths == [1..Len(attrs) -> Nat]

TypeOK ==
  /\ pc \in {"idle", "sum", "dump", "post"}
  /\ attrs \in Seq(Spec_t)
  /\ mem \in Lengths /\ alloc \in Lengths /\ text \in Lengths /\ want \in Lengths
  /\ size \in Nat /\ len \in Nat /\ head \in Nat /\ full \in Nat /\ end \in Nat
  /\ at \in 1..(Len(attrs) + 1)
  /\ pc # "idle" => attrs # <<>>

\* The text of an attribute and its NUL are inside the memory behind it,
\* whatever was written into it and however it grew.
InMemory == \A a \in DOMAIN attrs : text[a] < mem[a]

\* The branch of update_attribute that makes an attribute grow is never taken:
\* three times the bytes and 16 are always more than their base64 text.
NeverGrows == \A a \in DOMAIN attrs : alloc[a] = AllocSize(attrs[a])

\* A vector or a binary of at least 19 bytes more than its name has letters is
\* never cut.  (A shorter one is: the allocation does not count the format.)
VectorWhole ==
  \A a \in DOMAIN attrs :
    attrs[a].type \in Coded /\ Bytes(attrs[a]) >= attrs[a].name + 19 => text[a] = want[a]

\* What is posted is a prefix of header and attributes, as long as the buffer
\* allows, and a brace: once something is cut, nothing follows it.
BodyIsPrefix ==
  pc = "post" => len = IF full < size THEN full ELSE size - 1

\* The brace that ends the body is written without a bound, but at most its
\* NUL falls outside the buffer, and only if the body had filled it.
OverrunByOne ==
  pc = "post" => end <= size + 1 /\ (end = size + 1 => full >= size - 1)

-----------------------------------------------------------------------------
(* The inductive invariant behind them.                                    *)

\* What the buffer holds while the loop is writing.
BufferInv ==
  /\ \A a \in DOMAIN attrs : mem[a] = alloc[a]
  /\ pc \in {"dump", "post"} => size > 0 /\ len = IF full < size THEN full ELSE size - 1
  /\ pc = "sum" => (at > 1 => size > 0)
  /\ pc = "post" => end = len + 2

DatasetInv == TypeOK /\ InMemory /\ NeverGrows /\ VectorWhole /\ BufferInv
=============================================================================
