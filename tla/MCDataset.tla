----------------------------- MODULE MCDataset -----------------------------
(* TLC instances of CrestDataset. *)
EXTENDS CrestDataset

Attr(type, n, name) == [type |-> type, size |-> n, name |-> name]

\* Every type; vectors and a binary on both sides of the length from which they are whole.
SomeSpecs ==
  {Attr("int32", 4, 2), Attr("int64", 8, 30), Attr("double", 8, 2),
   Attr("string", 8, 5), Attr("binary", 1, 1), Attr("binary", 20, 1),
   Attr("int16vec", 40, 2), Attr("int32vec", 5, 5), Attr("int32vec", 6, 5),
   Attr("doublevec", 3, 6), Attr("int64vec", 0, 1)}
=============================================================================
