------------------------------ MODULE MCNamed ------------------------------
(* Bodies for NamedPost: none, one chunk, and several, the second of which *)
(* looks like a chunk itself; sizes of one digit and of two.               *)
EXTENDS NamedPost

SomeBodies ==
  {<<>>, <<[size |-> <<"1">>, data |-> <<"a">>]>>,
   <<[size |-> <<"2">>, data |-> <<"a", "b">>],
     [size |-> <<"1", "1">>, data |-> <<"1", "nl", "a", "nl">>],
     [size |-> <<"0", "1">>, data |-> <<"0">>]>>}
=============================================================================
