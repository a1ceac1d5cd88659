------------------------------ MODULE MCHandle ------------------------------
(* Small instances of CrestHandle for TLC.                                 *)
EXTENDS CrestHandle

\* CUs of one output attribute, without inputs and with inputs.
BothKinds == {[outs |-> 1, ins |-> FALSE], [outs |-> 1, ins |-> TRUE]}

OutputOnly == {[outs |-> 1, ins |-> FALSE]}

\* What an int nobody assigned may hold.
AnySign == {-1, 0, 1}
=============================================================================
