------------------------------- MODULE MCPost -------------------------------
(* TLC instances of CrestPost. *)
EXTENDS CrestPost
=============================================================================
