------------------------------ MODULE MCBase64 ------------------------------
(* TLC instances of Base64. *)
EXTENDS Base64, SequencesExt

\* Every input of up to seven bytes of three kinds, every text of up to six
\* characters with a few of the table, '=' and one not in it.
ShortInputs == SeqOf({0, 93, 255}, 7)
ShortTexts == SeqOf({0, 37, 63, Pad, Other}, 6)
=============================================================================
