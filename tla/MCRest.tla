------------------------------ MODULE MCRest ------------------------------
(* Instances of RestRetry.                                                *)
EXTENDS RestRetry
=============================================================================
