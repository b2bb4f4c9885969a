------------------------------- MODULE MCLink -------------------------------
(* TLC's instances of Link: the constants are set in the .cfg files. *)
EXTENDS Link
=============================================================================
