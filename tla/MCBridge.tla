------------------------------ MODULE MCBridge ------------------------------
(* TLC's instances of Bridge: the constants are set in the .cfg files. *)
EXTENDS Bridge
=============================================================================
