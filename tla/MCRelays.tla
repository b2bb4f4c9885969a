----------------------------- MODULE MCRelays -----------------------------
(* TLC's instance of Relays. *)
EXTENDS Relays, TLC
=============================================================================
