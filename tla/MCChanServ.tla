---------------------------- MODULE MCChanServ ----------------------------
(* TLC's instance of ChanServ: two users and the names they go by. *)
EXTENDS ChanServ, TLC

CONSTANTS oper, user

MCNicksOf == (oper :> {"ann"}) @@ (user :> {"bob", "eve"})
=============================================================================
