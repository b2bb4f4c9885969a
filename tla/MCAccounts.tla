----------------------------- MODULE MCAccounts -----------------------------
(* TLC's instances of Accounts: two spellings of one nickname, and another. *)
EXTENDS Accounts, TLC

CONSTANTS oper, user

MCNicks == {"Alice", "alice", "bob"}
MCFold == ("Alice" :> "alice") @@ ("alice" :> "alice") @@ ("bob" :> "bob")
MCNicksOf == (oper :> {"bob"}) @@ (user :> {"Alice", "alice"})
=============================================================================
