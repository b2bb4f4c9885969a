------------------------------ MODULE MCBots ------------------------------
(* TLC's instance of Bots: bots, and users on two servers. *)
EXTENDS Bots, TLC

CONSTANTS u1, u2, s1, s2

MCSidOf == (u1 :> s1) @@ (u2 :> s2)

\* Bots and nicknames are alike, and so are the two users with their servers.
Swap == (u1 :> u2) @@ (u2 :> u1) @@ (s1 :> s2) @@ (s2 :> s1)
Symmetry == Permutations(BotNames) \cup Permutations(Nicks) \cup {Swap}
=============================================================================
