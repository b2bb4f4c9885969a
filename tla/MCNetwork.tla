----------------------------- MODULE MCNetwork -----------------------------
(* TLC's instance of Network: a server behind another. *)
EXTENDS Network, TLC

CONSTANTS u1, u2, u3, near, far, x, X, y

MCSidOf == (u1 :> near) @@ (u2 :> near) @@ (u3 :> far)
MCBehind == (near :> {far}) @@ (far :> {})

\* Two spellings of one nickname, and another; a folded nickname is a string.
MCFold == (x :> "x") @@ (X :> "x") @@ (y :> "y")

Symmetry == Permutations({u1, u2})
=============================================================================
