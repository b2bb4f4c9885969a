------------------------------- MODULE Tables -------------------------------
(***************************************************************************)
(* Tables with a primary key, and std::map, as partial functions.          *)
(***************************************************************************)
EXTENDS Functions

\* f is a table with keys in S and values in T.
IsTable(f, S, T) == DOMAIN f \subseteq S /\ f \in [DOMAIN f -> T]

NoFunction == [x \in {} |-> x]

\* INSERT OR REPLACE, and DELETE.
With(f, x, v) == [y \in DOMAIN f \cup {x} |-> IF y = x THEN v ELSE f[y]]
Without(f, x) == Restrict(f, DOMAIN f \ {x})

\* INSERT OR REPLACE of every row of g.
Over(f, g) == [y \in DOMAIN f \cup DOMAIN g |-> IF y \in DOMAIN g THEN g[y] ELSE f[y]]
=============================================================================
