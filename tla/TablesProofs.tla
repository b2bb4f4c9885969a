---------------------------- MODULE TablesProofs ----------------------------
(***************************************************************************)
(* What the operators of Tables preserve.                                  *)
(***************************************************************************)
EXTENDS Tables, TLAPS

\* Being a table, from a domain and its values.
LEMMA IsTableIntro ==
  ASSUME NEW S, NEW T, NEW D \in SUBSET S, NEW f \in [D -> T]
  PROVE  IsTable(f, S, T)
BY DEF IsTable

\* What being a table gives: the keys and the values.
LEMMA IsTableElim ==
  ASSUME NEW S, NEW T, NEW f, IsTable(f, S, T)
  PROVE  DOMAIN f \subseteq S /\ f \in [DOMAIN f -> T]
BY DEF IsTable

\* Adding or replacing one entry stays within the type.
LEMMA WithType ==
  ASSUME NEW S, NEW T, NEW f, IsTable(f, S, T), NEW x \in S, NEW v \in T
  PROVE  IsTable(With(f, x, v), S, T)
<1>1. DOMAIN f \subseteq S /\ f \in [DOMAIN f -> T]
  BY IsTableElim
<1>2. With(f, x, v) \in [DOMAIN f \cup {x} -> T]
  BY <1>1 DEF With
<1>3. DOMAIN f \cup {x} \in SUBSET S
  BY <1>1
<1> HIDE DEF With
<1> QED BY <1>2, <1>3, IsTableIntro

\* Removing one entry stays within the type.
LEMMA WithoutType ==
  ASSUME NEW S, NEW T, NEW f, IsTable(f, S, T), NEW x
  PROVE  IsTable(Without(f, x), S, T)
<1>1. DOMAIN f \subseteq S /\ f \in [DOMAIN f -> T]
  BY IsTableElim
<1>2. Without(f, x) \in [DOMAIN f \ {x} -> T]
  BY <1>1 DEF Without, Restrict
<1>3. DOMAIN f \ {x} \in SUBSET S
  BY <1>1
<1> HIDE DEF Without
<1> QED BY <1>2, <1>3, IsTableIntro

\* The empty table has every type.
LEMMA NoFunctionType ==
  ASSUME NEW S, NEW T
  PROVE  IsTable(NoFunction, S, T)
<1>1. NoFunction \in [{} -> T]
  BY DEF NoFunction
<1> QED BY <1>1, IsTableIntro

\* UPDATE: a key that is there keeps its place.
LEMMA ExceptType ==
  ASSUME NEW S, NEW T, NEW f, IsTable(f, S, T), NEW x, NEW v,
         x \in DOMAIN f => v \in T
  PROVE  IsTable([f EXCEPT ![x] = v], S, T)
<1>1. DOMAIN f \subseteq S /\ f \in [DOMAIN f -> T]
  BY IsTableElim
<1>2. [f EXCEPT ![x] = v] \in [DOMAIN f -> T]
  BY <1>1
<1> QED BY <1>1, <1>2, IsTableIntro

\* Several rows at once stay within the type.
LEMMA OverType ==
  ASSUME NEW S, NEW T, NEW f, IsTable(f, S, T), NEW g, IsTable(g, S, T)
  PROVE  IsTable(Over(f, g), S, T)
<1>1. DOMAIN f \subseteq S /\ f \in [DOMAIN f -> T]
  BY IsTableElim
<1>2. DOMAIN g \subseteq S /\ g \in [DOMAIN g -> T]
  BY IsTableElim
<1>3. Over(f, g) \in [DOMAIN f \cup DOMAIN g -> T]
  BY <1>1, <1>2 DEF Over
<1>4. DOMAIN f \cup DOMAIN g \in SUBSET S
  BY <1>1, <1>2
<1> HIDE DEF Over
<1> QED BY <1>3, <1>4, IsTableIntro

\* Keeping some rows stays within the type.
LEMMA RestrictType ==
  ASSUME NEW S, NEW T, NEW f, IsTable(f, S, T), NEW D \in SUBSET DOMAIN f
  PROVE  IsTable(Restrict(f, D), S, T)
<1>1. DOMAIN f \subseteq S /\ f \in [DOMAIN f -> T]
  BY IsTableElim
<1>2. Restrict(f, D) \in [D -> T]
  BY <1>1 DEF Restrict
<1> HIDE DEF Restrict
<1> QED BY <1>1, <1>2, IsTableIntro
=============================================================================
