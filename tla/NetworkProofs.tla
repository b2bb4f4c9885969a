--------------------------- MODULE NetworkProofs ---------------------------
(***************************************************************************)
(* Theorems about Network, for any number of users, servers and nicknames. *)
(***************************************************************************)
EXTENDS Network, TablesProofs, TLAPS

-----------------------------------------------------------------------------
(* The parts of the invariant.                                             *)

User == [nick : Names, mode : BOOLEAN, opertype : BOOLEAN]

ModelTypes ==
  /\ IsTable(users_, Uids, User)
  /\ IsTable(nicks_, Folded \cup Uids, Uids)

IrcdTypes ==
  /\ link \in {"down", "burst", "linked"}
  /\ due \subseteq DOMAIN there
  /\ IsTable(there, Uids, [nick : Names, oper : BOOLEAN])
  /\ saved \subseteq DOMAIN there

\* An entry of the index is of a user that has the nickname in the model.
IndexSound ==
  \A f \in DOMAIN nicks_ :
    nicks_[f] \in DOMAIN users_ /\ FoldOf(users_[nicks_[f]].nick) = f

\* The model agrees with the network on u.
Known(u) ==
  /\ u \in DOMAIN users_
  /\ u \notin saved => users_[u].nick = there[u].nick
  /\ there[u].oper => users_[u].mode \/ users_[u].opertype

\* In a session, it does on everybody we were told of.
Told ==
  /\ link # "burst" => due = {}
  /\ link # "down" => \A u \in DOMAIN there \ due : Known(u)

Model == ModelTypes /\ IndexSound
IInv == Model /\ IrcdTypes /\ Told

\* What the tables hold.
LEMMA Values ==
  /\ ModelTypes => /\ DOMAIN users_ \subseteq Uids /\ users_ \in [DOMAIN users_ -> User]
                   /\ DOMAIN nicks_ \subseteq Folded \cup Uids /\ nicks_ \in [DOMAIN nicks_ -> Uids]
  /\ IrcdTypes => /\ DOMAIN there \subseteq Uids
                  /\ there \in [DOMAIN there -> [nick : Names, oper : BOOLEAN]]
BY IsTableElim DEF ModelTypes, IrcdTypes

\* A nickname folds to a folded one, a uid to itself.
LEMMA FoldType ==
  ASSUME NEW n \in Names
  PROVE  FoldOf(n) \in Folded \cup Uids
BY NetworkAssumption DEF FoldOf, Names

-----------------------------------------------------------------------------
(* What the functions of network.cpp preserve.                             *)

\* The index loses one entry, users stay as they are but for u, and no other
\* entry is of u: u may be changed.
LEMMA EntryErased ==
  ASSUME Model, NEW u \in DOMAIN users_
  PROVE  LET w == Without(nicks_, FoldOf(users_[u].nick))
         IN  /\ IsTable(w, Folded \cup Uids, Uids)
             /\ DOMAIN w \subseteq DOMAIN nicks_
             /\ \A f \in DOMAIN w : w[f] = nicks_[f] /\ w[f] # u
<1>1. IsTable(Without(nicks_, FoldOf(users_[u].nick)), Folded \cup Uids, Uids)
  BY WithoutType DEF Model, ModelTypes
<1> QED BY <1>1 DEF Model, IndexSound, Without, Restrict

\* add_user keeps the index sound, and touches no other user.
LEMMA AddKeeps ==
  ASSUME Model, NEW u \in Uids, NEW n \in Names, NEW o \in BOOLEAN, AddUser(u, n, o)
  PROVE  /\ Model'
         /\ u \in DOMAIN users_' /\ users_'[u] = [nick |-> n, mode |-> o, opertype |-> o]
         /\ \A v \in DOMAIN users_ \ {u} : v \in DOMAIN users_' /\ users_'[v] = users_[v]
<1> DEFINE r == [nick |-> n, mode |-> o, opertype |-> o]
<1>1. users_' = With(users_, u, r) /\ r \in User
  BY DEF AddUser, User
<1>2. /\ DOMAIN users_' = DOMAIN users_ \cup {u}
      /\ users_'[u] = r
      /\ \A v \in DOMAIN users_ \ {u} : users_'[v] = users_[v]
  BY <1>1 DEF With
<1>3. IsTable(users_', Uids, User)
  BY <1>1, WithType DEF Model, ModelTypes
<1>4. CASE u \notin DOMAIN users_
  <2>1. nicks_' = With(nicks_, FoldOf(n), u)
    BY <1>4 DEF AddUser, Indexed
  <2>2. IsTable(nicks_', Folded \cup Uids, Uids)
    BY <2>1, FoldType, WithType DEF Model, ModelTypes
  <2>3. IndexSound'
    BY <1>2, <1>4, <2>1 DEF Model, IndexSound, With
  <2> QED BY <1>2, <1>3, <2>2, <2>3 DEF Model, ModelTypes
<1>5. CASE u \in DOMAIN users_ /\ users_[u].nick # n
  <2>1. nicks_' = Without(nicks_, FoldOf(users_[u].nick))
    BY <1>5 DEF AddUser, Indexed
  <2>2. /\ IsTable(nicks_', Folded \cup Uids, Uids)
        /\ DOMAIN nicks_' \subseteq DOMAIN nicks_
        /\ \A f \in DOMAIN nicks_' : nicks_'[f] = nicks_[f] /\ nicks_'[f] # u
    BY <1>5, <2>1, EntryErased
  <2>3. IndexSound'
    BY <1>2, <2>2 DEF Model, IndexSound
  <2> QED BY <1>2, <1>3, <2>2, <2>3 DEF Model, ModelTypes
<1>6. CASE u \in DOMAIN users_ /\ users_[u].nick = n
  <2>1. nicks_' = nicks_
    BY <1>6 DEF AddUser, Indexed
  <2>2. IndexSound'
    BY <1>2, <1>6, <2>1 DEF Model, IndexSound
  <2> QED BY <1>2, <1>3, <2>1, <2>2 DEF Model, ModelTypes
<1> QED BY <1>4, <1>5, <1>6

\* So does rename_user.
LEMMA RenameKeeps ==
  ASSUME Model, NEW u \in DOMAIN users_, NEW n \in Names,
         nicks_' = Reindexed(u, n), users_' = [users_ EXCEPT ![u].nick = n]
  PROVE  /\ Model'
         /\ DOMAIN users_' = DOMAIN users_
         /\ users_'[u] = [users_[u] EXCEPT !.nick = n]
         /\ \A v \in DOMAIN users_ \ {u} : users_'[v] = users_[v]
<1> DEFINE w == Without(nicks_, FoldOf(users_[u].nick))
<1>1. DOMAIN users_ \subseteq Uids /\ users_ \in [DOMAIN users_ -> User]
  BY Values DEF Model
<1>2. /\ IsTable(w, Folded \cup Uids, Uids)
      /\ DOMAIN w \subseteq DOMAIN nicks_
      /\ \A f \in DOMAIN w : w[f] = nicks_[f] /\ w[f] # u
  BY EntryErased
<1>3. /\ DOMAIN users_' = DOMAIN users_
      /\ users_'[u] = [users_[u] EXCEPT !.nick = n]
      /\ \A v \in DOMAIN users_ \ {u} : users_'[v] = users_[v]
  BY <1>1
<1>4. [users_[u] EXCEPT !.nick = n] \in User /\ users_'[u].nick = n
  BY <1>1, <1>3 DEF User
<1>5. users_' \in [DOMAIN users_ -> User]
  BY <1>1, <1>3, <1>4
<1>6. IsTable(users_', Uids, User)
  BY <1>1, <1>5, IsTableIntro
<1>7. nicks_' = With(w, FoldOf(n), u)
  BY DEF Reindexed
<1> HIDE DEF w
<1>8. IsTable(nicks_', Folded \cup Uids, Uids)
  <2>1. u \in Uids /\ FoldOf(n) \in Folded \cup Uids
    BY <1>1, FoldType
  <2>2. IsTable(With(w, FoldOf(n), u), Folded \cup Uids, Uids)
    BY <1>2, <2>1, WithType
  <2> QED BY <1>7, <2>2
<1>9. IndexSound'
  BY <1>2, <1>3, <1>4, <1>7 DEF Model, IndexSound, With
<1> QED BY <1>3, <1>6, <1>8, <1>9 DEF Model, ModelTypes

\* So does removing users.
LEMMA RemoveKeeps ==
  ASSUME Model, NEW S \in SUBSET Uids, RemoveUsers(S)
  PROVE  /\ Model'
         /\ \A v \in DOMAIN users_ \ S : v \in DOMAIN users_' /\ users_'[v] = users_[v]
<1>1. /\ users_' = Restrict(users_, DOMAIN users_ \ S)
      /\ nicks_' = Restrict(nicks_, DOMAIN nicks_ \ {FoldOf(users_[u].nick) : u \in S \cap DOMAIN users_})
  BY DEF RemoveUsers, Unindexed
<1>2. ModelTypes'
  BY <1>1, RestrictType DEF Model, ModelTypes
<1>3. /\ DOMAIN users_' = DOMAIN users_ \ S
      /\ \A v \in DOMAIN users_ \ S : users_'[v] = users_[v]
      /\ DOMAIN nicks_' = DOMAIN nicks_ \ {FoldOf(users_[u].nick) : u \in S \cap DOMAIN users_}
      /\ \A f \in DOMAIN nicks_' : nicks_'[f] = nicks_[f]
  BY <1>1 DEF Restrict
<1>4. IndexSound'
  <2> SUFFICES ASSUME NEW f \in DOMAIN nicks_'
               PROVE  nicks_'[f] \in DOMAIN users_' /\ FoldOf(users_'[nicks_'[f]].nick) = f
    BY DEF IndexSound
  <2>1. f \in DOMAIN nicks_ /\ nicks_[f] \in DOMAIN users_ /\ FoldOf(users_[nicks_[f]].nick) = f
    BY <1>3 DEF Model, IndexSound
  <2>2. nicks_[f] \notin S
    BY <1>3, <2>1
  <2> QED BY <1>3, <2>1, <2>2
<1> QED BY <1>2, <1>3, <1>4 DEF Model

\* So does a change of modes or of the oper class.
LEMMA FlagsKeep ==
  ASSUME Model, NEW u \in DOMAIN users_, NEW b \in BOOLEAN, nicks_' = nicks_,
         \/ users_' = [users_ EXCEPT ![u].mode = b]
         \/ users_' = [users_ EXCEPT ![u].opertype = b]
  PROVE  /\ Model'
         /\ DOMAIN users_' = DOMAIN users_
         /\ users_'[u].nick = users_[u].nick
         /\ users_' = [users_ EXCEPT ![u].opertype = b] => users_'[u].opertype = b
         /\ \A v \in DOMAIN users_ \ {u} : users_'[v] = users_[v]
<1>1. DOMAIN users_ \subseteq Uids /\ users_ \in [DOMAIN users_ -> User]
  BY Values DEF Model
<1>2. users_[u] \in User
  BY <1>1
<1>3. /\ DOMAIN users_' = DOMAIN users_
      /\ users_'[u] \in User /\ users_'[u].nick = users_[u].nick
      /\ users_' = [users_ EXCEPT ![u].opertype = b] => users_'[u].opertype = b
      /\ \A v \in DOMAIN users_ \ {u} : users_'[v] = users_[v]
  BY <1>1, <1>2 DEF User
<1>4. users_' \in [DOMAIN users_ -> User]
  BY <1>1, <1>3
<1>5. IsTable(users_', Uids, User)
  BY <1>1, <1>4, IsTableIntro
<1>6. IndexSound'
  BY <1>3 DEF Model, IndexSound
<1> QED BY <1>3, <1>5, <1>6 DEF Model, ModelTypes

-----------------------------------------------------------------------------
(* What the ircd's users do.                                               *)

\* In a session but for a burst, everybody there is known.
LEMMA AllKnown ==
  ASSUME IInv, link = "linked"
  PROVE  /\ due = {}
         /\ \A u \in DOMAIN there : Known(u)
BY DEF IInv, Told

\* While the link is down, what the ircd's users do needs to leave only the
\* ircd's types.
LEMMA DownKeeps ==
  ASSUME IInv, link = "down", UNCHANGED <<users_, nicks_, link, due>>, IrcdTypes'
  PROVE  IInv'
<1>1. Model'
  BY DEF IInv, Model, ModelTypes, IndexSound
<1>2. Told'
  BY DEF IInv, Told
<1> QED BY <1>1, <1>2 DEF IInv

\* While linked, it needs the ircd's types, a model in order, and everybody known.
LEMMA LinkedKeeps ==
  ASSUME IInv, link = "linked", UNCHANGED <<link, due>>, IrcdTypes', Model',
         \A u \in DOMAIN there' : Known(u)'
  PROVE  IInv'
<1>1. due = {}
  BY AllKnown
<1>2. Told'
  BY <1>1 DEF Told
<1> QED BY <1>2 DEF IInv

\* Settled is down or linked.
LEMMA SettledCases ==
  ASSUME IInv, Settled
  PROVE  (link = "down" \/ link = "linked") /\ due = {}
BY DEF IInv, IrcdTypes, Settled, Told

\* The ircd's users stay of their type when one is added or replaced, ...
LEMMA ThereWith ==
  ASSUME IInv, NEW u \in Uids, NEW r \in [nick : Names, oper : BOOLEAN],
         there' = With(there, u, r), UNCHANGED <<link, due>>, saved' \subseteq saved
  PROVE  IrcdTypes'
<1>1. IsTable(there', Uids, [nick : Names, oper : BOOLEAN])
  BY WithType DEF IInv, IrcdTypes
<1>2. DOMAIN there' = DOMAIN there \cup {u}
  BY DEF With
<1> QED BY <1>1, <1>2 DEF IInv, IrcdTypes

\* ... or changed, ...
LEMMA ThereExcept ==
  ASSUME IInv, NEW u \in DOMAIN there, NEW r \in [nick : Names, oper : BOOLEAN],
         there' = [there EXCEPT ![u] = r], UNCHANGED <<link, due>>, saved' \subseteq saved \cup {u}
  PROVE  IrcdTypes'
<1>1. IsTable(there', Uids, [nick : Names, oper : BOOLEAN])
  BY ExceptType DEF IInv, IrcdTypes
<1>2. DOMAIN there' = DOMAIN there
  OBVIOUS
<1> QED BY <1>1, <1>2 DEF IInv, IrcdTypes

\* ... or when some go, outside a burst.
LEMMA ThereGone ==
  ASSUME IInv, NEW S, Gone(S), due = {}, UNCHANGED <<link, due>>
  PROVE  /\ IrcdTypes'
         /\ DOMAIN there' = DOMAIN there \ S
         /\ \A v \in DOMAIN there' : there'[v] = there[v]
         /\ saved' = saved \ S
<1>1. there' = Restrict(there, DOMAIN there \ S) /\ saved' = saved \ S
  BY DEF Gone
<1>2. IsTable(there', Uids, [nick : Names, oper : BOOLEAN])
  BY <1>1, RestrictType DEF IInv, IrcdTypes
<1>3. /\ DOMAIN there' = DOMAIN there \ S
      /\ \A v \in DOMAIN there' : there'[v] = there[v]
  BY <1>1 DEF Restrict
<1> QED BY <1>1, <1>2, <1>3 DEF IInv, IrcdTypes

\* A user connects.
LEMMA ConnectsKeeps ==
  ASSUME IInv, NEW u \in Uids, NEW n \in Nicks, Connects(u, n)
  PROVE  IInv'
<1> DEFINE r == [nick |-> n, oper |-> FALSE]
<1>1. /\ u \notin DOMAIN there /\ there' = With(there, u, r)
      /\ UNCHANGED <<link, due, saved>>
      /\ IfLinked(AddUser(u, n, FALSE))
  BY DEF Connects
<1>2. r \in [nick : Names, oper : BOOLEAN] /\ n \in Names
  BY DEF Names
<1>3. IrcdTypes'
  BY <1>1, <1>2, ThereWith
<1>4. /\ DOMAIN there' = DOMAIN there \cup {u} /\ there'[u] = r
      /\ \A v \in DOMAIN there : there'[v] = there[v]
  BY <1>1 DEF With
<1>5. CASE link = "linked"
  <2>1. /\ Model'
        /\ u \in DOMAIN users_' /\ users_'[u] = [nick |-> n, mode |-> FALSE, opertype |-> FALSE]
        /\ \A v \in DOMAIN users_ \ {u} : v \in DOMAIN users_' /\ users_'[v] = users_[v]
    BY <1>1, <1>2, <1>5, AddKeeps DEF IInv, IfLinked
  <2>2. \A v \in DOMAIN there' : Known(v)'
    <3>1. Known(u)'
      BY <1>4, <2>1 DEF Known
    <3>2. ASSUME NEW v \in DOMAIN there
          PROVE  Known(v)'
      <4>1. v # u /\ Known(v)
        BY <1>1, <1>5, AllKnown
      <4> QED BY <1>1, <1>4, <2>1, <4>1 DEF Known
    <3> QED BY <1>4, <3>1, <3>2
  <2> QED BY <1>1, <1>3, <1>5, <2>1, <2>2, LinkedKeeps
<1>6. CASE link = "down"
  BY <1>1, <1>3, <1>6, DownKeeps DEF IfLinked
<1> QED BY <1>5, <1>6, SettledCases DEF Connects

\* A user takes another nickname.
LEMMA RenamesKeeps ==
  ASSUME IInv, NEW u \in Uids, NEW n \in Nicks, Renames(u, n)
  PROVE  IInv'
<1> DEFINE r == [there[u] EXCEPT !.nick = n]
<1>1. /\ u \in DOMAIN there /\ there' = [there EXCEPT ![u].nick = n]
      /\ saved' = saved \ {u}
      /\ UNCHANGED <<link, due>>
  BY DEF Renames
<1>2. there \in [DOMAIN there -> [nick : Names, oper : BOOLEAN]] /\ n \in Names
  BY Values DEF IInv, Names
<1>3. r \in [nick : Names, oper : BOOLEAN] /\ there' = [there EXCEPT ![u] = r]
  BY <1>1, <1>2
<1>4. IrcdTypes'
  BY <1>1, <1>3, ThereExcept
<1>5. /\ DOMAIN there' = DOMAIN there
      /\ there'[u].nick = n /\ there'[u].oper = there[u].oper
      /\ \A v \in DOMAIN there \ {u} : there'[v] = there[v]
  BY <1>1, <1>2
<1>6. CASE link = "linked"
  <2>1. \A v \in DOMAIN there : Known(v)
    BY <1>6, AllKnown
  <2>2. u \in DOMAIN users_ /\ nicks_' = Reindexed(u, n) /\ users_' = [users_ EXCEPT ![u].nick = n]
    BY <1>1, <1>6, <2>1 DEF Renames, IfLinked, Known
  <2>3. /\ Model'
        /\ DOMAIN users_' = DOMAIN users_
        /\ users_'[u] = [users_[u] EXCEPT !.nick = n]
        /\ \A v \in DOMAIN users_ \ {u} : users_'[v] = users_[v]
    BY <1>2, <2>2, RenameKeeps DEF IInv
  <2>4. users_[u] \in User
    BY <2>2, Values DEF IInv, Model
  <2>5. users_'[u].nick = n /\ users_'[u].mode = users_[u].mode
        /\ users_'[u].opertype = users_[u].opertype
    BY <2>3, <2>4 DEF User
  <2>6. \A v \in DOMAIN there' : Known(v)'
    <3>1. Known(u)'
      BY <1>1, <1>5, <2>1, <2>2, <2>3, <2>5 DEF Known
    <3>2. \A v \in DOMAIN there \ {u} : Known(v)'
      BY <1>1, <1>5, <2>1, <2>3 DEF Known
    <3> QED BY <1>5, <3>1, <3>2
  <2> QED BY <1>1, <1>4, <1>6, <2>3, <2>6, LinkedKeeps
<1>7. CASE link = "down"
  BY <1>1, <1>4, <1>7, DownKeeps DEF Renames, IfLinked
<1> QED BY <1>6, <1>7, SettledCases DEF Renames

\* A user is given its uid for a nickname.
LEMMA SavesKeeps ==
  ASSUME IInv, NEW u \in Uids, Saves(u)
  PROVE  IInv'
<1> DEFINE r == [there[u] EXCEPT !.nick = u]
<1>1. /\ u \in DOMAIN there /\ there' = [there EXCEPT ![u].nick = u]
      /\ saved' = IF link = "linked" THEN saved \cup {u} ELSE saved
      /\ UNCHANGED <<users_, nicks_, link, due>>
  BY DEF Saves
<1>2. there \in [DOMAIN there -> [nick : Names, oper : BOOLEAN]] /\ u \in Names
  BY Values DEF IInv, Names
<1>3. r \in [nick : Names, oper : BOOLEAN] /\ there' = [there EXCEPT ![u] = r]
  BY <1>1, <1>2
<1>4. IrcdTypes'
  BY <1>1, <1>3, ThereExcept
<1>5. /\ DOMAIN there' = DOMAIN there /\ there'[u].oper = there[u].oper
      /\ \A v \in DOMAIN there \ {u} : there'[v] = there[v]
  BY <1>1, <1>2
<1>6. CASE link = "linked"
  <2>1. \A v \in DOMAIN there : Known(v)
    BY <1>6, AllKnown
  <2>2. \A v \in DOMAIN there' : Known(v)'
    BY <1>1, <1>5, <1>6, <2>1 DEF Known
  <2>3. Model'
    BY <1>1 DEF IInv, Model, ModelTypes, IndexSound
  <2> QED BY <1>1, <1>4, <1>6, <2>2, <2>3, LinkedKeeps
<1>7. CASE link = "down"
  BY <1>1, <1>4, <1>7, DownKeeps
<1> QED BY <1>6, <1>7, SettledCases DEF Saves

\* Some users go, and at least nobody who stays is removed from the model.
LEMMA GoneKeeps ==
  ASSUME IInv, Settled, NEW S, NEW G \in SUBSET Uids, G \subseteq S,
         Gone(S), IfLinked(RemoveUsers(G)), UNCHANGED <<link, due>>
  PROVE  IInv'
<1>1. (link = "down" \/ link = "linked") /\ due = {}
  BY SettledCases
<1>2. /\ IrcdTypes'
      /\ DOMAIN there' = DOMAIN there \ S
      /\ \A v \in DOMAIN there' : there'[v] = there[v]
      /\ saved' = saved \ S
  BY <1>1, ThereGone
<1>3. CASE link = "linked"
  <2>1. /\ Model'
        /\ \A v \in DOMAIN users_ \ G : v \in DOMAIN users_' /\ users_'[v] = users_[v]
    BY <1>3, RemoveKeeps DEF IInv, IfLinked
  <2>2. \A v \in DOMAIN there : Known(v)
    BY <1>3, AllKnown
  <2>3. ASSUME NEW v \in DOMAIN there'
        PROVE  Known(v)'
    <3>1. v \in DOMAIN there /\ v \notin S /\ v \notin G /\ Known(v)
      BY <1>2, <2>2
    <3>2. v \in DOMAIN users_' /\ users_'[v] = users_[v]
      BY <2>1, <3>1 DEF Known
    <3> QED BY <1>2, <3>1, <3>2 DEF Known
  <2> QED BY <1>2, <1>3, <2>1, <2>3, LinkedKeeps
<1>4. CASE link = "down"
  BY <1>2, <1>4, DownKeeps DEF IfLinked
<1> QED BY <1>1, <1>3, <1>4

\* A user quits, a server splits, a user is killed.
LEMMA LeavesKeep ==
  ASSUME IInv
  PROVE  /\ \A u \in Uids : Quits(u) => IInv'
         /\ \A s \in Sids : Splits(s) => IInv'
         /\ \A f \in Folded : Kill(f) => IInv'
<1>1. ASSUME NEW u \in Uids, Quits(u)
      PROVE  IInv'
  BY <1>1, GoneKeeps DEF Quits
<1>2. ASSUME NEW s \in Sids, Splits(s)
      PROVE  IInv'
  <2> DEFINE S == {u \in Uids : SidOf[u] \in Behind[s] \cup {s}}
             G == {u \in Uids : SidOf[u] = s}
  <2>1. G \in SUBSET Uids /\ G \subseteq S
    OBVIOUS
  <2>2. Settled /\ Gone(S) /\ IfLinked(RemoveUsers(G)) /\ UNCHANGED <<link, due>>
    BY <1>2 DEF Splits
  <2> HIDE DEF S, G
  <2> QED BY <2>1, <2>2, GoneKeeps
<1>3. ASSUME NEW f \in Folded, Kill(f)
      PROVE  IInv'
  <2>1. /\ link = "linked" /\ ByNick(f) \in DOMAIN there
        /\ Gone({ByNick(f)}) /\ RemoveUsers({ByNick(f)})
        /\ UNCHANGED <<link, due>>
    BY <1>3 DEF Kill
  <2>2. ByNick(f) \in Uids
    BY <2>1, Values DEF IInv
  <2>3. Settled /\ IfLinked(RemoveUsers({ByNick(f)}))
    BY <2>1 DEF Settled, IfLinked
  <2> QED BY <2>1, <2>2, <2>3, GoneKeeps
<1> QED BY <1>1, <1>2, <1>3

\* A user becomes an operator.
LEMMA OpersKeeps ==
  ASSUME IInv, NEW u \in Uids, Opers(u)
  PROVE  IInv'
<1> DEFINE r == [there[u] EXCEPT !.oper = TRUE]
<1>1. /\ u \in DOMAIN there /\ there' = [there EXCEPT ![u].oper = TRUE]
      /\ UNCHANGED <<link, due, saved>>
  BY DEF Opers
<1>2. there \in [DOMAIN there -> [nick : Names, oper : BOOLEAN]]
  BY Values DEF IInv
<1>3. r \in [nick : Names, oper : BOOLEAN] /\ there' = [there EXCEPT ![u] = r]
  BY <1>1, <1>2
<1>4. IrcdTypes'
  BY <1>1, <1>3, ThereExcept
<1>5. /\ DOMAIN there' = DOMAIN there /\ there'[u].nick = there[u].nick
      /\ \A v \in DOMAIN there \ {u} : there'[v] = there[v]
  BY <1>1, <1>2
<1>6. CASE link = "linked"
  <2>1. \A v \in DOMAIN there : Known(v)
    BY <1>6, AllKnown
  <2>2. u \in DOMAIN users_ /\ users_' = [users_ EXCEPT ![u].opertype = TRUE] /\ nicks_' = nicks_
    BY <1>1, <1>6, <2>1 DEF Opers, IfLinked, Class, Known
  <2>3. /\ Model'
        /\ DOMAIN users_' = DOMAIN users_
        /\ users_'[u].nick = users_[u].nick /\ users_'[u].opertype = TRUE
        /\ \A v \in DOMAIN users_ \ {u} : users_'[v] = users_[v]
    BY <2>2, FlagsKeep DEF IInv
  <2>4. \A v \in DOMAIN there' : Known(v)'
    BY <1>1, <1>5, <2>1, <2>2, <2>3 DEF Known
  <2> QED BY <1>1, <1>4, <1>6, <2>3, <2>4, LinkedKeeps
<1>7. CASE link = "down"
  BY <1>1, <1>4, <1>7, DownKeeps DEF Opers, IfLinked
<1> QED BY <1>6, <1>7, SettledCases DEF Opers

\* An operator stops being one.
LEMMA DeopersKeeps ==
  ASSUME IInv, NEW u \in Uids, NEW plus \in BOOLEAN, Deopers(u, plus)
  PROVE  IInv'
<1> DEFINE r == [there[u] EXCEPT !.oper = FALSE]
<1>1. /\ u \in DOMAIN there /\ there' = [there EXCEPT ![u].oper = FALSE]
      /\ UNCHANGED <<link, due, saved>>
  BY DEF Deopers
<1>2. there \in [DOMAIN there -> [nick : Names, oper : BOOLEAN]]
  BY Values DEF IInv
<1>3. r \in [nick : Names, oper : BOOLEAN] /\ there' = [there EXCEPT ![u] = r]
  BY <1>1, <1>2
<1>4. IrcdTypes'
  BY <1>1, <1>3, ThereExcept
<1>5. /\ DOMAIN there' = DOMAIN there
      /\ there'[u].nick = there[u].nick /\ there'[u].oper = FALSE
      /\ \A v \in DOMAIN there \ {u} : there'[v] = there[v]
  BY <1>1, <1>2
<1>6. CASE link = "linked"
  <2>1. \A v \in DOMAIN there : Known(v)
    BY <1>6, AllKnown
  <2>2. u \in DOMAIN users_ /\ users_' = [users_ EXCEPT ![u].mode = plus] /\ nicks_' = nicks_
    BY <1>1, <1>6, <2>1 DEF Deopers, IfLinked, Known
  <2>3. /\ Model'
        /\ DOMAIN users_' = DOMAIN users_
        /\ users_'[u].nick = users_[u].nick
        /\ \A v \in DOMAIN users_ \ {u} : users_'[v] = users_[v]
    BY <2>2, FlagsKeep DEF IInv
  <2>4. \A v \in DOMAIN there' : Known(v)'
    BY <1>1, <1>5, <2>1, <2>2, <2>3 DEF Known
  <2> QED BY <1>1, <1>4, <1>6, <2>3, <2>4, LinkedKeeps
<1>7. CASE link = "down"
  BY <1>1, <1>4, <1>7, DownKeeps DEF Deopers, IfLinked
<1> QED BY <1>6, <1>7, SettledCases DEF Deopers

-----------------------------------------------------------------------------
(* The session.                                                            *)

\* The link goes down or comes up, a burst starts or ends, the daemon dies.
LEMMA SessionKeeps ==
  ASSUME IInv
  PROVE  (GoDown \/ Burst \/ EndBurst \/ Die) => IInv'
<1>1. ASSUME GoDown
      PROVE  IInv'
  <2>1. Model' /\ IrcdTypes'
    BY <1>1 DEF GoDown, IInv, Model, ModelTypes, IndexSound, IrcdTypes
  <2>2. Told'
    BY <1>1 DEF GoDown, Told
  <2> QED BY <2>1, <2>2 DEF IInv
<1>2. ASSUME Burst
      PROVE  IInv'
  <2>1. Model' /\ IrcdTypes'
    BY <1>2 DEF Burst, IInv, Model, ModelTypes, IndexSound, IrcdTypes
  <2>2. Told'
    BY <1>2 DEF Burst, Told
  <2> QED BY <2>1, <2>2 DEF IInv
<1>3. ASSUME EndBurst
      PROVE  IInv'
  <2>1. Model' /\ IrcdTypes'
    BY <1>3 DEF EndBurst, IInv, Model, ModelTypes, IndexSound, IrcdTypes
  <2>2. \A u \in DOMAIN there : Known(u)'
    BY <1>3 DEF EndBurst, IInv, Told, Known
  <2>3. Told'
    BY <1>3, <2>2 DEF EndBurst, Told
  <2> QED BY <2>1, <2>3 DEF IInv
<1>4. ASSUME Die
      PROVE  IInv'
  <2>1. IsTable(users_', Uids, User) /\ IsTable(nicks_', Folded \cup Uids, Uids)
    BY <1>4, NoFunctionType DEF Die
  <2>2. DOMAIN nicks_' = {}
    BY <1>4 DEF Die, NoFunction
  <2>3. Model'
    BY <2>1, <2>2 DEF Model, ModelTypes, IndexSound
  <2>4. IrcdTypes' /\ Told'
    BY <1>4 DEF Die, IInv, IrcdTypes, Told
  <2> QED BY <2>3, <2>4 DEF IInv
<1> QED BY <1>1, <1>2, <1>3, <1>4

\* A user of the burst is told of.
LEMMA BurstUserKeeps ==
  ASSUME IInv, NEW u \in Uids, BurstUser(u)
  PROVE  IInv'
<1> DEFINE o == there[u].oper
<1>1. /\ u \in due /\ due' = due \ {u}
      /\ AddUser(u, there[u].nick, o)
      /\ saved' = saved \ {u}
      /\ UNCHANGED <<link, there>>
  BY DEF BurstUser
<1>2. u \in DOMAIN there /\ there[u].nick \in Names /\ o \in BOOLEAN
  BY <1>1, Values DEF IInv, IrcdTypes
<1>3. /\ Model'
      /\ u \in DOMAIN users_' /\ users_'[u] = [nick |-> there[u].nick, mode |-> o, opertype |-> o]
      /\ \A v \in DOMAIN users_ \ {u} : v \in DOMAIN users_' /\ users_'[v] = users_[v]
  BY <1>1, <1>2, AddKeeps DEF IInv
<1>4. IrcdTypes'
  BY <1>1 DEF IInv, IrcdTypes
<1>5. link = "burst"
  BY <1>1 DEF IInv, Told
<1>6. Known(u)'
  BY <1>1, <1>3 DEF Known
<1>7. ASSUME NEW v \in DOMAIN there \ due
      PROVE  Known(v)'
  <2>1. v # u /\ Known(v)
    BY <1>1, <1>5 DEF IInv, Told
  <2> QED BY <1>1, <1>3, <2>1 DEF Known
<1>8. Told'
  BY <1>1, <1>5, <1>6, <1>7 DEF Told
<1> QED BY <1>3, <1>4, <1>8 DEF IInv

-----------------------------------------------------------------------------
(* The invariant is inductive.                                             *)

\* Initially.
LEMMA InitIInv == Init => IInv
<1> SUFFICES ASSUME Init
             PROVE  IInv
  OBVIOUS
<1>1. IsTable(users_, Uids, User) /\ IsTable(nicks_, Folded \cup Uids, Uids)
      /\ IsTable(there, Uids, [nick : Names, oper : BOOLEAN])
  BY NoFunctionType DEF Init
<1>2. DOMAIN nicks_ = {} /\ DOMAIN there = {}
  BY DEF Init, NoFunction
<1> QED BY <1>1, <1>2 DEF Init, IInv, Model, ModelTypes, IndexSound, IrcdTypes, Told

\* By every step.
LEMMA NextIInv == IInv /\ [Next]_vars => IInv'
<1> SUFFICES ASSUME IInv, [Next]_vars
             PROVE  IInv'
  OBVIOUS
<1>1. ASSUME NEW u \in Uids, NEW n \in Nicks, Connects(u, n) \/ Renames(u, n)
      PROVE  IInv'
  BY <1>1, ConnectsKeeps, RenamesKeeps
<1>2. ASSUME NEW u \in Uids, Saves(u) \/ Quits(u) \/ Opers(u) \/ BurstUser(u)
      PROVE  IInv'
  BY <1>2, SavesKeeps, LeavesKeep, OpersKeeps, BurstUserKeeps
<1>3. ASSUME NEW u \in Uids, NEW plus \in BOOLEAN, Deopers(u, plus)
      PROVE  IInv'
  BY <1>3, DeopersKeeps
<1>4. ASSUME NEW s \in Sids, Splits(s)
      PROVE  IInv'
  BY <1>4, LeavesKeep
<1>5. ASSUME NEW f \in Folded, Kill(f)
      PROVE  IInv'
  BY <1>5, LeavesKeep
<1>6. ASSUME GoDown \/ Burst \/ EndBurst \/ Die
      PROVE  IInv'
  BY <1>6, SessionKeeps
<1>7. CASE UNCHANGED vars
  BY <1>7 DEF vars, IInv, Model, ModelTypes, IndexSound, IrcdTypes, Told, Known
<1> QED BY <1>1, <1>2, <1>3, <1>4, <1>5, <1>6, <1>7 DEF Next

\* Always.
LEMMA AlwaysIInv == Spec => []IInv
BY InitIInv, NextIInv, PTL DEF Spec

-----------------------------------------------------------------------------
(* The theorems.                                                           *)

\* The users, the index and what the ircd has are of their types, for any
\* number of users, servers and nicknames.
THEOREM NetworkTypeOK == Spec => []TypeOK
<1>1. ASSUME IInv
      PROVE  TypeOK
  <2>1. due \subseteq Uids
    BY <1>1, Values DEF IInv, IrcdTypes
  <2> QED BY <1>1, <2>1 DEF IInv, Model, ModelTypes, IrcdTypes, TypeOK, User
<1> QED BY <1>1, AlwaysIInv, PTL

\* Whoever KILL, GHOST or STATUS find by a nickname bears it on the network,
\* SAVEd users and those who are gone excepted.
THEOREM NetworkNames == Spec => []NamesTheBearer
<1>1. ASSUME IInv
      PROVE  NamesTheBearer
  <2> SUFFICES ASSUME link = "linked", NEW f \in DOMAIN nicks_,
                      ByNick(f) \in DOMAIN there \ saved
               PROVE  FoldOf(there[ByNick(f)].nick) = f
    BY DEF NamesTheBearer
  <2>1. Known(ByNick(f))
    BY <1>1, AllKnown
  <2>2. FoldOf(users_[ByNick(f)].nick) = f
    BY <1>1 DEF IInv, Model, IndexSound, ByNick
  <2> QED BY <2>1, <2>2 DEF Known
<1> QED BY <1>1, AlwaysIInv, PTL

\* While linked, every user of the network is in the model, under its nickname
\* unless it was SAVEd, and every operator passes for one.
THEOREM NetworkKnowsEveryone == Spec => []KnowsEveryone
<1>1. IInv => KnowsEveryone
  BY AllKnown DEF KnowsEveryone, Known
<1> QED BY <1>1, AlwaysIInv, PTL
=============================================================================
