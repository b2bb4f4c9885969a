------------------------------ MODULE Network ------------------------------
(***************************************************************************)
(* The network model's users and its index of nicknames                    *)
(* (src/irc/network.cpp), as the handlers of services.cpp keep them while  *)
(* the ircd's users come and go.                                           *)
(*                                                                         *)
(* The ircd's lines and the commands its users send arrive in one order,   *)
(* so a line is handled in the step it is said in, and a command finds the *)
(* network as it was when it was sent.  The ircd queues its burst in one   *)
(* go: nothing changes in it between the first and the last user of a      *)
(* burst.  Its casemapping is rfc1459, which util.h:39 assumes.  The       *)
(* services' own users are in Bots.                                        *)
(*                                                                         *)
(* A definition X_Slip is a slip in X, kept to show that the properties    *)
(* tell it from the code; nothing here uses it.                            *)
(***************************************************************************)
EXTENDS Tables

CONSTANTS
  Uids, Sids, SidOf,     \* users, servers, and the server of each user
  Behind,                \* server -> the servers that are lost with it
  Staff,                 \* users who may become operators
  Nicks, Fold,           \* nicknames as spelled, and folded
  Folded                 \* what they fold to

ASSUME NetworkAssumption ==
  /\ SidOf \in [Uids -> Sids] /\ Behind \in [Sids -> SUBSET Sids]
  /\ Fold \in [Nicks -> Folded]
  /\ Uids \cap (Nicks \cup Folded) = {}

VARIABLES
  users_,                \* uid -> nick, mode o, an oper class, as we know them
  nicks_,                \* index: folded nick -> uid
  link,                  \* "down", "burst" or "linked"
  due,                   \* users the ircd has still to burst
  there,                 \* the ircd: uid -> nick, operator
  saved                  \* the ircd: users whose uid became their nickname by
                         \* a SAVE, which we do not handle, since we were last
                         \* told their nickname

vars == <<users_, nicks_, link, due, there, saved>>

\* A user may have its uid as a nickname.
Names == Nicks \cup Uids
FoldOf(n) == IF n \in Nicks THEN Fold[n] ELSE n

TypeOK ==
  /\ IsTable(users_, Uids, [nick : Names, mode : BOOLEAN, opertype : BOOLEAN])
  /\ IsTable(nicks_, Folded \cup Uids, Uids)
  /\ link \in {"down", "burst", "linked"}
  /\ due \subseteq Uids
  /\ IsTable(there, Uids, [nick : Names, oper : BOOLEAN])
  /\ saved \subseteq DOMAIN there

Init ==
  /\ users_ = NoFunction /\ nicks_ = NoFunction
  /\ link = "down" /\ due = {}
  /\ there = NoFunction /\ saved = {}

-----------------------------------------------------------------------------
(* network.cpp *)

\* The index after add_user: a user that is known loses the entry of its
\* nickname if it has another now, and gets none for that.
Indexed_KeepsEntry(u, n) ==
  IF u \in DOMAIN users_ THEN nicks_ ELSE With(nicks_, FoldOf(n), u)
Indexed(u, n) ==
  CASE u \notin DOMAIN users_ -> With(nicks_, FoldOf(n), u)
    [] u \in DOMAIN users_ /\ users_[u].nick # n -> Without(nicks_, FoldOf(users_[u].nick))
    [] OTHER -> nicks_

\* add_user: the record is a new one.
AddUser(u, n, o) ==
  /\ nicks_' = Indexed(u, n)
  /\ users_' = With(users_, u, [nick |-> n, mode |-> o, opertype |-> o])

\* The index after rename_user and remove_user, which erase the entry of a
\* nickname whoever it is for.
Reindexed_Unfolded(u, n) == With(Without(nicks_, FoldOf(users_[u].nick)), n, u)
Reindexed(u, n) == With(Without(nicks_, FoldOf(users_[u].nick)), FoldOf(n), u)

Unindexed(S) ==
  Restrict(nicks_, DOMAIN nicks_ \ {FoldOf(users_[u].nick) : u \in S \cap DOMAIN users_})

RemoveUsers(S) ==
  /\ nicks_' = Unindexed(S)
  /\ users_' = Restrict(users_, DOMAIN users_ \ S)

\* by_nick finds somebody, namely ByNick(f).
IsNick(f) == f \in DOMAIN nicks_ /\ nicks_[f] \in DOMAIN users_
ByNick(f) == nicks_[f]

-----------------------------------------------------------------------------
(* The ircd's users.  What happens while we are not linked, we are not told. *)

Free(u, n) == \A v \in DOMAIN there \ {u} : FoldOf(there[v].nick) # FoldOf(n)

\* The ircd changes between bursts.
Settled == link # "burst"
IfLinked(A) == IF link = "linked" THEN A ELSE UNCHANGED <<users_, nicks_>>

\* UID: a user connects; its server may give out a uid again.
Connects(u, n) ==
  /\ Settled /\ u \notin DOMAIN there /\ Free(u, n)
  /\ there' = With(there, u, [nick |-> n, oper |-> FALSE])
  /\ IfLinked(AddUser(u, n, FALSE))
  /\ UNCHANGED <<link, due, saved>>

\* NICK
Renames(u, n) ==
  /\ Settled /\ u \in DOMAIN there /\ Free(u, n)
  /\ there' = [there EXCEPT ![u].nick = n]
  /\ saved' = saved \ {u}
  /\ IfLinked(IF u \in DOMAIN users_
              THEN /\ nicks_' = Reindexed(u, n)
                   /\ users_' = [users_ EXCEPT ![u].nick = n]
              ELSE UNCHANGED <<users_, nicks_>>)
  /\ UNCHANGED <<link, due>>

\* SAVE, which on_line drops: the ircd gives a user its uid for a nickname.
Saves(u) ==
  /\ Settled /\ u \in DOMAIN there
  /\ there' = [there EXCEPT ![u].nick = u]
  /\ saved' = IF link = "linked" THEN saved \cup {u} ELSE saved
  /\ UNCHANGED <<users_, nicks_, link, due>>

Gone(S) ==
  /\ there' = Restrict(there, DOMAIN there \ S)
  /\ saved' = saved \ S

\* QUIT
Quits(u) ==
  /\ Settled /\ u \in DOMAIN there
  /\ Gone({u})
  /\ IfLinked(RemoveUsers({u}))
  /\ UNCHANGED <<link, due>>

\* SQUIT, of the server nearest to us that is lost: its users go, and those of
\* the servers behind it stay in the model.
Splits(s) ==
  /\ Settled
  /\ Gone({u \in Uids : SidOf[u] \in Behind[s] \cup {s}})
  /\ IfLinked(RemoveUsers({u \in Uids : SidOf[u] = s}))
  /\ UNCHANGED <<link, due>>

\* OPERTYPE: a user becomes an operator.
Class_Forgotten(u) == users_
Class(u) == [users_ EXCEPT ![u].opertype = TRUE]

Opers(u) ==
  /\ Settled /\ u \in Staff \cap DOMAIN there
  /\ there' = [there EXCEPT ![u].oper = TRUE]
  /\ IfLinked(/\ users_' = IF u \in DOMAIN users_ THEN Class(u) ELSE users_
              /\ UNCHANGED nicks_)
  /\ UNCHANGED <<link, due, saved>>

\* MODE: a user stops being one.  handle_mode takes the first sign of a token
\* for all its letters, so that "-o" takes the mode away and "+w-o" gives it.
\* The oper class stays.
Deopers(u, plus) ==
  /\ Settled /\ u \in DOMAIN there /\ there[u].oper
  /\ there' = [there EXCEPT ![u].oper = FALSE]
  /\ IfLinked(/\ users_' = IF u \in DOMAIN users_
                           THEN [users_ EXCEPT ![u].mode = plus] ELSE users_
              /\ UNCHANGED nicks_)
  /\ UNCHANGED <<link, due, saved>>

\* OperServ KILL and NickServ GHOST: the ircd kills the user by_nick finds, if
\* it has such a user, and says so.
Kill(f) ==
  /\ link = "linked" /\ IsNick(f)
  /\ ByNick(f) \in DOMAIN there
  /\ Gone({ByNick(f)})
  /\ RemoveUsers({ByNick(f)})
  /\ UNCHANGED <<link, due>>

-----------------------------------------------------------------------------
(* The session *)

\* The model is not cleared.
GoDown ==
  /\ link # "down"
  /\ link' = "down" /\ due' = {}
  /\ UNCHANGED <<users_, nicks_, there, saved>>

Burst ==
  /\ link = "down"
  /\ link' = "burst" /\ due' = DOMAIN there
  /\ UNCHANGED <<users_, nicks_, there, saved>>

\* UID, and OPERTYPE of an operator.
BurstUser(u) ==
  /\ u \in due
  /\ due' = due \ {u}
  /\ AddUser(u, there[u].nick, there[u].oper)
  /\ saved' = saved \ {u}
  /\ UNCHANGED <<link, there>>

EndBurst ==
  /\ link = "burst" /\ due = {}
  /\ link' = "linked"
  /\ UNCHANGED <<users_, nicks_, due, there, saved>>

\* The daemon dies.
Die ==
  /\ users_' = NoFunction /\ nicks_' = NoFunction
  /\ link' = "down" /\ due' = {}
  /\ UNCHANGED <<there, saved>>

Next ==
  \/ \E u \in Uids, n \in Nicks : Connects(u, n) \/ Renames(u, n)
  \/ \E u \in Uids : Saves(u) \/ Quits(u) \/ Opers(u) \/ BurstUser(u)
  \/ \E u \in Uids, plus \in BOOLEAN : Deopers(u, plus)
  \/ \E s \in Sids : Splits(s)
  \/ \E f \in Folded : Kill(f)
  \/ GoDown \/ Burst \/ EndBurst \/ Die

Spec == Init /\ [][Next]_vars

-----------------------------------------------------------------------------
(* Properties *)

\* Whoever the index finds by a nickname bears it on the network, so that KILL,
\* GHOST and STATUS are never about somebody else: the exceptions are users who
\* were SAVEd, and those the ircd does not have any more.
NamesTheBearer ==
  link = "linked" =>
    \A f \in DOMAIN nicks_ :
      ByNick(f) \in DOMAIN there \ saved => FoldOf(there[ByNick(f)].nick) = f

\* While linked, every user of the network is in the model, under its nickname
\* unless it was SAVEd, and every operator passes for one.
KnowsEveryone ==
  link = "linked" =>
    \A u \in DOMAIN there :
      /\ u \in DOMAIN users_
      /\ u \notin saved => users_[u].nick = there[u].nick
      /\ there[u].oper => users_[u].mode \/ users_[u].opertype
=============================================================================
