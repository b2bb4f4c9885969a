---------------------------- MODULE BotsProofs ----------------------------
(***************************************************************************)
(* Theorems about Bots, for any number of bots, users, servers and         *)
(* channels.                                                               *)
(***************************************************************************)
EXTENDS Bots, TablesProofs, TLAPS, FiniteSetTheorems, FunctionTheorems

-----------------------------------------------------------------------------
(* The parts of the invariant.                                             *)

TablesOK ==
  /\ IsTable(botserv, BotNames, Row)
  /\ akick \subseteq Channels \X Users

\* The bots online have rows and users of their own, whose uids were counted.
LiveOK ==
  /\ IsTable(g_bots, BotNames, Uids)
  /\ IsTable(bot_users, Uids, Nicks)
  /\ uid_counter \in 0..MaxUid
  /\ \A a, b \in DOMAIN g_bots : g_bots[a] = g_bots[b] => a = b
  /\ DOMAIN bot_users = {g_bots[b] : b \in DOMAIN g_bots}
  /\ \A b \in DOMAIN g_bots : g_bots[b] < uid_counter
  /\ DOMAIN g_bots \subseteq DOMAIN botserv

ChannelsOK ==
  /\ IsTable(channels_, Channels, SUBSET Members)
  /\ \A c \in DOMAIN channels_ : channels_[c] \subseteq users \cup DOMAIN bot_users

KnownOK == IsTable(known, Uids, Nicks \cup {Lost}) /\ NoGhosts

\* No line of ours puts anybody on a channel: those on it are users online.
NetOK ==
  /\ users \subseteq Users /\ online \subseteq Users
  /\ on \subseteq Channels \X online
  /\ erased \subseteq Channels \X Users
  /\ due \subseteq Channels
  /\ link \in {"down", "burst", "linked"}
  /\ link = "linked" => online \subseteq users /\ due = {}

\* Those on a channel are its members, or still to be burst, or erased.
MissedOK ==
  link # "down" =>
    \A p \in on : p[1] \in due \/ p[2] \in MembersOf(p[1]) \/ p \in erased

IInv == TablesOK /\ LiveOK /\ ChannelsOK /\ KnownOK /\ NetOK /\ MissedOK

-----------------------------------------------------------------------------
(* What is left alone stays right.                                         *)

\* The bots online need only their rows.
LEMMA SameLive ==
  ASSUME LiveOK, UNCHANGED live, DOMAIN botserv \subseteq DOMAIN botserv'
  PROVE  LiveOK'
BY DEF LiveOK, live

\* Members stay somebody while nobody goes.
LEMMA SameChannels ==
  ASSUME ChannelsOK, UNCHANGED channels_, users \subseteq users',
         DOMAIN bot_users \subseteq DOMAIN bot_users'
  PROVE  ChannelsOK'
BY DEF ChannelsOK

\* The ircd's picture of the bots stays right while both stay.
LEMMA SameKnown ==
  ASSUME KnownOK, UNCHANGED <<known, bot_users>>
  PROVE  KnownOK'
BY DEF KnownOK, NoGhosts

\* The tables and the bots stay right while they are left alone.
LEMMA SameBots ==
  ASSUME IInv, UNCHANGED <<tables, live, known>>
  PROVE  TablesOK' /\ LiveOK' /\ KnownOK' /\ bot_users' = bot_users
<1>1. botserv' = botserv /\ akick' = akick /\ bot_users' = bot_users
  BY DEF tables, live
<1> QED BY <1>1, SameLive, SameKnown DEF IInv, TablesOK

\* No line names a channel.
LEMMA NamedNothing ==
  ASSUME NEW c, NEW S
  PROVE  Named(c, S) = {}
BY BotsAssumption DEF Named, ChannelName

\* The row of a bot, and the nickname it shows.
LEMMA BotRow ==
  ASSUME TablesOK, NEW b \in DOMAIN botserv
  PROVE  b \in BotNames /\ botserv[b] \in Row /\ ShownNick(b) \in Nicks
<1>1. DOMAIN botserv \subseteq BotNames /\ botserv \in [DOMAIN botserv -> Row]
  BY IsTableElim DEF TablesOK
<1>2. botserv[b] \in Row
  BY <1>1
<1>3. botserv[b].nick \in Nicks /\ botserv[b].chan_nick \in Nicks \cup {NoNick}
  BY <1>2 DEF Row
<1> QED BY <1>1, <1>2, <1>3 DEF ShownNick

\* The rows that assign a channel are rows.
LEMMA AssignedRows ==
  ASSUME NEW c
  PROVE  AssignedTo(c) \subseteq DOMAIN botserv
BY DEF AssignedTo

-----------------------------------------------------------------------------
(* Coming online.                                                          *)

\* Fresh uids: above those counted, and below the count to be.
LEMMA FreshUids ==
  ASSUME TablesOK, LiveOK, NEW B \in SUBSET DOMAIN botserv, NEW uid \in Fresh(B),
         uid_counter + Cardinality(DOMAIN uid) <= MaxUid
  PROVE  /\ DOMAIN uid = B \ DOMAIN g_bots
         /\ Cardinality(DOMAIN uid) \in Nat
         /\ IsTable(uid, BotNames, Uids)
         /\ \A b \in DOMAIN uid : /\ uid[b] >= uid_counter
                                  /\ uid[b] < uid_counter + Cardinality(DOMAIN uid)
         /\ \A a, b \in DOMAIN uid : uid[a] = uid[b] => a = b
<1> DEFINE new == B \ DOMAIN g_bots
<1>1. DOMAIN botserv \subseteq BotNames
  BY IsTableElim DEF TablesOK
<1>2. IsFiniteSet(new) /\ new \subseteq BotNames
  BY <1>1, BotsAssumption, FS_Subset
<1>3. Cardinality(new) \in Nat
  BY <1>2, FS_CardinalityType
<1>4. /\ uid \in [new -> uid_counter .. uid_counter + Cardinality(new) - 1]
      /\ \A a, b \in new : uid[a] = uid[b] => a = b
  BY DEF Fresh
<1>5. DOMAIN uid = new
  BY <1>4
<1>6. uid_counter \in Nat /\ MaxUid \in Nat
  BY BotsAssumption DEF LiveOK
<1>7. ASSUME NEW b \in new
      PROVE  /\ uid[b] \in Uids /\ uid[b] >= uid_counter
             /\ uid[b] < uid_counter + Cardinality(new)
  <2>1. uid[b] \in uid_counter .. uid_counter + Cardinality(new) - 1
    BY <1>4
  <2>2. uid_counter + Cardinality(new) <= MaxUid
    BY <1>5
  <2> HIDE DEF new
  <2> QED BY <2>1, <2>2, <1>3, <1>6 DEF Uids
<1>8. uid \in [new -> Uids]
  BY <1>4, <1>7
<1>9. IsTable(uid, BotNames, Uids)
  BY <1>2, <1>8, IsTableIntro
<1> QED BY <1>3, <1>4, <1>5, <1>7, <1>9

\* The users of bots with fresh uids are users.
LEMMA UsersOfType ==
  ASSUME TablesOK, NEW uid, DOMAIN uid \subseteq DOMAIN botserv,
         IsTable(uid, BotNames, Uids)
  PROVE  /\ IsTable(UsersOf(uid), Uids, Nicks)
         /\ DOMAIN UsersOf(uid) = {uid[b] : b \in DOMAIN uid}
<1> DEFINE D == {uid[b] : b \in DOMAIN uid}
<1>1. uid \in [DOMAIN uid -> Uids]
  BY IsTableElim
<1>2. D \in SUBSET Uids
  BY <1>1
<1>3. ASSUME NEW i \in D
      PROVE  ShownNick(CHOOSE b \in DOMAIN uid : uid[b] = i) \in Nicks
  <2>1. (CHOOSE b \in DOMAIN uid : uid[b] = i) \in DOMAIN uid
    BY <1>3
  <2> QED BY <2>1, BotRow
<1>4. UsersOf(uid) \in [D -> Nicks]
  BY <1>3 DEF UsersOf
<1> HIDE DEF D
<1>5. DOMAIN UsersOf(uid) = D
  BY <1>4
<1> QED BY <1>2, <1>4, <1>5, IsTableIntro DEF D

\* ensure_bot: the bots of B are online, and those who were keep their uids
\* and nicknames.
LEMMA Ensured ==
  ASSUME TablesOK, LiveOK, NEW B \in SUBSET DOMAIN botserv, NEW uid \in Fresh(B),
         GoOnline(uid), DOMAIN botserv \subseteq DOMAIN botserv'
  PROVE  /\ LiveOK'
         /\ B \subseteq DOMAIN g_bots'
         /\ UidsOf(B) \subseteq DOMAIN bot_users'
         /\ DOMAIN bot_users \subseteq DOMAIN bot_users'
         /\ \A i \in DOMAIN bot_users : bot_users'[i] = bot_users[i]
         /\ IsTable(UsersOf(uid), Uids, Nicks)
         /\ \A i \in DOMAIN UsersOf(uid) :
              i \in DOMAIN bot_users' /\ bot_users'[i] = UsersOf(uid)[i]
         /\ DOMAIN bot_users \cap DOMAIN UsersOf(uid) = {}
<1> DEFINE n == Cardinality(DOMAIN uid)
<1> DEFINE U == UsersOf(uid)
<1>1. /\ uid_counter + n <= MaxUid
      /\ g_bots' = Over(g_bots, uid) /\ bot_users' = Over(bot_users, U)
      /\ uid_counter' = uid_counter + n
  BY DEF GoOnline
<1>2. /\ DOMAIN uid = B \ DOMAIN g_bots
      /\ n \in Nat /\ IsTable(uid, BotNames, Uids)
      /\ \A b \in DOMAIN uid : uid[b] >= uid_counter /\ uid[b] < uid_counter + n
      /\ \A a, b \in DOMAIN uid : uid[a] = uid[b] => a = b
  BY <1>1, FreshUids
<1>3. IsTable(U, Uids, Nicks) /\ DOMAIN U = {uid[b] : b \in DOMAIN uid}
  BY <1>2, UsersOfType
<1>4. /\ IsTable(g_bots, BotNames, Uids) /\ IsTable(bot_users, Uids, Nicks)
      /\ uid_counter \in 0..MaxUid /\ MaxUid \in Nat
      /\ \A a, b \in DOMAIN g_bots : g_bots[a] = g_bots[b] => a = b
      /\ DOMAIN bot_users = {g_bots[b] : b \in DOMAIN g_bots}
      /\ \A b \in DOMAIN g_bots : g_bots[b] < uid_counter
      /\ DOMAIN g_bots \subseteq DOMAIN botserv
  BY BotsAssumption DEF LiveOK
<1>5. /\ \A b \in DOMAIN g_bots : g_bots[b] \in Nat
      /\ \A b \in DOMAIN uid : uid[b] \in Nat
  <2>1. g_bots \in [DOMAIN g_bots -> Uids] /\ uid \in [DOMAIN uid -> Uids]
    BY <1>2, <1>4, IsTableElim
  <2>2. Uids \subseteq Nat
    BY <1>4 DEF Uids
  <2> QED BY <2>1, <2>2
<1>6. /\ DOMAIN g_bots' = DOMAIN g_bots \cup DOMAIN uid
      /\ \A b \in DOMAIN uid : g_bots'[b] = uid[b]
      /\ \A b \in DOMAIN g_bots : g_bots'[b] = g_bots[b]
  <2>1. DOMAIN g_bots \cap DOMAIN uid = {}
    BY <1>2
  <2> HIDE DEF n, U
  <2>2. g_bots' = [y \in DOMAIN g_bots \cup DOMAIN uid |->
                     IF y \in DOMAIN uid THEN uid[y] ELSE g_bots[y]]
    BY <1>1 DEF Over
  <2> QED BY <2>1, <2>2
<1>7. DOMAIN bot_users \cap DOMAIN U = {}
  <2>1. SUFFICES ASSUME NEW b \in DOMAIN g_bots, NEW a \in DOMAIN uid, g_bots[b] = uid[a]
                 PROVE  FALSE
    BY <1>3, <1>4
  <2>2. g_bots[b] < uid_counter /\ uid[a] >= uid_counter
    BY <1>2, <1>4
  <2> HIDE DEF n, U
  <2> QED BY <2>1, <2>2, <1>4, <1>5
<1>8. /\ DOMAIN bot_users' = DOMAIN bot_users \cup DOMAIN U
      /\ \A i \in DOMAIN U : bot_users'[i] = U[i]
      /\ \A i \in DOMAIN bot_users : bot_users'[i] = bot_users[i]
  <2> HIDE DEF n, U
  <2>1. bot_users' = [i \in DOMAIN bot_users \cup DOMAIN U |->
                        IF i \in DOMAIN U THEN U[i] ELSE bot_users[i]]
    BY <1>1 DEF Over
  <2> QED BY <2>1, <1>7
<1>9. IsTable(g_bots', BotNames, Uids) /\ IsTable(bot_users', Uids, Nicks)
  <2> HIDE DEF n, U
  <2> QED BY <1>1, <1>2, <1>3, <1>4, OverType
<1>10. uid_counter' \in 0..MaxUid
  <2> HIDE DEF n
  <2> QED BY <1>1, <1>2, <1>4
<1>11. ASSUME NEW a \in DOMAIN g_bots', NEW b \in DOMAIN g_bots',
              g_bots'[a] = g_bots'[b]
       PROVE  a = b
  <2>1. CASE a \in DOMAIN g_bots /\ b \in DOMAIN g_bots
    BY <2>1, <1>4, <1>6, <1>11
  <2>2. CASE a \in DOMAIN uid /\ b \in DOMAIN uid
    BY <2>2, <1>2, <1>6, <1>11
  <2>3. ASSUME NEW x \in DOMAIN g_bots, NEW y \in DOMAIN uid PROVE g_bots[x] # uid[y]
    BY <1>3, <1>4, <1>7
  <2> QED BY <2>1, <2>2, <2>3, <1>6, <1>11
<1>12. DOMAIN bot_users' = {g_bots'[b] : b \in DOMAIN g_bots'}
  <2>1. {g_bots'[b] : b \in DOMAIN g_bots'} =
          {g_bots[b] : b \in DOMAIN g_bots} \cup {uid[b] : b \in DOMAIN uid}
    BY <1>6
  <2> QED BY <2>1, <1>3, <1>4, <1>8
<1>13. \A b \in DOMAIN g_bots' : g_bots'[b] < uid_counter'
  <2>1. SUFFICES ASSUME NEW b \in DOMAIN g_bots' PROVE g_bots'[b] < uid_counter'
    OBVIOUS
  <2> HIDE DEF n
  <2>2. CASE b \in DOMAIN g_bots
    BY <2>2, <1>1, <1>2, <1>4, <1>5, <1>6
  <2>3. CASE b \in DOMAIN uid
    BY <2>3, <1>1, <1>2, <1>6
  <2> QED BY <2>2, <2>3, <1>6
<1>14. DOMAIN g_bots' \subseteq DOMAIN botserv'
  BY <1>2, <1>4, <1>6
<1>15. LiveOK'
  BY <1>9, <1>10, <1>11, <1>12, <1>13, <1>14 DEF LiveOK
<1>16. B \subseteq DOMAIN g_bots'
  BY <1>2, <1>6
<1>17. UidsOf(B) \subseteq DOMAIN bot_users'
  BY <1>12, <1>16 DEF UidsOf
<1> QED BY <1>3, <1>7, <1>8, <1>15, <1>16, <1>17

\* Telling the ircd of the new bots, or nobody, leaves it without ghosts.
LEMMA ToldOK ==
  ASSUME TablesOK, LiveOK, KnownOK, NEW B \in SUBSET DOMAIN botserv,
         NEW uid \in Fresh(B), GoOnline(uid),
         DOMAIN botserv \subseteq DOMAIN botserv', known' = Told(uid)
  PROVE  KnownOK'
<1> DEFINE U == UsersOf(uid)
<1>1. /\ DOMAIN bot_users \subseteq DOMAIN bot_users'
      /\ \A i \in DOMAIN bot_users : bot_users'[i] = bot_users[i]
      /\ IsTable(U, Uids, Nicks)
      /\ \A i \in DOMAIN U : i \in DOMAIN bot_users' /\ bot_users'[i] = U[i]
  BY Ensured
<1>2. /\ IsTable(known, Uids, Nicks \cup {Lost})
      /\ \A i \in DOMAIN known : i \in DOMAIN bot_users
      /\ \A i \in DOMAIN known : known[i] \in {bot_users[i], Lost}
  BY DEF KnownOK, NoGhosts
<1>3. IsTable(U, Uids, Nicks \cup {Lost})
  <2>1. DOMAIN U \in SUBSET Uids /\ U \in [DOMAIN U -> Nicks \cup {Lost}]
    BY <1>1, IsTableElim
  <2> HIDE DEF U
  <2> QED BY <2>1, IsTableIntro
<1> HIDE DEF U
<1>4. known' = IF link = "linked" THEN Over(known, U) ELSE known
  BY DEF Told, U
<1>5. CASE link = "linked"
  <2>1. IsTable(known', Uids, Nicks \cup {Lost})
    BY <1>2, <1>3, <1>4, <1>5, OverType
  <2>2. known' = [i \in DOMAIN known \cup DOMAIN U |->
                    IF i \in DOMAIN U THEN U[i] ELSE known[i]]
    BY <1>4, <1>5 DEF Over
  <2>3. ASSUME NEW i \in DOMAIN known'
        PROVE  i \in DOMAIN bot_users' /\ known'[i] \in {bot_users'[i], Lost}
    <3>1. CASE i \in DOMAIN U
      BY <3>1, <2>2, <1>1
    <3>2. CASE i \in DOMAIN known \ DOMAIN U
      BY <3>2, <2>2, <1>1, <1>2
    <3> QED BY <3>1, <3>2, <2>2
  <2> QED BY <2>1, <2>3 DEF KnownOK, NoGhosts
<1>6. CASE link # "linked"
  <2>1. known' = known
    BY <1>4, <1>6
  <2> QED BY <2>1, <1>1, <1>2 DEF KnownOK, NoGhosts
<1> QED BY <1>5, <1>6

-----------------------------------------------------------------------------
(* ensure_bot_joined, and leaving.                                         *)

\* What the tables of types say of the members of a channel.
LEMMA ChannelEntry ==
  ASSUME ChannelsOK, NEW c \in DOMAIN channels_
  PROVE  /\ c \in Channels /\ channels_[c] \subseteq Members
         /\ channels_[c] \subseteq users \cup DOMAIN bot_users
<1>1. /\ DOMAIN channels_ \subseteq Channels
      /\ channels_ \in [DOMAIN channels_ -> SUBSET Members]
  BY IsTableElim DEF ChannelsOK
<1> QED BY <1>1 DEF ChannelsOK

\* Members as MembersOf has them are somebody.
LEMMA MembersType ==
  ASSUME ChannelsOK, NEW c
  PROVE  MembersOf(c) \subseteq users \cup DOMAIN bot_users
BY ChannelEntry DEF MembersOf

\* The uids of bots are members.
LEMMA BotMembers ==
  ASSUME LiveOK
  PROVE  DOMAIN bot_users \subseteq Uids
BY IsTableElim DEF LiveOK

\* A channel keeps the members it is given, other channels keep theirs, and
\* nothing is lost of what was right.
LEMMA KeptJoined ==
  ASSUME TablesOK, LiveOK, ChannelsOK, KnownOK, users \subseteq Users,
         NEW c \in Channels, NEW M \in SUBSET (users \cup DOMAIN bot_users),
         NEW now, KeepJoined(c, M, now), UNCHANGED <<tables, users>>
  PROVE  /\ LiveOK' /\ ChannelsOK' /\ KnownOK' /\ on' = now
         /\ M \subseteq MembersOf(c)'
         /\ \A d : d # c => MembersOf(d)' = MembersOf(d)
<1> DEFINE B == AssignedTo(ChannelName(c))
<1>1. PICK uid \in Fresh(B) :
        /\ GoOnline(uid) /\ known' = Told(uid)
        /\ channels_' = With(channels_, c, M \cup UidsOf(B))
        /\ on' = now \cup IF link = "linked"
                          THEN Named(c, UidsOf(B) \cap DOMAIN known') ELSE {}
  BY DEF KeepJoined
<1>2. B \in SUBSET DOMAIN botserv
  BY AssignedRows
<1>3. botserv' = botserv /\ users' = users
  BY DEF tables
<1> HIDE DEF B
<1>4. /\ LiveOK' /\ UidsOf(B) \subseteq DOMAIN bot_users'
      /\ DOMAIN bot_users \subseteq DOMAIN bot_users'
  BY <1>1, <1>2, <1>3, Ensured
<1>5. KnownOK'
  BY <1>1, <1>2, <1>3, ToldOK
<1>6. on' = now
  BY <1>1, NamedNothing
<1> DEFINE X == M \cup UidsOf(B)
<1>7. X \subseteq users' \cup DOMAIN bot_users' /\ X \in SUBSET Members
  <2>1. DOMAIN bot_users' \subseteq Uids
    BY <1>4, IsTableElim DEF LiveOK
  <2> QED BY <2>1, <1>3, <1>4 DEF Members
<1> HIDE DEF X
<1>8. channels_' = [d \in DOMAIN channels_ \cup {c} |-> IF d = c THEN X ELSE channels_[d]]
  BY <1>1 DEF With, X
<1>9. ChannelsOK'
  <2>1. IsTable(channels_', Channels, SUBSET Members)
    BY <1>1, <1>7, WithType DEF ChannelsOK, X
  <2>2. ASSUME NEW d \in DOMAIN channels_'
        PROVE  channels_'[d] \subseteq users' \cup DOMAIN bot_users'
    <3>1. CASE d = c
      BY <3>1, <1>7, <1>8
    <3>2. CASE d # c
      <4>1. d \in DOMAIN channels_ /\ channels_'[d] = channels_[d]
        BY <3>2, <1>8
      <4>2. channels_[d] \subseteq users \cup DOMAIN bot_users
        BY <4>1, ChannelEntry
      <4> QED BY <4>1, <4>2, <1>3, <1>4
    <3> QED BY <3>1, <3>2
  <2> QED BY <2>1, <2>2 DEF ChannelsOK
<1>10. M \subseteq MembersOf(c)'
  BY <1>8 DEF MembersOf, X
<1>11. \A d : d # c => MembersOf(d)' = MembersOf(d)
  BY <1>8 DEF MembersOf
<1> QED BY <1>4, <1>5, <1>6, <1>9, <1>10, <1>11

\* A channel that gets one member less or more of those there are.
LEMMA ExceptChannel ==
  ASSUME ChannelsOK, NEW c \in DOMAIN channels_, NEW S,
         S \subseteq Members, S \subseteq users' \cup DOMAIN bot_users',
         channels_' = [channels_ EXCEPT ![c] = S],
         users' = users, DOMAIN bot_users \subseteq DOMAIN bot_users'
  PROVE  /\ ChannelsOK'
         /\ MembersOf(c)' = S
         /\ \A d : d # c => MembersOf(d)' = MembersOf(d)
<1>1. IsTable(channels_', Channels, SUBSET Members)
  BY ExceptType DEF ChannelsOK
<1>2. DOMAIN channels_' = DOMAIN channels_
  OBVIOUS
<1>3. ASSUME NEW d \in DOMAIN channels_'
      PROVE  channels_'[d] \subseteq users' \cup DOMAIN bot_users'
  BY <1>2, ChannelEntry
<1>4. ChannelsOK'
  BY <1>1, <1>3 DEF ChannelsOK
<1>5. MembersOf(c)' = S /\ \A d : d # c => MembersOf(d)' = MembersOf(d)
  BY <1>2 DEF MembersOf
<1> QED BY <1>4, <1>5

\* Members leave every channel, and those left are somebody.
LEMMA FewerMembers ==
  ASSUME ChannelsOK, NEW gone,
         channels_' = [c \in DOMAIN channels_ |-> channels_[c] \ gone],
         (users \cup DOMAIN bot_users) \ gone \subseteq users' \cup DOMAIN bot_users'
  PROVE  /\ ChannelsOK'
         /\ \A c : MembersOf(c)' = MembersOf(c) \ gone
<1>1. DOMAIN channels_ \in SUBSET Channels
  BY IsTableElim DEF ChannelsOK
<1>2. channels_' \in [DOMAIN channels_ -> SUBSET Members]
  BY ChannelEntry
<1>3. IsTable(channels_', Channels, SUBSET Members)
  BY <1>1, <1>2, IsTableIntro
<1>4. ASSUME NEW d \in DOMAIN channels_'
      PROVE  channels_'[d] \subseteq users' \cup DOMAIN bot_users'
  BY ChannelEntry
<1>5. ChannelsOK'
  BY <1>3, <1>4 DEF ChannelsOK
<1>6. \A c : MembersOf(c)' = MembersOf(c) \ gone
  BY DEF MembersOf
<1> QED BY <1>5, <1>6

\* quit_bot: the bot is gone from every table, and nobody else is.
LEMMA QuitBotOK ==
  ASSUME TablesOK, LiveOK, ChannelsOK, KnownOK, NetOK, NEW b, QuitBot(b),
         users' = users, uid_counter' = uid_counter,
         DOMAIN botserv \ {b} \subseteq DOMAIN botserv'
  PROVE  /\ LiveOK' /\ ChannelsOK' /\ KnownOK' /\ on' = on
         /\ \A c : MembersOf(c) \cap Users \subseteq MembersOf(c)'
<1>0. /\ IsTable(g_bots, BotNames, Uids) /\ IsTable(bot_users, Uids, Nicks)
      /\ uid_counter \in 0..MaxUid
      /\ \A x, y \in DOMAIN g_bots : g_bots[x] = g_bots[y] => x = y
      /\ DOMAIN bot_users = {g_bots[x] : x \in DOMAIN g_bots}
      /\ \A x \in DOMAIN g_bots : g_bots[x] < uid_counter
      /\ DOMAIN g_bots \subseteq DOMAIN botserv
  BY DEF LiveOK
<1>1. CASE b \in DOMAIN g_bots
  <2> DEFINE uid == g_bots[b]
  <2>1. /\ g_bots' = Without(g_bots, b) /\ bot_users' = Without(bot_users, uid)
        /\ channels_' = [c \in DOMAIN channels_ |-> channels_[c] \ {uid}]
        /\ known' = Without(known, uid) /\ on' = {p \in on : p[2] # uid}
    BY <1>1 DEF QuitBot
  <2>2. uid \in Uids /\ uid \notin Users
    <3>1. g_bots \in [DOMAIN g_bots -> Uids]
      BY <1>0, IsTableElim
    <3> QED BY <3>1, <1>1, BotsAssumption DEF Uids
  <2>3. g_bots' = [x \in DOMAIN g_bots \ {b} |-> g_bots[x]]
    BY <2>1 DEF Without, Restrict
  <2>4. bot_users' = [i \in DOMAIN bot_users \ {uid} |-> bot_users[i]]
    BY <2>1 DEF Without, Restrict
  <2>5. known' = [i \in DOMAIN known \ {uid} |-> known[i]]
    BY <2>1 DEF Without, Restrict
  <2>6. LiveOK'
    <3>1. IsTable(g_bots', BotNames, Uids) /\ IsTable(bot_users', Uids, Nicks)
      BY <1>0, <2>1, WithoutType
    <3>2. DOMAIN bot_users' = {g_bots'[x] : x \in DOMAIN g_bots'}
      BY <1>0, <1>1, <2>3, <2>4
    <3>3. /\ \A x, y \in DOMAIN g_bots' : g_bots'[x] = g_bots'[y] => x = y
          /\ \A x \in DOMAIN g_bots' : g_bots'[x] < uid_counter'
          /\ DOMAIN g_bots' \subseteq DOMAIN botserv'
      BY <1>0, <2>3
    <3> QED BY <3>1, <3>2, <3>3, <1>0 DEF LiveOK
  <2>7. ChannelsOK' /\ \A c : MembersOf(c)' = MembersOf(c) \ {uid}
    <3>1. (users \cup DOMAIN bot_users) \ {uid} \subseteq users' \cup DOMAIN bot_users'
      BY <2>4
    <3> QED BY <3>1, <2>1, FewerMembers
  <2>8. KnownOK'
    <3>1. IsTable(known', Uids, Nicks \cup {Lost})
      BY <2>1, WithoutType DEF KnownOK
    <3> QED BY <3>1, <2>4, <2>5 DEF KnownOK, NoGhosts
  <2>9. on' = on
    BY <2>1, <2>2 DEF NetOK
  <2> QED BY <2>2, <2>6, <2>7, <2>8, <2>9
<1>2. CASE b \notin DOMAIN g_bots
  <2>1. UNCHANGED <<g_bots, bot_users, channels_, known, on>>
    BY <1>2 DEF QuitBot
  <2>2. DOMAIN g_bots' \subseteq DOMAIN botserv'
    BY <2>1, <1>0, <1>2
  <2>3. LiveOK'
    BY <2>1, <2>2 DEF LiveOK
  <2> QED BY <2>1, <2>3, SameChannels, SameKnown DEF MembersOf
<1> QED BY <1>1, <1>2

-----------------------------------------------------------------------------
(* The commands.                                                           *)

\* The network stays right while it is left alone.
LEMMA SameNet ==
  ASSUME NetOK, UNCHANGED <<users, session, online, on, erased>>
  PROVE  NetOK'
BY DEF NetOK, session

\* Nobody is missed while no user leaves the members.
LEMMA SameMissed ==
  ASSUME MissedOK, NetOK, UNCHANGED <<session, on, erased>>,
         \A c : MembersOf(c) \cap Users \subseteq MembersOf(c)'
  PROVE  MissedOK'
<1>1. SUFFICES ASSUME link # "down", NEW p \in on
               PROVE  p[1] \in due \/ p[2] \in MembersOf(p[1])' \/ p \in erased
  BY DEF MissedOK, session
<1>2. p[2] \in Users
  BY DEF NetOK
<1> QED BY <1>1, <1>2 DEF MissedOK

\* Channels left alone keep their members.
LEMMA SameMembers ==
  ASSUME UNCHANGED channels_
  PROVE  \A c : MembersOf(c)' = MembersOf(c)
BY DEF MembersOf

\* Bots get new rows, or lose them offline.
LEMMA BotAddOK ==
  ASSUME IInv, NEW b \in BotNames, NEW n \in Nicks, BotAdd(b, n)
  PROVE  IInv'
<1> USE DEF IInv
<1>1. TablesOK'
  <2>1. [assigned |-> NoChannel, nick |-> n, chan_nick |-> NoNick] \in Row
    BY DEF Row
  <2> QED BY <2>1, WithType DEF BotAdd, TablesOK
<1>2. DOMAIN botserv \subseteq DOMAIN botserv'
  BY DEF BotAdd, With
<1>3. /\ UNCHANGED <<live, users, channels_, session, online, on, known, erased>>
      /\ UNCHANGED bot_users
  BY DEF BotAdd, live
<1>4. LiveOK' /\ ChannelsOK' /\ KnownOK' /\ NetOK'
  BY <1>2, <1>3, SameLive, SameChannels, SameKnown, SameNet
<1> QED BY <1>1, <1>3, <1>4, SameMissed, SameMembers

LEMMA BotDelOK ==
  ASSUME IInv, NEW b \in BotNames, BotDel(b)
  PROVE  IInv'
<1> USE DEF IInv
<1>1. /\ QuitBot(b) /\ botserv' = Without(botserv, b)
      /\ UNCHANGED <<akick, uid_counter, users, session, online, erased>>
  BY DEF BotDel
<1>2. TablesOK'
  BY <1>1, WithoutType DEF TablesOK
<1>3. DOMAIN botserv \ {b} \subseteq DOMAIN botserv'
  BY <1>1 DEF Without, Restrict
<1>4. /\ LiveOK' /\ ChannelsOK' /\ KnownOK' /\ on' = on
      /\ \A c : MembersOf(c) \cap Users \subseteq MembersOf(c)'
  BY <1>1, <1>3, QuitBotOK
<1> QED BY <1>1, <1>2, <1>4, SameNet, SameMissed

LEMMA UnassignOK ==
  ASSUME IInv, NEW b \in BotNames, Unassign(b)
  PROVE  IInv'
<1> USE DEF IInv
<1>1. /\ b \in DOMAIN botserv
      /\ QuitBot(b) /\ botserv' = [botserv EXCEPT ![b].assigned = NoChannel]
      /\ UNCHANGED <<akick, uid_counter, users, session, online, erased>>
  BY DEF Unassign
<1>2. TablesOK' /\ DOMAIN botserv' = DOMAIN botserv
  <2>1. [botserv[b] EXCEPT !.assigned = NoChannel] \in Row
    BY <1>1, BotRow DEF Row
  <2>2. botserv' = [botserv EXCEPT ![b] = [botserv[b] EXCEPT !.assigned = NoChannel]]
    BY <1>1
  <2>3. IsTable(botserv', BotNames, Row)
    BY <2>1, <2>2, ExceptType DEF TablesOK
  <2> QED BY <1>1, <2>2, <2>3 DEF TablesOK
<1>3. DOMAIN botserv \ {b} \subseteq DOMAIN botserv'
  BY <1>2
<1>4. /\ LiveOK' /\ ChannelsOK' /\ KnownOK' /\ on' = on
      /\ \A c : MembersOf(c) \cap Users \subseteq MembersOf(c)'
  BY <1>1, <1>3, QuitBotOK
<1> QED BY <1>1, <1>2, <1>4, SameNet, SameMissed

\* ASSIGN: the bot comes online and is a member at once.
LEMMA AssignOK ==
  ASSUME IInv, NEW c \in Channels, NEW b \in BotNames, Assign(c, b)
  PROVE  IInv'
<1> USE DEF IInv
<1>1. /\ b \in DOMAIN botserv
      /\ botserv' = [botserv EXCEPT ![b].assigned = c]
      /\ UNCHANGED <<akick, users, session, online, erased>>
  BY DEF Assign
<1>2. PICK uid \in Fresh({b}) :
       /\ GoOnline(uid)
       /\ known' = Told(uid)
       /\ IF c \in DOMAIN channels_ /\ UidsOf({b}) \cap channels_[c] = {}
          THEN /\ channels_' = [channels_ EXCEPT ![c] = @ \cup UidsOf({b})]
               /\ on' = on \cup Named(c, UidsOf({b}) \cap DOMAIN known')
          ELSE UNCHANGED <<channels_, on>>
  BY DEF Assign
<1>3. TablesOK' /\ DOMAIN botserv' = DOMAIN botserv
  <2>1. [botserv[b] EXCEPT !.assigned = c] \in Row
    BY <1>1, BotRow DEF Row
  <2>2. botserv' = [botserv EXCEPT ![b] = [botserv[b] EXCEPT !.assigned = c]]
    BY <1>1
  <2>3. IsTable(botserv', BotNames, Row)
    BY <2>1, <2>2, ExceptType DEF TablesOK
  <2> QED BY <1>1, <2>2, <2>3 DEF TablesOK
<1>4. {b} \in SUBSET DOMAIN botserv /\ DOMAIN botserv \subseteq DOMAIN botserv'
  BY <1>1, <1>3
<1>5. /\ LiveOK' /\ UidsOf({b}) \subseteq DOMAIN bot_users'
      /\ DOMAIN bot_users \subseteq DOMAIN bot_users'
  BY <1>2, <1>4, Ensured
<1>6. KnownOK'
  BY <1>2, <1>4, ToldOK
<1>7. on' = on
  BY <1>2, NamedNothing
<1>8. ChannelsOK' /\ \A d : MembersOf(d) \cap Users \subseteq MembersOf(d)'
  <2>1. CASE UNCHANGED channels_
    BY <2>1, <1>1, <1>5, SameChannels, SameMembers
  <2>2. CASE c \in DOMAIN channels_ /\ channels_' = [channels_ EXCEPT ![c] = @ \cup UidsOf({b})]
    <3> DEFINE S == channels_[c] \cup UidsOf({b})
    <3>1. channels_[c] \subseteq Members /\ channels_[c] \subseteq users \cup DOMAIN bot_users
      BY <2>2, ChannelEntry
    <3>2. DOMAIN bot_users' \subseteq Uids
      BY <1>5, IsTableElim DEF LiveOK
    <3>3. S \subseteq Members /\ S \subseteq users' \cup DOMAIN bot_users'
      BY <3>1, <3>2, <1>1, <1>5 DEF Members
    <3>4. channels_' = [channels_ EXCEPT ![c] = S]
      BY <2>2
    <3>5. MembersOf(c) \subseteq S
      BY <2>2 DEF MembersOf
    <3> HIDE DEF S
    <3> QED BY <2>2, <3>3, <3>4, <3>5, <1>1, <1>5, ExceptChannel
  <2> QED BY <2>1, <2>2, <1>2
<1> QED BY <1>1, <1>3, <1>5, <1>6, <1>7, <1>8, SameNet, SameMissed

LEMMA SetBotnickOK ==
  ASSUME IInv, NEW c \in Channels, NEW n \in Nicks, SetBotnick(c, n)
  PROVE  IInv'
<1> USE DEF IInv
<1>1. PICK b \in AssignedTo(c) :
       /\ botserv' = [botserv EXCEPT ![b].chan_nick = n]
       /\ IF b \in DOMAIN g_bots
          THEN /\ bot_users' = [bot_users EXCEPT ![g_bots[b]] = n]
               /\ known' = [i \in DOMAIN known |->
                              IF i = g_bots[b] /\ known[i] # Lost THEN n ELSE known[i]]
          ELSE UNCHANGED <<bot_users, known>>
  BY DEF SetBotnick
<1>2. UNCHANGED <<akick, g_bots, uid_counter, users, channels_, session, online,
                  on, erased>>
  BY DEF SetBotnick
<1>3. b \in DOMAIN botserv
  BY <1>1, AssignedRows
<1>4. TablesOK' /\ DOMAIN botserv' = DOMAIN botserv
  <2>1. [botserv[b] EXCEPT !.chan_nick = n] \in Row
    BY <1>3, BotRow DEF Row
  <2>2. botserv' = [botserv EXCEPT ![b] = [botserv[b] EXCEPT !.chan_nick = n]]
    BY <1>1
  <2>3. IsTable(botserv', BotNames, Row)
    BY <2>1, <2>2, ExceptType DEF TablesOK
  <2> QED BY <1>2, <2>2, <2>3 DEF TablesOK
<1>5. IsTable(bot_users', Uids, Nicks) /\ DOMAIN bot_users' = DOMAIN bot_users
  BY <1>1, ExceptType DEF LiveOK
<1>6. LiveOK'
  BY <1>2, <1>4, <1>5 DEF LiveOK
<1>7. ChannelsOK'
  BY <1>2, <1>5, SameChannels
<1>8. KnownOK'
  <2>1. DOMAIN known \in SUBSET Uids /\ known \in [DOMAIN known -> Nicks \cup {Lost}]
    BY IsTableElim DEF KnownOK
  <2>2. DOMAIN known' = DOMAIN known /\ known' \in [DOMAIN known -> Nicks \cup {Lost}]
    BY <1>1, <2>1
  <2>3. IsTable(known', Uids, Nicks \cup {Lost})
    BY <2>1, <2>2, IsTableIntro
  <2>4. ASSUME NEW i \in DOMAIN known'
        PROVE  i \in DOMAIN bot_users' /\ known'[i] \in {bot_users'[i], Lost}
    <3>1. i \in DOMAIN bot_users /\ known[i] \in {bot_users[i], Lost}
      BY <2>2 DEF KnownOK, NoGhosts
    <3>2. CASE b \in DOMAIN g_bots
      BY <1>1, <2>2, <3>1, <3>2
    <3>3. CASE b \notin DOMAIN g_bots
      BY <1>1, <3>1, <3>3
    <3> QED BY <3>2, <3>3
  <2> QED BY <2>3, <2>4 DEF KnownOK, NoGhosts
<1> QED BY <1>2, <1>4, <1>6, <1>7, <1>8, SameNet, SameMissed, SameMembers

\* Who answers a fantasy command comes online as any bot does.
LEMMA AnswersOK ==
  ASSUME IInv, NEW c, NEW heard, Answers(c, heard), UNCHANGED tables
  PROVE  /\ TablesOK' /\ LiveOK' /\ KnownOK'
         /\ DOMAIN bot_users \subseteq DOMAIN bot_users'
<1> USE DEF IInv
<1>1. botserv' = botserv /\ akick' = akick
  BY DEF tables
<1>2. TablesOK'
  BY <1>1 DEF TablesOK
<1>3. CASE UNCHANGED <<live, known>>
  BY <1>3, SameBots
<1>4. CASE \E b \in AssignedTo(c) : \E uid \in Fresh({b}) : GoOnline(uid) /\ known' = Told(uid)
  <2>1. PICK b \in AssignedTo(c) :
          \E uid \in Fresh({b}) : GoOnline(uid) /\ known' = Told(uid)
    BY <1>4
  <2>2. PICK uid \in Fresh({b}) : GoOnline(uid) /\ known' = Told(uid)
    BY <2>1
  <2>3. {b} \in SUBSET DOMAIN botserv /\ DOMAIN botserv \subseteq DOMAIN botserv'
    BY <1>1, AssignedRows
  <2>4. LiveOK' /\ DOMAIN bot_users \subseteq DOMAIN bot_users'
    BY <2>2, <2>3, Ensured
  <2>5. KnownOK'
    BY <2>2, <2>3, ToldOK
  <2> QED BY <1>2, <2>4, <2>5
<1> QED BY <1>3, <1>4 DEF Answers

LEMMA FantasyOK ==
  ASSUME IInv, NEW c \in Channels, Fantasy(c)
  PROVE  IInv'
<1> USE DEF IInv
<1>1. /\ \E heard : Answers(c, heard)
      /\ UNCHANGED <<tables, users, channels_, session, online, on, erased>>
  BY DEF Fantasy
<1>2. /\ TablesOK' /\ LiveOK' /\ KnownOK'
      /\ DOMAIN bot_users \subseteq DOMAIN bot_users'
  BY <1>1, AnswersOK
<1> QED BY <1>1, <1>2, SameChannels, SameNet, SameMissed, SameMembers

\* !kick: fewer are on the channel, and the members stay.
LEMMA KickOK ==
  ASSUME IInv, NEW c \in Channels, NEW t \in Members, Kick(c, t)
  PROVE  IInv'
<1> USE DEF IInv
<1>1. /\ \E heard : Answers(c, heard)
      /\ on' \subseteq on
      /\ erased' = erased \cap on'
      /\ UNCHANGED <<tables, users, channels_, session, online>>
  BY DEF Kick
<1>2. /\ TablesOK' /\ LiveOK' /\ KnownOK'
      /\ DOMAIN bot_users \subseteq DOMAIN bot_users'
  BY <1>1, AnswersOK
<1>3. ChannelsOK'
  BY <1>1, <1>2, SameChannels
<1>4. NetOK'
  BY <1>1 DEF NetOK, session
<1>5. MissedOK'
  BY <1>1, SameMembers DEF MissedOK, session
<1> QED BY <1>2, <1>3, <1>4, <1>5

\* !kickban: who leaves the members is off the channel, or erased.
LEMMA KickBanOK ==
  ASSUME IInv, NEW c \in Channels, NEW t \in Members, KickBan(c, t)
  PROVE  IInv'
<1> USE DEF IInv
<1>1. /\ \E heard : Answers(c, heard)
      /\ on' \subseteq on
      /\ erased' = (erased \cup {<<c, t>>}) \cap on'
      /\ channels_' = IF c \in DOMAIN channels_
                      THEN [channels_ EXCEPT ![c] = @ \ {t}] ELSE channels_
      /\ UNCHANGED <<tables, users, session, online>>
  BY DEF KickBan
<1>2. /\ TablesOK' /\ LiveOK' /\ KnownOK'
      /\ DOMAIN bot_users \subseteq DOMAIN bot_users'
  BY <1>1, AnswersOK
<1>3. NetOK'
  BY <1>1 DEF NetOK, session
<1>4. /\ ChannelsOK'
      /\ \A d : MembersOf(d) \ {t} \subseteq MembersOf(d)'
      /\ \A d : d # c => MembersOf(d)' = MembersOf(d)
  <2>1. CASE channels_' = channels_
    BY <2>1, <1>1, <1>2, SameChannels, SameMembers
  <2>2. CASE c \in DOMAIN channels_ /\ channels_' = [channels_ EXCEPT ![c] = @ \ {t}]
    <3> DEFINE S == channels_[c] \ {t}
    <3>1. channels_[c] \subseteq Members /\ channels_[c] \subseteq users \cup DOMAIN bot_users
      BY <2>2, ChannelEntry
    <3>2. S \subseteq Members /\ S \subseteq users' \cup DOMAIN bot_users'
      BY <1>1, <1>2, <3>1
    <3>3. channels_' = [channels_ EXCEPT ![c] = S] /\ MembersOf(c) \ {t} \subseteq S
      BY <2>2 DEF MembersOf
    <3> HIDE DEF S
    <3>4. users' = users
      BY <1>1
    <3>5. /\ ChannelsOK' /\ MembersOf(c)' = S
          /\ \A d : d # c => MembersOf(d)' = MembersOf(d)
      BY <1>2, <2>2, <3>2, <3>3, <3>4, ExceptChannel
    <3> QED BY <3>3, <3>5
  <2> QED BY <2>1, <2>2, <1>1
<1>5. MissedOK'
  <2>1. SUFFICES ASSUME link # "down", NEW p \in on', p # <<c, t>>
                 PROVE  p[1] \in due \/ p[2] \in MembersOf(p[1])' \/ p \in erased'
    BY <1>1 DEF MissedOK, session
  <2>2. p[1] \in due \/ p[2] \in MembersOf(p[1]) \/ p \in erased
    BY <1>1, <2>1 DEF MissedOK
  <2>3. p = <<p[1], p[2]>>
    BY <1>1 DEF NetOK
  <2>4. CASE p[1] = c
    BY <1>1, <2>1, <2>2, <2>3, <2>4, <1>4
  <2>5. CASE p[1] # c
    BY <1>1, <2>1, <2>2, <2>5, <1>4
  <2> QED BY <2>4, <2>5
<1> QED BY <1>2, <1>3, <1>4, <1>5

\* AKICK ADD: who leaves the members is erased.
LEMMA AkickAddOK ==
  ASSUME IInv, NEW c \in Channels, NEW u \in Users, AkickAdd(c, u)
  PROVE  IInv'
<1> USE DEF IInv
<1>1. /\ akick' = akick \cup {<<c, u>>}
      /\ UNCHANGED <<botserv, live, users, session, online, known>>
      /\ UNCHANGED bot_users
  BY DEF AkickAdd, live
<1>2. TablesOK'
  BY <1>1 DEF TablesOK
<1>3. LiveOK' /\ KnownOK'
  BY <1>1, SameLive, SameKnown
<1>4. CASE u \in users \cap MembersOf(c)
  <2>1. /\ channels_' = [channels_ EXCEPT ![c] = @ \ {u}]
        /\ on' = on /\ erased' = (erased \cup {<<c, u>>}) \cap on'
    BY <1>4, NamedNothing DEF AkickAdd
  <2>2. c \in DOMAIN channels_
    BY <1>4 DEF MembersOf
  <2>3. channels_[c] \subseteq Members /\ channels_[c] \subseteq users \cup DOMAIN bot_users
    BY <2>2, ChannelEntry
  <2> DEFINE S == channels_[c] \ {u}
  <2>4. S \subseteq Members /\ S \subseteq users' \cup DOMAIN bot_users'
    BY <1>1, <2>3
  <2>5. MembersOf(c) = S \cup {u}
    BY <1>4, <2>2 DEF MembersOf
  <2>6. channels_' = [channels_ EXCEPT ![c] = S]
    BY <2>1
  <2> HIDE DEF S
  <2>7. /\ ChannelsOK' /\ MembersOf(c)' = S
        /\ \A d : d # c => MembersOf(d)' = MembersOf(d)
    BY <1>1, <2>2, <2>4, <2>6, ExceptChannel
  <2>8. NetOK'
    BY <1>1, <2>1 DEF NetOK, session
  <2>9. MissedOK'
    <3>1. SUFFICES ASSUME link # "down", NEW p \in on
                   PROVE  p[1] \in due \/ p[2] \in MembersOf(p[1])' \/ p \in erased'
      BY <1>1, <2>1 DEF MissedOK, session
    <3>2. p[1] \in due \/ p[2] \in MembersOf(p[1]) \/ p \in erased
      BY <3>1 DEF MissedOK
    <3>3. p = <<p[1], p[2]>>
      BY DEF NetOK
    <3>4. CASE p[1] = c
      BY <3>1, <3>2, <3>3, <3>4, <2>1, <2>5, <2>7
    <3>5. CASE p[1] # c
      BY <3>1, <3>2, <3>5, <2>1, <2>7
    <3> QED BY <3>4, <3>5
  <2> QED BY <1>2, <1>3, <2>7, <2>8, <2>9
<1>5. CASE u \notin users \cap MembersOf(c)
  <2>1. UNCHANGED <<channels_, on, erased>>
    BY <1>5 DEF AkickAdd
  <2> QED BY <1>1, <1>2, <1>3, <2>1, SameChannels, SameNet, SameMissed, SameMembers
<1> QED BY <1>4, <1>5

LEMMA AkickDelOK ==
  ASSUME IInv, NEW c \in Channels, NEW u \in Users, AkickDel(c, u)
  PROVE  IInv'
<1> USE DEF IInv
<1>1. /\ akick' = akick \ {<<c, u>>}
      /\ UNCHANGED <<botserv, live, users, channels_, session, online, on, known, erased>>
      /\ UNCHANGED bot_users
  BY DEF AkickDel, live
<1>2. TablesOK'
  BY <1>1 DEF TablesOK
<1> QED BY <1>1, <1>2, SameLive, SameKnown, SameChannels, SameNet, SameMissed, SameMembers

-----------------------------------------------------------------------------
(* The network.                                                            *)

LEMMA ConnectsOK ==
  ASSUME IInv, NEW u \in Users, Connects(u)
  PROVE  IInv'
<1> USE DEF IInv
<1>1. /\ link # "burst" /\ online' = online \cup {u}
      /\ users' = IF link = "linked" THEN users \cup {u} ELSE users
      /\ UNCHANGED <<tables, live, channels_, session, on, known, erased>>
  BY DEF Connects, Heard
<1>2. TablesOK' /\ LiveOK' /\ KnownOK' /\ bot_users' = bot_users
  BY <1>1, SameBots
<1>3. ChannelsOK'
  BY <1>1, <1>2, SameChannels
<1>4. NetOK'
  BY <1>1 DEF NetOK, session
<1> QED BY <1>1, <1>2, <1>3, <1>4, SameMissed, SameMembers

\* handle_fjoin: those announced become members.
LEMMA FjoinOK ==
  ASSUME IInv, NEW c \in Channels, NEW S \in SUBSET users, NEW now,
         Fjoin(c, S, now), UNCHANGED <<tables, users>>
  PROVE  /\ TablesOK' /\ LiveOK' /\ ChannelsOK' /\ KnownOK' /\ on' = now
         /\ S \cup MembersOf(c) \subseteq MembersOf(c)'
         /\ \A d : d # c => MembersOf(d)' = MembersOf(d)
         /\ erased' = erased \ ({c} \X S)
<1> USE DEF IInv
<1> DEFINE M == MembersOf(c) \cup S
<1>1. M \in SUBSET (users \cup DOMAIN bot_users)
  BY MembersType
<1>2. KeepJoined(c, M, now) /\ erased' = erased \ ({c} \X S)
  BY DEF Fjoin
<1>3. users \subseteq Users
  BY DEF NetOK
<1> HIDE DEF M
<1>4. /\ LiveOK' /\ ChannelsOK' /\ KnownOK' /\ on' = now
      /\ M \subseteq MembersOf(c)'
      /\ \A d : d # c => MembersOf(d)' = MembersOf(d)
  BY <1>1, <1>2, <1>3, KeptJoined
<1>5. TablesOK'
  BY DEF TablesOK, tables
<1> QED BY <1>2, <1>4, <1>5 DEF M

\* A user who joins a channel is a member, or erased.
LEMMA JoinsOK ==
  ASSUME IInv, NEW u \in Users, NEW c \in Channels, Joins(u, c)
  PROVE  IInv'
<1> USE DEF IInv
<1> DEFINE now == on \cup {<<c, u>>}
<1>1. /\ link # "burst" /\ u \in online
      /\ UNCHANGED <<tables, users, session, online>>
  BY DEF Joins
<1>2. CASE link # "linked"
  <2>1. on' = now /\ UNCHANGED <<live, channels_, known, erased>>
    BY <1>2 DEF Joins, Heard
  <2>2. TablesOK' /\ LiveOK' /\ KnownOK' /\ bot_users' = bot_users
    BY <1>1, <2>1, SameBots
  <2>3. ChannelsOK'
    BY <1>1, <2>1, <2>2, SameChannels
  <2>4. NetOK'
    BY <1>1, <2>1 DEF NetOK, session
  <2>5. MissedOK'
    BY <1>1, <1>2 DEF NetOK, MissedOK, session
  <2> QED BY <2>2, <2>3, <2>4, <2>5
<1>3. CASE link = "linked"
  <2>1. u \in users /\ due = {} /\ users \subseteq Users
    BY <1>1, <1>3 DEF NetOK
  <2>2. \A p \in on : p[2] \in MembersOf(p[1]) \/ p \in erased
    BY <1>3, <2>1 DEF MissedOK
  <2>3. \A p \in on : p = <<p[1], p[2]>>
    BY DEF NetOK
  <2>4. SUFFICES
          /\ TablesOK' /\ LiveOK' /\ ChannelsOK' /\ KnownOK' /\ on' \subseteq now
          /\ erased' \subseteq erased \cup {<<c, u>>}
          /\ u \in MembersOf(c)' \/ <<c, u>> \in erased'
          /\ \A p \in on : p[2] \in MembersOf(p[1]) \/ p \in erased
                             => p[2] \in MembersOf(p[1])' \/ p \in erased'
    <3>1. NetOK'
      BY <1>1, <2>4 DEF NetOK, session
    <3>2. MissedOK'
      BY <2>2, <2>4 DEF MissedOK
    <3> QED BY <2>4, <3>1, <3>2
  <2>5. CASE Fjoin(c, {u}, now)
    <3>1. /\ TablesOK' /\ LiveOK' /\ ChannelsOK' /\ KnownOK' /\ on' = now
          /\ {u} \cup MembersOf(c) \subseteq MembersOf(c)'
          /\ \A d : d # c => MembersOf(d)' = MembersOf(d)
          /\ erased' = erased \ ({c} \X {u})
      <4>1. {u} \in SUBSET users
        BY <2>1
      <4> HIDE DEF now
      <4> QED BY <1>1, <2>5, <4>1, FjoinOK
    <3>2. ASSUME NEW p \in on, p[2] \in MembersOf(p[1]) \/ p \in erased
          PROVE  p[2] \in MembersOf(p[1])' \/ p \in erased'
      <4>1. CASE p[1] = c
        BY <4>1, <3>1, <3>2, <2>3
      <4>2. CASE p[1] # c
        BY <4>2, <3>1, <3>2, <2>3
      <4> QED BY <4>1, <4>2
    <3> QED BY <3>1, <3>2
  <2>6. CASE Ijoin(c, u, now)
    <3>1. MembersOf(c) \subseteq users \cup DOMAIN bot_users
      BY MembersType
    <3>2. TablesOK'
      BY <1>1 DEF TablesOK, tables
    <3>3. PICK M \in {MembersOf(c) \ {u}, MembersOf(c) \cup {u}} :
            /\ KeepJoined(c, M, now)
            /\ M = MembersOf(c) \ {u} => erased' = erased \cup {<<c, u>>}
            /\ M # MembersOf(c) \ {u} => erased' = erased \ {<<c, u>>}
      <4>1. now \ Named(c, {u}) = now
        BY NamedNothing
      <4> QED BY <2>6, <4>1 DEF Ijoin
    <3>4. M \in SUBSET (users \cup DOMAIN bot_users)
      BY <3>1, <2>1
    <3>5. /\ LiveOK' /\ ChannelsOK' /\ KnownOK' /\ on' = now
          /\ M \subseteq MembersOf(c)'
          /\ \A d : d # c => MembersOf(d)' = MembersOf(d)
      <4> HIDE DEF now
      <4> QED BY <1>1, <2>1, <3>3, <3>4, KeptJoined
    <3>6. ASSUME NEW p \in on, p[2] \in MembersOf(p[1]) \/ p \in erased
          PROVE  p[2] \in MembersOf(p[1])' \/ p \in erased'
      <4>1. CASE p[1] = c
        BY <4>1, <3>3, <3>5, <3>6, <2>3
      <4>2. CASE p[1] # c
        BY <4>2, <3>3, <3>5, <3>6, <2>3
      <4> QED BY <4>1, <4>2
    <3>7. u \in MembersOf(c)' \/ <<c, u>> \in erased'
      BY <3>3, <3>5
    <3>8. erased' \subseteq erased \cup {<<c, u>>}
      BY <3>3
    <3> QED BY <3>2, <3>5, <3>6, <3>7, <3>8
  <2> QED BY <1>3, <2>5, <2>6 DEF Joins, Heard
<1> QED BY <1>2, <1>3

LEMMA PartsOK ==
  ASSUME IInv, NEW u \in Users, NEW c \in Channels, Parts(u, c)
  PROVE  IInv'
<1> USE DEF IInv
<1>1. /\ link # "burst" /\ on' = on \ {<<c, u>>}
      /\ channels_' = IF link = "linked" /\ c \in DOMAIN channels_
                      THEN [channels_ EXCEPT ![c] = @ \ {u}] ELSE channels_
      /\ erased' = erased \cap on'
      /\ UNCHANGED <<tables, live, users, session, online, known>>
  BY DEF Parts, Heard
<1>2. TablesOK' /\ LiveOK' /\ KnownOK' /\ bot_users' = bot_users
  BY <1>1, SameBots
<1>3. NetOK'
  BY <1>1 DEF NetOK, session
<1>4. /\ ChannelsOK'
      /\ \A d : MembersOf(d) \ {u} \subseteq MembersOf(d)'
      /\ \A d : d # c => MembersOf(d)' = MembersOf(d)
  <2>1. CASE channels_' = channels_
    BY <2>1, <1>1, <1>2, SameChannels, SameMembers
  <2>2. CASE c \in DOMAIN channels_ /\ channels_' = [channels_ EXCEPT ![c] = @ \ {u}]
    <3> DEFINE S == channels_[c] \ {u}
    <3>1. channels_[c] \subseteq Members /\ channels_[c] \subseteq users \cup DOMAIN bot_users
      BY <2>2, ChannelEntry
    <3>2. S \subseteq Members /\ S \subseteq users' \cup DOMAIN bot_users'
      BY <1>1, <1>2, <3>1
    <3>3. channels_' = [channels_ EXCEPT ![c] = S] /\ MembersOf(c) \ {u} \subseteq S
      BY <2>2 DEF MembersOf
    <3> HIDE DEF S
    <3> QED BY <1>1, <1>2, <2>2, <3>2, <3>3, ExceptChannel
  <2> QED BY <2>1, <2>2, <1>1
<1>5. MissedOK'
  <2>1. SUFFICES ASSUME link # "down", NEW p \in on', p # <<c, u>>
                 PROVE  p[1] \in due \/ p[2] \in MembersOf(p[1])' \/ p \in erased'
    BY <1>1 DEF MissedOK, session
  <2>2. p[1] \in due \/ p[2] \in MembersOf(p[1]) \/ p \in erased
    BY <1>1, <2>1 DEF MissedOK
  <2>3. p = <<p[1], p[2]>>
    BY <1>1 DEF NetOK
  <2>4. CASE p[1] = c
    BY <1>1, <2>1, <2>2, <2>3, <2>4, <1>4
  <2>5. CASE p[1] # c
    BY <1>1, <2>1, <2>2, <2>5, <1>4
  <2> QED BY <2>4, <2>5
<1> QED BY <1>2, <1>3, <1>4, <1>5

\* QUIT and SQUIT: those who leave the model are those who left.
LEMMA LeaveOK ==
  ASSUME IInv, NEW S, NEW gone, Leave(S, gone),
         gone \subseteq Users, gone \cap online \subseteq S
  PROVE  IInv'
<1> USE DEF IInv
<1>1. /\ link # "burst" /\ online' = online \ S
      /\ on' = {p \in on : p[2] \notin S}
      /\ IF link = "linked"
         THEN /\ users' = users \ gone
              /\ channels_' = [c \in DOMAIN channels_ |-> channels_[c] \ gone]
         ELSE UNCHANGED <<users, channels_>>
      /\ erased' = erased \cap on'
      /\ UNCHANGED <<tables, live, session, known>>
  BY DEF Leave, Heard
<1>2. TablesOK' /\ LiveOK' /\ KnownOK' /\ bot_users' = bot_users
  BY <1>1, SameBots
<1>3. \A p \in on : p = <<p[1], p[2]>> /\ p[1] \in Channels /\ p[2] \in online
  BY DEF NetOK
<1>4. NetOK'
  <2>1. on' \subseteq Channels \X online'
    BY <1>1, <1>3
  <2> QED BY <1>1, <2>1 DEF NetOK, session
<1>5. CASE link = "linked"
  <2>1. (users \cup DOMAIN bot_users) \ gone \subseteq users' \cup DOMAIN bot_users'
    BY <1>1, <1>2, <1>5
  <2>2. ChannelsOK' /\ \A c : MembersOf(c)' = MembersOf(c) \ gone
    BY <1>1, <1>5, <2>1, FewerMembers
  <2>3. MissedOK'
    <3>1. SUFFICES ASSUME NEW p \in on, p[2] \notin S
                   PROVE  p[1] \in due \/ p[2] \in MembersOf(p[1])' \/ p \in erased'
      BY <1>1 DEF MissedOK, session
    <3>2. p[1] \in due \/ p[2] \in MembersOf(p[1]) \/ p \in erased
      BY <1>5 DEF MissedOK
    <3>3. p[2] \notin gone
      BY <1>3, <3>1
    <3> QED BY <1>1, <2>2, <3>1, <3>2, <3>3
  <2> QED BY <1>2, <1>4, <2>2, <2>3
<1>6. CASE link # "linked"
  <2>1. UNCHANGED <<users, channels_>>
    BY <1>1, <1>6
  <2>2. ChannelsOK'
    BY <1>2, <2>1, SameChannels
  <2>3. MissedOK'
    BY <1>1, <1>6 DEF NetOK, MissedOK, session
  <2> QED BY <1>2, <1>4, <2>2, <2>3
<1> QED BY <1>5, <1>6

LEMMA SquitOK ==
  ASSUME IInv, NEW s \in Sids, Squit(s)
  PROVE  IInv'
<1> DEFINE S == {u \in online : SidOf[u] = s}
<1> DEFINE gone == {u \in users : SidOf[u] = s}
<1>1. Leave(S, gone)
  BY DEF Squit
<1>2. gone \subseteq Users /\ gone \cap online \subseteq S
  BY DEF IInv, NetOK
<1> HIDE DEF S, gone
<1> QED BY <1>1, <1>2, LeaveOK

LEMMA TakenAwayOK ==
  ASSUME IInv, NEW uid \in Uids, TakenAway(uid)
  PROVE  IInv'
<1> USE DEF IInv
<1>1. /\ uid \in DOMAIN known /\ known' = [known EXCEPT ![uid] = Lost]
      /\ on' = {p \in on : p[2] # uid}
      /\ UNCHANGED <<tables, live, users, channels_, session, online, erased>>
  BY DEF TakenAway
<1>2. botserv' = botserv /\ akick' = akick /\ bot_users' = bot_users
  BY <1>1 DEF tables, live
<1>3. on' = on
  <2>1. \A p \in on : p[2] \in Users
    BY DEF NetOK
  <2>2. uid \notin Users
    BY BotsAssumption DEF Uids
  <2> QED BY <1>1, <2>1, <2>2
<1>4. KnownOK'
  <2>1. IsTable(known', Uids, Nicks \cup {Lost})
    BY <1>1, ExceptType DEF KnownOK
  <2> QED BY <2>1, <1>1, <1>2 DEF KnownOK, NoGhosts
<1>5. TablesOK' /\ LiveOK' /\ ChannelsOK'
  BY <1>1, <1>2, SameLive, SameChannels DEF TablesOK
<1> QED BY <1>1, <1>3, <1>4, <1>5, SameNet, SameMissed, SameMembers

-----------------------------------------------------------------------------
(* The link.                                                               *)

\* Without a link the ircd has no bots, and nobody is looked for.
LEMMA GoDownOK ==
  ASSUME IInv, GoDown
  PROVE  IInv'
<1> USE DEF IInv
<1>1. /\ link' = "down" /\ due' = {} /\ known' = NoFunction
      /\ on' = {p \in on : p[2] \in Users}
      /\ UNCHANGED <<tables, live, users, channels_, online, erased>>
  BY DEF GoDown
<1>2. botserv' = botserv /\ akick' = akick /\ bot_users' = bot_users
  BY <1>1 DEF tables, live
<1>3. KnownOK'
  BY <1>1, NoFunctionType DEF KnownOK, NoGhosts, NoFunction
<1>4. NetOK' /\ MissedOK'
  BY <1>1 DEF NetOK, MissedOK
<1> QED BY <1>1, <1>2, <1>3, <1>4, SameLive, SameChannels DEF TablesOK

\* Our burst tells of the assigned bots, and those told of are online.
LEMMA BurstOK ==
  ASSUME IInv, Burst
  PROVE  IInv'
<1> USE DEF IInv
<1> DEFINE told == {b \in DOMAIN botserv : botserv[b].assigned # NoChannel}
<1> DEFINE B(c) == AssignedTo(ChannelName(c))
<1> DEFINE kept == UNION {B(c) : c \in DOMAIN channels_}
<1>1. /\ link' = "burst"
      /\ due' = {c \in Channels : \E u \in Users : <<c, u>> \in on}
      /\ UNCHANGED <<users, online, on, erased>>
      /\ botserv' = botserv /\ akick' = akick
  BY DEF Burst, tables
<1>2. PICK uid \in Fresh(told \cup kept) :
        /\ GoOnline(uid)
        /\ known' = [i \in UidsOf(told) |-> bot_users'[i]]
        /\ channels_' = [c \in DOMAIN channels_ |-> channels_[c] \cup UidsOf(B(c))]
  BY DEF Burst
<1>3. told \cup kept \in SUBSET DOMAIN botserv
  BY AssignedRows
<1>4. \A c \in DOMAIN channels_ : UidsOf(B(c)) \subseteq UidsOf(told \cup kept)
  BY DEF UidsOf
<1>5. UidsOf(told) \subseteq UidsOf(told \cup kept)
  BY DEF UidsOf
<1> HIDE DEF told, B, kept
<1>6. /\ LiveOK' /\ UidsOf(told \cup kept) \subseteq DOMAIN bot_users'
      /\ DOMAIN bot_users \subseteq DOMAIN bot_users'
  BY <1>1, <1>2, <1>3, Ensured
<1>7. /\ DOMAIN bot_users' \subseteq Uids
      /\ bot_users' \in [DOMAIN bot_users' -> Nicks]
  BY <1>6, IsTableElim DEF LiveOK
<1>8. KnownOK'
  <2> DEFINE D == UidsOf(told)
  <2>1. D \in SUBSET Uids /\ D \subseteq DOMAIN bot_users'
    BY <1>5, <1>6, <1>7
  <2>2. known' = [i \in D |-> bot_users'[i]]
    BY <1>2
  <2> HIDE DEF D
  <2>3. known' \in [D -> Nicks \cup {Lost}]
    BY <2>1, <2>2, <1>7
  <2>4. IsTable(known', Uids, Nicks \cup {Lost})
    BY <2>1, <2>3, IsTableIntro
  <2> QED BY <2>1, <2>2, <2>4 DEF KnownOK, NoGhosts
<1>9. ChannelsOK'
  <2>1. DOMAIN channels_ \in SUBSET Channels
    BY IsTableElim DEF ChannelsOK
  <2>2. ASSUME NEW c \in DOMAIN channels_
        PROVE  /\ channels_[c] \cup UidsOf(B(c)) \in SUBSET Members
               /\ channels_[c] \cup UidsOf(B(c)) \subseteq users' \cup DOMAIN bot_users'
    <3>1. channels_[c] \subseteq Members /\ channels_[c] \subseteq users \cup DOMAIN bot_users
      BY ChannelEntry
    <3>2. UidsOf(B(c)) \subseteq DOMAIN bot_users' /\ UidsOf(B(c)) \subseteq Members
      BY <1>4, <1>6, <1>7 DEF Members
    <3> QED BY <3>1, <3>2, <1>1, <1>6
  <2>3. channels_' \in [DOMAIN channels_ -> SUBSET Members]
    BY <1>2, <2>2
  <2>4. IsTable(channels_', Channels, SUBSET Members)
    BY <2>1, <2>3, IsTableIntro
  <2>5. \A c \in DOMAIN channels_' : channels_'[c] \subseteq users' \cup DOMAIN bot_users'
    BY <1>2, <2>2
  <2> QED BY <2>4, <2>5 DEF ChannelsOK
<1>10. TablesOK'
  BY <1>1 DEF TablesOK
<1>11. NetOK'
  BY <1>1 DEF NetOK
<1>12. MissedOK'
  <2>1. ASSUME NEW p \in on PROVE p[1] \in due'
    <3>1. p = <<p[1], p[2]>> /\ p[1] \in Channels /\ p[2] \in Users
      BY DEF NetOK
    <3> QED BY <3>1, <1>1
  <2> QED BY <2>1, <1>1 DEF MissedOK
<1> QED BY <1>6, <1>8, <1>9, <1>10, <1>11, <1>12

LEMMA BurstUserOK ==
  ASSUME IInv, NEW u \in Users, BurstUser(u)
  PROVE  IInv'
<1> USE DEF IInv
<1>1. /\ users' = users \cup {u} /\ link = "burst"
      /\ UNCHANGED <<tables, live, channels_, session, online, on, known, erased>>
  BY DEF BurstUser
<1>2. TablesOK' /\ LiveOK' /\ KnownOK' /\ bot_users' = bot_users
  BY <1>1, SameBots
<1>3. ChannelsOK'
  BY <1>1, <1>2, SameChannels
<1>4. NetOK'
  BY <1>1 DEF NetOK, session
<1> QED BY <1>1, <1>2, <1>3, <1>4, SameMissed, SameMembers

\* The FJOIN of a burst brings everybody who is on the channel.
LEMMA BurstChannelOK ==
  ASSUME IInv, NEW c \in Channels, BurstChannel(c)
  PROVE  IInv'
<1> USE DEF IInv
<1> DEFINE S == {u \in Users : <<c, u>> \in on}
<1>1. /\ link = "burst" /\ online \subseteq users /\ Fjoin(c, S, on)
      /\ due' = due \ {c}
      /\ UNCHANGED <<tables, users, link, online>>
  BY DEF BurstChannel
<1>2. S \in SUBSET users
  BY <1>1 DEF NetOK
<1>3. \A p \in on : p = <<p[1], p[2]>> /\ p[2] \in Users
  BY DEF NetOK
<1>4. \A p \in on : p[1] = c => p[2] \in S
  BY <1>3
<1> HIDE DEF S
<1>5. /\ TablesOK' /\ LiveOK' /\ ChannelsOK' /\ KnownOK' /\ on' = on
      /\ S \cup MembersOf(c) \subseteq MembersOf(c)'
      /\ \A d : d # c => MembersOf(d)' = MembersOf(d)
      /\ erased' = erased \ ({c} \X S)
  BY <1>1, <1>2, FjoinOK
<1>6. NetOK'
  BY <1>1, <1>5 DEF NetOK
<1>7. MissedOK'
  <2>1. SUFFICES ASSUME NEW p \in on
                 PROVE  p[1] \in due' \/ p[2] \in MembersOf(p[1])' \/ p \in erased'
    BY <1>5 DEF MissedOK
  <2>2. CASE p[1] = c
    BY <2>2, <1>4, <1>5
  <2>3. CASE p[1] # c
    <3>1. p[1] \in due \/ p[2] \in MembersOf(p[1]) \/ p \in erased
      BY <1>1 DEF MissedOK
    <3> QED BY <2>3, <3>1, <1>1, <1>3, <1>5
  <2> QED BY <2>2, <2>3
<1> QED BY <1>5, <1>6, <1>7

LEMMA EndBurstOK ==
  ASSUME IInv, EndBurst
  PROVE  IInv'
<1> USE DEF IInv
<1>1. /\ link = "burst" /\ online \subseteq users /\ due = {} /\ link' = "linked"
      /\ UNCHANGED <<tables, live, users, channels_, due, online, on, known, erased>>
  BY DEF EndBurst
<1>2. TablesOK' /\ LiveOK' /\ KnownOK' /\ bot_users' = bot_users
  BY <1>1, SameBots
<1>3. ChannelsOK'
  BY <1>1, <1>2, SameChannels
<1>4. NetOK'
  BY <1>1 DEF NetOK
<1>5. MissedOK'
  BY <1>1, SameMembers DEF MissedOK
<1> QED BY <1>2, <1>3, <1>4, <1>5

\* What a start begins with is right, whatever the tables hold.
LEMMA NothingRunning ==
  ASSUME g_bots = NoFunction, bot_users = NoFunction, uid_counter = 0,
         channels_ = NoFunction, known = NoFunction, link = "down"
  PROVE  LiveOK /\ ChannelsOK /\ KnownOK /\ MissedOK
<1>1. DOMAIN NoFunction = {}
  BY DEF NoFunction
<1>2. LiveOK
  BY <1>1, NoFunctionType, BotsAssumption DEF LiveOK
<1>3. ChannelsOK /\ KnownOK
  BY <1>1, NoFunctionType DEF ChannelsOK, KnownOK, NoGhosts
<1> QED BY <1>2, <1>3 DEF MissedOK

LEMMA NothingRunningNext ==
  ASSUME g_bots' = NoFunction, bot_users' = NoFunction, uid_counter' = 0,
         channels_' = NoFunction, known' = NoFunction, link' = "down"
  PROVE  LiveOK' /\ ChannelsOK' /\ KnownOK' /\ MissedOK'
<1>1. DOMAIN NoFunction = {}
  BY DEF NoFunction
<1>2. LiveOK'
  BY <1>1, NoFunctionType, BotsAssumption DEF LiveOK
<1>3. ChannelsOK' /\ KnownOK'
  BY <1>1, NoFunctionType DEF ChannelsOK, KnownOK, NoGhosts
<1> QED BY <1>2, <1>3 DEF MissedOK

LEMMA DieOK ==
  ASSUME IInv, Die
  PROVE  IInv'
<1>1. LiveOK' /\ ChannelsOK' /\ KnownOK' /\ MissedOK'
  BY NothingRunningNext DEF Die
<1>2. TablesOK'
  BY DEF IInv, TablesOK, Die, tables
<1>3. NetOK'
  BY DEF IInv, NetOK, Die
<1> QED BY <1>1, <1>2, <1>3 DEF IInv

-----------------------------------------------------------------------------
(* The theorems.                                                           *)

LEMMA InitOK == Init => IInv
<1> SUFFICES ASSUME Init PROVE IInv
  OBVIOUS
<1>1. LiveOK /\ ChannelsOK /\ KnownOK /\ MissedOK
  BY NothingRunning DEF Init
<1>2. TablesOK
  BY NoFunctionType DEF Init, TablesOK
<1>3. NetOK
  BY DEF Init, NetOK
<1> QED BY <1>1, <1>2, <1>3 DEF IInv

LEMMA NextOK == IInv /\ [Next]_vars => IInv'
<1> SUFFICES ASSUME IInv, [Next]_vars PROVE IInv'
  OBVIOUS
<1>1. CASE Commands
  BY <1>1, BotAddOK, BotDelOK, UnassignOK, AssignOK, FantasyOK, KickOK,
     KickBanOK, SetBotnickOK, AkickAddOK, AkickDelOK DEF Commands
<1>2. CASE Network
  <2>1. ASSUME NEW u \in Users, Quits(u) PROVE IInv'
    BY <2>1, LeaveOK DEF Quits
  <2> QED BY <1>2, <2>1, ConnectsOK, JoinsOK, PartsOK, SquitOK, TakenAwayOK DEF Network
<1>3. CASE Linking
  BY <1>3, GoDownOK, BurstOK, EndBurstOK, DieOK, BurstUserOK, BurstChannelOK DEF Linking
<1>4. CASE UNCHANGED vars
  <2>1. /\ UNCHANGED <<tables, live, known, users, channels_, session, online, on, erased>>
    BY <1>4 DEF vars, tables, live, session
  <2>2. TablesOK' /\ LiveOK' /\ KnownOK' /\ bot_users' = bot_users
    BY <2>1, SameBots
  <2> QED BY <2>1, <2>2, SameChannels, SameNet, SameMissed, SameMembers DEF IInv
<1> QED BY <1>1, <1>2, <1>3, <1>4 DEF Next

\* The inductive invariant holds.
THEOREM BotsInvariant == Spec => []IInv
BY InitOK, NextOK, PTL DEF Spec

\* The type invariant, for any number of bots, users and channels.
THEOREM BotsTypeOK == Spec => []TypeOK
<1>1. IInv => TypeOK
  BY DEF IInv, TablesOK, LiveOK, ChannelsOK, KnownOK, NetOK, TypeOK, Members
<1> QED BY <1>1, BotsInvariant, PTL

\* Every bot online has a row.
THEOREM BotsHaveRows == Spec => []OnlineHaveRows
<1>1. IInv => OnlineHaveRows
  BY DEF IInv, LiveOK, OnlineHaveRows
<1> QED BY <1>1, BotsInvariant, PTL

\* Every bot online is a user of its own; members are somebody.
THEOREM BotsNotDangling == Spec => []NobodyDangling
<1>1. IInv => NobodyDangling
  BY DEF IInv, LiveOK, ChannelsOK, NobodyDangling
<1> QED BY <1>1, BotsInvariant, PTL

\* The ircd has no bot that is not online, nor by another nickname.
THEOREM BotsNoGhosts == Spec => []NoGhosts
<1>1. IInv => NoGhosts
  BY DEF IInv, KnownOK
<1> QED BY <1>1, BotsInvariant, PTL

\* Whoever is on a channel is a member for the services, or erased.
THEOREM BotsNobodyMissed == Spec => []NobodyMissed
<1>1. IInv => NobodyMissed
  BY DEF IInv, NetOK, MissedOK, NobodyMissed
<1> QED BY <1>1, BotsInvariant, PTL

\* No bot is ever on a channel for the ircd: no line names one.
THEOREM BotsNeverJoin == Spec => [](on \subseteq Channels \X Users)
<1>1. IInv => on \subseteq Channels \X Users
  BY DEF IInv, NetOK
<1> QED BY <1>1, BotsInvariant, PTL

-----------------------------------------------------------------------------
(* The roster of the bots.                                                 *)

\* There are fresh uids for any bots: no burst, join or command is left out
\* of the model by the way it gives them.
LEMMA FreshThere ==
  ASSUME TablesOK, LiveOK, NEW B \in SUBSET DOMAIN botserv
  PROVE  Fresh(B) # {}
<1> DEFINE new == B \ DOMAIN g_bots
           n == Cardinality(new)
           T == uid_counter .. uid_counter + n - 1
<1>1. DOMAIN botserv \subseteq BotNames
  BY IsTableElim DEF TablesOK
<1>2. IsFiniteSet(new)
  BY <1>1, BotsAssumption, FS_Subset
<1>3. n \in Nat /\ uid_counter \in Nat
  BY <1>2, FS_CardinalityType, BotsAssumption DEF LiveOK
<1>4. IsFiniteSet(T) /\ Cardinality(T) = n
  <2> HIDE DEF n
  <2>1. uid_counter \in Int /\ uid_counter + n - 1 \in Int
    BY <1>3
  <2> QED BY <1>3, <2>1, FS_Interval
<1>5. ExistsBijection(new, T)
  <2> HIDE DEF T, new
  <2> QED BY <1>2, <1>4, FS_SameCardinalityBij
<1>6. PICK f \in Bijection(new, T) : TRUE
  <2> HIDE DEF T, new
  <2> QED BY <1>5 DEF ExistsBijection
<1>7. f \in [new -> T] /\ \A a, b \in new : f[a] = f[b] => a = b
  <2> HIDE DEF T, new
  <2> QED BY <1>6, Fun_BijectionProperties
<1> QED BY <1>7 DEF Fresh

\* Fresh uids are the next ones, all of them.
LEMMA FreshAreNext ==
  ASSUME TablesOK, LiveOK, NEW B \in SUBSET DOMAIN botserv, NEW uid \in Fresh(B)
  PROVE  {uid[b] : b \in DOMAIN uid}
           = uid_counter .. uid_counter + Cardinality(DOMAIN uid) - 1
<1> DEFINE new == B \ DOMAIN g_bots
           n == Cardinality(new)
           T == uid_counter .. uid_counter + n - 1
<1>1. DOMAIN botserv \subseteq BotNames
  BY IsTableElim DEF TablesOK
<1>2. IsFiniteSet(new)
  BY <1>1, BotsAssumption, FS_Subset
<1>3. n \in Nat /\ uid_counter \in Nat
  BY <1>2, FS_CardinalityType, BotsAssumption DEF LiveOK
<1>4. IsFiniteSet(T) /\ Cardinality(T) = n
  <2> HIDE DEF n
  <2>1. uid_counter \in Int /\ uid_counter + n - 1 \in Int
    BY <1>3
  <2> QED BY <1>3, <2>1, FS_Interval
<1>5. uid \in [new -> T] /\ \A a, b \in new : uid[a] = uid[b] => a = b
  BY DEF Fresh
<1>6. uid \in Injection(new, T)
  <2> HIDE DEF T, new
  <2> QED BY <1>5, Fun_IsInj
<1>7. uid \in Surjection(new, T)
  <2> HIDE DEF T, new
  <2> QED BY <1>4, <1>6, FS_Injection DEF n
<1>8. \A t \in T : \E b \in new : uid[b] = t
  <2> HIDE DEF T, new
  <2> QED BY <1>7, Fun_SurjectionProperties
<1>9. DOMAIN uid = new
  BY <1>5
<1> HIDE DEF T, new
<1>10. {uid[b] : b \in DOMAIN uid} = T
  BY <1>5, <1>8, <1>9
<1> QED BY <1>9, <1>10 DEF T, n

\* The bots present, one by one.
LEMMA PresentIs ==
  /\ DOMAIN Present = DOMAIN g_bots
  /\ \A b \in DOMAIN g_bots :
       Present[b] = [uid |-> g_bots[b], nick |-> bot_users[g_bots[b]]]
BY DEF Present

\* The same, after a step.
LEMMA PresentIsNext ==
  /\ DOMAIN Present' = DOMAIN g_bots'
  /\ \A b \in DOMAIN g_bots' :
       Present'[b] = [uid |-> g_bots'[b], nick |-> bot_users'[g_bots'[b]]]
BY DEF Present

\* ensure_bot: bots come.
LEMMA ComeStep ==
  ASSUME TablesOK, LiveOK, NEW B \in SUBSET DOMAIN botserv, NEW uid \in Fresh(B),
         GoOnline(uid), DOMAIN botserv' = DOMAIN botserv
  PROVE  R!RosterNext
<1> DEFINE S == DOMAIN uid
           n == Cardinality(S)
<1>1. /\ uid_counter + n <= MaxUid
      /\ g_bots' = Over(g_bots, uid)
      /\ bot_users' = Over(bot_users, UsersOf(uid))
      /\ uid_counter' = uid_counter + n
  BY DEF GoOnline
<1>2. /\ S = B \ DOMAIN g_bots /\ n \in Nat /\ IsTable(uid, BotNames, Uids)
      /\ \A b \in S : uid[b] >= uid_counter
      /\ \A a, b \in S : uid[a] = uid[b] => a = b
  BY <1>1, FreshUids
<1>3. /\ LiveOK' /\ \A i \in DOMAIN bot_users : bot_users'[i] = bot_users[i]
  BY Ensured
<1>4. /\ DOMAIN g_bots' = DOMAIN g_bots \cup S
      /\ \A b \in S : g_bots'[b] = uid[b]
      /\ \A b \in DOMAIN g_bots : g_bots'[b] = g_bots[b]
  BY <1>1, <1>2 DEF Over
<1>5. \A b \in DOMAIN g_bots : g_bots[b] \in DOMAIN bot_users
  BY DEF LiveOK
<1>6. \A b \in DOMAIN Present : Present'[b] = Present[b]
  BY <1>3, <1>4, <1>5, PresentIs, PresentIsNext
<1>7. \A b \in S : /\ Present'[b].uid = uid[b]
                   /\ Present'[b].nick = bot_users'[uid[b]]
  <2> SUFFICES ASSUME NEW b \in S
               PROVE  /\ Present'[b].uid = uid[b]
                      /\ Present'[b].nick = bot_users'[uid[b]]
    OBVIOUS
  <2>1. b \in DOMAIN g_bots' /\ g_bots'[b] = uid[b]
    BY <1>4
  <2>2. Present'[b] = [uid |-> g_bots'[b], nick |-> bot_users'[g_bots'[b]]]
    BY <2>1, PresentIsNext
  <2> QED BY <2>1, <2>2
<1>8. ASSUME NEW b \in S
      PROVE  /\ Present'[b].uid \in Uids \ (0..uid_counter - 1)
             /\ Present'[b].nick \in Nicks
  <2>1. uid[b] \in Uids /\ uid[b] >= uid_counter
    BY <1>2, IsTableElim
  <2>2. uid[b] \notin 0..uid_counter - 1
    BY <2>1, BotsAssumption DEF LiveOK, Uids
  <2>3. uid[b] \in DOMAIN bot_users' /\ bot_users' \in [DOMAIN bot_users' -> Nicks]
    <3>1. \A a \in DOMAIN g_bots' : g_bots'[a] \in DOMAIN bot_users'
      BY <1>3 DEF LiveOK
    <3>2. bot_users' \in [DOMAIN bot_users' -> Nicks]
      BY <1>3, IsTableElim DEF LiveOK
    <3> QED BY <1>4, <3>1, <3>2
  <2> QED BY <1>7, <2>1, <2>2, <2>3
<1>9. 0..uid_counter' - 1 = (0..uid_counter - 1) \cup {Present'[b].uid : b \in S}
  <2>1. {Present'[b].uid : b \in S} = {uid[b] : b \in S}
    BY <1>7
  <2>2. {uid[b] : b \in S} = uid_counter .. uid_counter + n - 1
    BY FreshAreNext
  <2>3. uid_counter \in Nat
    BY BotsAssumption DEF LiveOK
  <2> HIDE DEF n
  <2> QED BY <1>1, <1>2, <2>1, <2>2, <2>3
<1>10. \A a, b \in S : Present'[a].uid = Present'[b].uid => a = b
  BY <1>2, <1>7
<1>11. S \subseteq DOMAIN botserv \ DOMAIN Present /\ S \in SUBSET BotNames
  <2>1. DOMAIN botserv \subseteq BotNames
    BY IsTableElim DEF TablesOK
  <2> QED BY <1>2, <2>1, PresentIs
<1>12. DOMAIN Present' = DOMAIN Present \cup S
  BY <1>4, PresentIs, PresentIsNext
<1> HIDE DEF S, n
<1>13. R!Come(S)
  BY <1>6, <1>8, <1>9, <1>10, <1>11, <1>12 DEF R!Come
<1> QED BY <1>11, <1>13 DEF R!RosterNext

\* quit_bot: a bot goes, and the others stay who they are.
LEMMA GoStep ==
  ASSUME LiveOK, NEW b \in BotNames, QuitBot(b)
  PROVE  R!Only(DOMAIN Present \ {b})
<1>1. CASE b \in DOMAIN g_bots
  <2>1. /\ g_bots' = Without(g_bots, b)
        /\ bot_users' = Without(bot_users, g_bots[b])
    BY <1>1 DEF QuitBot
  <2>2. /\ DOMAIN g_bots' = DOMAIN g_bots \ {b}
        /\ \A a \in DOMAIN g_bots' : g_bots'[a] = g_bots[a]
    BY <2>1 DEF Without, Restrict
  <2>3. ASSUME NEW a \in DOMAIN g_bots'
        PROVE  bot_users'[g_bots[a]] = bot_users[g_bots[a]]
    <3>1. g_bots[a] # g_bots[b] /\ g_bots[a] \in DOMAIN bot_users
      BY <1>1, <2>2 DEF LiveOK
    <3> QED BY <2>1, <3>1 DEF Without, Restrict
  <2> QED BY <2>2, <2>3, PresentIs DEF Present, R!Only
<1>2. CASE b \notin DOMAIN g_bots
  <2>1. g_bots' = g_bots /\ bot_users' = bot_users
    BY <1>2 DEF QuitBot
  <2> QED BY <1>2, <2>1 DEF Present, R!Only
<1> QED BY <1>1, <1>2

\* A step that leaves rows and bots alone moves nothing.
LEMMA RosterStutter ==
  ASSUME DOMAIN botserv' = DOMAIN botserv, UNCHANGED live
  PROVE  UNCHANGED <<DOMAIN botserv, Present, 0..uid_counter - 1>>
BY DEF live, Present

\* A step of the roster, or none.
RosterStep == [R!RosterNext]_<<DOMAIN botserv, Present, 0..uid_counter - 1>>

\* ensure_bot_joined: bots come.
LEMMA KeepJoinedRoster ==
  ASSUME TablesOK, LiveOK, NEW c, NEW M, NEW now, KeepJoined(c, M, now),
         UNCHANGED tables
  PROVE  R!RosterNext
BY AssignedRows, ComeStep DEF KeepJoined, tables

\* Commands define bots, remove them, rename them or have them come or go.
LEMMA CommandsRoster ==
  ASSUME TablesOK, LiveOK, Commands
  PROVE  RosterStep
<1>1. ASSUME NEW b \in BotNames, NEW n \in Nicks, BotAdd(b, n)
      PROVE  RosterStep
  <2>1. DOMAIN botserv' = DOMAIN botserv \cup {b} /\ UNCHANGED live
    BY <1>1 DEF BotAdd, With
  <2>2. UNCHANGED <<Present, 0..uid_counter - 1>>
    BY <2>1 DEF live, Present
  <2> QED BY <2>1, <2>2 DEF RosterStep, R!RosterNext, R!Define
<1>2. ASSUME NEW b \in BotNames, BotDel(b) PROVE RosterStep
  <2>1. QuitBot(b) /\ DOMAIN botserv' = DOMAIN botserv \ {b}
        /\ uid_counter' = uid_counter
    BY <1>2 DEF BotDel, Without, Restrict
  <2> QED BY <2>1, GoStep DEF RosterStep, R!RosterNext, R!Remove
<1>3. ASSUME NEW b \in BotNames, Unassign(b) PROVE RosterStep
  <2>1. QuitBot(b) /\ DOMAIN botserv' = DOMAIN botserv /\ uid_counter' = uid_counter
    BY <1>3 DEF Unassign
  <2> QED BY <2>1, GoStep DEF RosterStep, R!RosterNext, R!Go
<1>4. ASSUME NEW b \in BotNames, NEW c \in Channels, Assign(c, b) PROVE RosterStep
  <2>1. PICK uid \in Fresh({b}) : GoOnline(uid)
    BY <1>4 DEF Assign
  <2>2. {b} \in SUBSET DOMAIN botserv /\ DOMAIN botserv' = DOMAIN botserv
    BY <1>4 DEF Assign
  <2> QED BY <2>1, <2>2, ComeStep DEF RosterStep
<1>5. ASSUME NEW c \in Channels,
             Fantasy(c) \/ \E t \in Members : Kick(c, t) \/ KickBan(c, t)
      PROVE  RosterStep
  <2>1. (\E heard : Answers(c, heard)) /\ UNCHANGED tables
    BY <1>5 DEF Fantasy, Kick, KickBan
  <2>2. CASE UNCHANGED live
    BY <2>1, <2>2, RosterStutter DEF RosterStep, tables
  <2>3. CASE \E b \in AssignedTo(c) : \E uid \in Fresh({b}) : GoOnline(uid)
    <3>1. PICK b \in AssignedTo(c) : \E uid \in Fresh({b}) : GoOnline(uid)
      BY <2>3
    <3>2. {b} \in SUBSET DOMAIN botserv /\ DOMAIN botserv' = DOMAIN botserv
      BY <2>1, AssignedRows DEF tables
    <3> QED BY <3>1, <3>2, ComeStep DEF RosterStep
  <2> QED BY <2>1, <2>2, <2>3 DEF Answers
<1>6. ASSUME NEW c \in Channels, NEW n \in Nicks, SetBotnick(c, n) PROVE RosterStep
  <2>1. PICK b \in AssignedTo(c) :
          /\ botserv' = [botserv EXCEPT ![b].chan_nick = n]
          /\ IF b \in DOMAIN g_bots
             THEN bot_users' = [bot_users EXCEPT ![g_bots[b]] = n]
             ELSE UNCHANGED bot_users
    BY <1>6 DEF SetBotnick
  <2>2. DOMAIN botserv' = DOMAIN botserv /\ g_bots' = g_bots
        /\ uid_counter' = uid_counter /\ b \in BotNames
    BY <1>6, <2>1, AssignedRows, IsTableElim DEF SetBotnick, TablesOK
  <2>3. CASE b \in DOMAIN g_bots
    <3>1. bot_users' = [bot_users EXCEPT ![g_bots[b]] = n]
      BY <2>1, <2>3
    <3>2. \A a \in DOMAIN g_bots : g_bots[a] \in DOMAIN bot_users
      BY DEF LiveOK
    <3>3. \A a \in DOMAIN g_bots : bot_users'[g_bots[a]]
            = IF a = b THEN n ELSE bot_users[g_bots[a]]
      BY <2>3, <3>1, <3>2 DEF LiveOK
    <3>4. Present' = [Present EXCEPT ![b].nick = n]
      BY <2>2, <2>3, <3>3 DEF Present
    <3>5. R!Rename(b, n)
      BY <2>2, <2>3, <3>4, PresentIs DEF R!Rename
    <3> QED BY <2>2, <3>5 DEF RosterStep, R!RosterNext
  <2>4. CASE b \notin DOMAIN g_bots
    BY <2>1, <2>2, <2>4, RosterStutter DEF RosterStep, live
  <2> QED BY <2>3, <2>4
<1>7. ASSUME NEW c \in Channels, NEW u \in Users, AkickAdd(c, u) \/ AkickDel(c, u)
      PROVE  RosterStep
  BY <1>7, RosterStutter DEF AkickAdd, AkickDel, RosterStep
<1> QED BY <1>1, <1>2, <1>3, <1>4, <1>5, <1>6, <1>7 DEF Commands

\* Joins have bots come; the rest of the network moves no bot.
LEMMA NetworkRoster ==
  ASSUME TablesOK, LiveOK, Network
  PROVE  RosterStep
<1>1. ASSUME UNCHANGED <<tables, live>> PROVE RosterStep
  BY <1>1, RosterStutter DEF RosterStep, tables
<1>2. ASSUME NEW c, NEW M, NEW now, KeepJoined(c, M, now), UNCHANGED tables
      PROVE  RosterStep
  BY <1>2, KeepJoinedRoster DEF RosterStep
<1>3. ASSUME NEW u \in Users, NEW c \in Channels, Joins(u, c) PROVE RosterStep
  BY <1>1, <1>2, <1>3 DEF Joins, Fjoin, Ijoin
<1> QED BY <1>1, <1>3 DEF Network, Connects, Quits, Parts, Squit, Leave, TakenAway

\* Our burst and the ircd's have bots come; a death leaves the rows.
LEMMA LinkingRoster ==
  ASSUME TablesOK, LiveOK, Linking
  PROVE  RosterStep
<1>1. ASSUME UNCHANGED <<tables, live>> PROVE RosterStep
  BY <1>1, RosterStutter DEF RosterStep, tables
<1>2. CASE Burst
  <2> DEFINE B == {b \in DOMAIN botserv : botserv[b].assigned # NoChannel}
                   \cup UNION {AssignedTo(ChannelName(c)) : c \in DOMAIN channels_}
  <2>1. PICK uid \in Fresh(B) : GoOnline(uid)
    BY <1>2 DEF Burst
  <2>2. B \in SUBSET DOMAIN botserv
    BY AssignedRows
  <2>3. DOMAIN botserv' = DOMAIN botserv
    BY <1>2 DEF Burst, tables
  <2> HIDE DEF B
  <2> QED BY <2>1, <2>2, <2>3, ComeStep DEF RosterStep
<1>3. ASSUME NEW c \in Channels, BurstChannel(c) PROVE RosterStep
  BY <1>3, KeepJoinedRoster DEF BurstChannel, Fjoin, RosterStep
<1>4. CASE Die
  <2>1. g_bots' = NoFunction /\ uid_counter' = 0 /\ botserv' = botserv
    BY <1>4 DEF Die, tables
  <2>2. Present' = R!Nobody
    BY <2>1 DEF Present, R!Nobody, NoFunction
  <2>3. 0..uid_counter' - 1 = {}
    BY <2>1
  <2> QED BY <2>1, <2>2, <2>3 DEF RosterStep, R!RosterNext, R!Restart
<1> QED BY <1>1, <1>2, <1>3, <1>4 DEF Linking, GoDown, EndBurst, BurstUser

\* BotServ implements the roster: only bots with rows come online, under uids
\* nobody had, and they keep them.
THEOREM BotsImplementRoster == Spec => ImplementsRoster
<1>1. Init => R!RosterInit
  BY DEF Init, R!RosterInit, R!Nobody, Present, NoFunction
<1>2. IInv /\ [Next]_vars => RosterStep
  <2>1. CASE UNCHANGED vars
    BY <2>1, RosterStutter DEF vars, RosterStep, live
  <2> QED BY <2>1, CommandsRoster, NetworkRoster, LinkingRoster DEF Next, IInv
<1> QED
  BY <1>1, <1>2, BotsInvariant, PTL
     DEF Spec, ImplementsRoster, R!RosterSpec, RosterStep
=============================================================================
