------------------------------- MODULE Bots -------------------------------
(***************************************************************************)
(* BotServ's bots and the channels they sit in (src/services/botserv.cpp), *)
(* the handlers of services.cpp that keep the members of channels, and the *)
(* AKICKs of chanserv.cpp and !kickbans of botserv.cpp, which take members *)
(* out.                                                                    *)
(*                                                                         *)
(* There are two views of a channel: channels_, the network model, and on, *)
(* what the ircd has.  What the ircd says and what it is told arrive in    *)
(* the step they are said in.  A line sent while the link is not linked    *)
(* reaches nobody, except our own burst.  A daemon that dies forgets all   *)
(* but the tables; a command cut short leaves them as they were, as it     *)
(* makes them, or (AKICK ADD of an entry there is) as AKICK DEL does, so   *)
(* it is one of these steps and a death.                                   *)
(*                                                                         *)
(* A definition X_Slip is a slip in X, kept to show that the properties    *)
(* tell it from the code; nothing here uses it.                            *)
(***************************************************************************)
EXTENDS Integers, FiniteSets, Tables

CONSTANTS
  BotNames,              \* names of bots
  Channels,              \* channel names
  Users,                 \* uids of other servers' users
  Sids, SidOf,           \* those servers, and the one of each user
  Nicks,                 \* nicknames of bots
  NoChannel, NoNick,     \* the empty strings
  Lost,                  \* the ircd killed or renamed a bot by itself
  MaxUid                 \* bound: uids given out in one life of the daemon

Uids == 0..MaxUid - 1    \* uids of bots

ASSUME BotsAssumption ==
  /\ IsFiniteSet(BotNames)
  /\ SidOf \in [Users -> Sids]
  /\ NoChannel \notin Channels /\ NoNick \notin Nicks /\ Lost \notin Nicks
  /\ MaxUid \in Nat /\ Users \cap Nat = {}

VARIABLES
  botserv,               \* table botserv: bot -> assigned, nick, chan_nick
  akick,                 \* table chanserv_akick: <<channel, user matched>>
  g_bots,                \* bot -> uid, of the bots online
  bot_users,             \* users_, of bots: uid -> nickname
  users,                 \* users_, of other servers
  channels_,             \* the network model: channel -> members
  uid_counter,           \* uids given out
  link,                  \* "down", "burst" or "linked"
  online,                \* the ircd: users there are
  on,                    \* the ircd: <<channel, member>>
  known,                 \* the ircd: uid of a bot -> its nickname, or Lost
  due,                   \* channels the ircd has still to burst
  erased                 \* history: <<channel, member>> an AKICK, or a
                         \* !kickban nobody heard, took out of the model, who
                         \* has been on the channel since, unannounced

vars == <<botserv, akick, g_bots, bot_users, users, channels_, uid_counter,
          link, online, on, known, due, erased>>
tables == <<botserv, akick>>
live == <<g_bots, bot_users, uid_counter>>
session == <<link, due>>

Row == [assigned : Channels \cup {NoChannel}, nick : Nicks,
        chan_nick : Nicks \cup {NoNick}]
Members == Users \cup Uids

TypeOK ==
  /\ IsTable(botserv, BotNames, Row)
  /\ akick \subseteq Channels \X Users
  /\ IsTable(g_bots, BotNames, Uids)
  /\ IsTable(bot_users, Uids, Nicks)
  /\ users \subseteq Users
  /\ IsTable(channels_, Channels, SUBSET Members)
  /\ uid_counter \in 0..MaxUid
  /\ link \in {"down", "burst", "linked"}
  /\ online \subseteq Users
  /\ on \subseteq Channels \X Members
  /\ IsTable(known, Uids, Nicks \cup {Lost})
  /\ due \subseteq Channels
  /\ erased \subseteq Channels \X Members

Init ==
  /\ botserv = NoFunction /\ akick = {}
  /\ g_bots = NoFunction /\ bot_users = NoFunction /\ uid_counter = 0
  /\ users = {} /\ channels_ = NoFunction
  /\ link = "down" /\ due = {}
  /\ online = {} /\ on = {} /\ known = NoFunction
  /\ erased = {}

-----------------------------------------------------------------------------
(* Bots coming online, joining and leaving. *)

\* The member `name` of a channel, which nothing assigns: channels_[name]
\* makes an entry of it with every member empty.
ChannelName(c) == NoChannel

MembersOf(c) == IF c \in DOMAIN channels_ THEN channels_[c] ELSE {}

\* What a line naming channel c says of the members in S.
Named(c, S) == ({ChannelName(c)} \cap Channels) \X S

AssignedTo(c) == {b \in DOMAIN botserv : botserv[b].assigned = c}

ShownNick_Override(b) == botserv[b].chan_nick

ShownNick(b) ==
  IF botserv[b].chan_nick # NoNick THEN botserv[b].chan_nick ELSE botserv[b].nick

Fresh_Recycled(B) ==
  LET new == B \ DOMAIN g_bots
      had == Cardinality(DOMAIN g_bots)
  IN  {f \in [new -> had .. had + Cardinality(new) - 1] :
         \A a, b \in new : f[a] = f[b] => a = b}

\* Uids for the bots of B that are not online.
Fresh(B) ==
  LET new == B \ DOMAIN g_bots
  IN  {f \in [new -> uid_counter .. uid_counter + Cardinality(new) - 1] :
         \A a, b \in new : f[a] = f[b] => a = b}

UsersOf(uid) ==
  [i \in {uid[b] : b \in DOMAIN uid} |->
     ShownNick(CHOOSE b \in DOMAIN uid : uid[b] = i)]

\* ensure_bot for the bots of DOMAIN uid; their UID lines are not in it.
GoOnline(uid) ==
  /\ uid_counter + Cardinality(DOMAIN uid) <= MaxUid
  /\ g_bots' = Over(g_bots, uid)
  /\ bot_users' = Over(bot_users, UsersOf(uid))
  /\ uid_counter' = uid_counter + Cardinality(DOMAIN uid)

\* What the ircd knows after ensure_bot has broadcast them.
Told(uid) == IF link = "linked" THEN Over(known, UsersOf(uid)) ELSE known

UidsOf(B) == {g_bots'[b] : b \in B}

\* ensure_bot_joined on a channel whose members are M, and at the ircd, now.
KeepJoined(c, M, now) ==
  LET B == AssignedTo(ChannelName(c))
  IN  \E uid \in Fresh(B) :
        /\ GoOnline(uid)
        /\ known' = Told(uid)
        /\ channels_' = With(channels_, c, M \cup UidsOf(B))
        /\ on' = now \cup IF link = "linked"
                          THEN Named(c, UidsOf(B) \cap DOMAIN known') ELSE {}

\* quit_bot; the commands that call it come over a link that is up.
QuitBot_StaysMember(b) ==
  IF b \in DOMAIN g_bots
  THEN LET uid == g_bots[b] IN
       /\ g_bots' = Without(g_bots, b)
       /\ bot_users' = Without(bot_users, uid)
       /\ known' = Without(known, uid)
       /\ on' = {p \in on : p[2] # uid}
       /\ UNCHANGED channels_
  ELSE UNCHANGED <<g_bots, bot_users, channels_, known, on>>

QuitBot(b) ==
  IF b \in DOMAIN g_bots
  THEN LET uid == g_bots[b] IN
       /\ g_bots' = Without(g_bots, b)
       /\ bot_users' = Without(bot_users, uid)
       /\ channels_' = [c \in DOMAIN channels_ |-> channels_[c] \ {uid}]
       /\ known' = Without(known, uid)
       /\ on' = {p \in on : p[2] # uid}
  ELSE UNCHANGED <<g_bots, bot_users, channels_, known, on>>

-----------------------------------------------------------------------------
(* The commands of BotServ. *)

BotAdd(b, n) ==
  /\ link = "linked"
  /\ botserv' = With(botserv, b, [assigned |-> NoChannel, nick |-> n,
                                  chan_nick |-> NoNick])
  /\ UNCHANGED <<akick, live, users, channels_, session, online, on, known,
                 erased>>

BotDel(b) ==
  /\ link = "linked"
  /\ QuitBot(b)
  /\ botserv' = Without(botserv, b)
  /\ UNCHANGED <<akick, uid_counter, users, session, online, erased>>

\* ASSIGN: the bot joins at once in a channel the model has.
Assign(c, b) ==
  /\ link = "linked" /\ b \in DOMAIN botserv
  /\ botserv' = [botserv EXCEPT ![b].assigned = c]
  /\ \E uid \in Fresh({b}) :
       /\ GoOnline(uid)
       /\ known' = Told(uid)
       /\ IF c \in DOMAIN channels_ /\ UidsOf({b}) \cap channels_[c] = {}
          THEN /\ channels_' = [channels_ EXCEPT ![c] = @ \cup UidsOf({b})]
               /\ on' = on \cup Named(c, UidsOf({b}) \cap DOMAIN known')
          ELSE UNCHANGED <<channels_, on>>
  /\ UNCHANGED <<akick, users, session, online, erased>>

Unassign(b) ==
  /\ link = "linked" /\ b \in DOMAIN botserv
  /\ QuitBot(b)
  /\ botserv' = [botserv EXCEPT ![b].assigned = NoChannel]
  /\ UNCHANGED <<akick, uid_counter, users, session, online, erased>>

\* SET BOTNICK, on one of the bots assigned to c: rename_live_bot tells the
\* ircd, which hears only a bot it has.
SetBotnick_Quietly(c, n) ==
  /\ link = "linked"
  /\ \E b \in AssignedTo(c) :
       /\ botserv' = [botserv EXCEPT ![b].chan_nick = n]
       /\ IF b \in DOMAIN g_bots
          THEN bot_users' = [bot_users EXCEPT ![g_bots[b]] = n]
          ELSE UNCHANGED bot_users
  /\ UNCHANGED <<akick, g_bots, uid_counter, users, channels_, session,
                 online, on, known, erased>>

SetBotnick(c, n) ==
  /\ link = "linked"
  /\ \E b \in AssignedTo(c) :
       /\ botserv' = [botserv EXCEPT ![b].chan_nick = n]
       /\ IF b \in DOMAIN g_bots
          THEN LET uid == g_bots[b] IN
               /\ bot_users' = [bot_users EXCEPT ![uid] = n]
               /\ known' = [i \in DOMAIN known |->
                              IF i = uid /\ known[i] # Lost THEN n ELSE known[i]]
          ELSE UNCHANGED <<bot_users, known>>
  /\ UNCHANGED <<akick, g_bots, uid_counter, users, channels_, session,
                 online, on, erased>>

\* Who answers a fantasy command in c: the bot assigned to it, which comes
\* online, or, for want of one, BotServ's own user, which the ircd may have
\* taken away: heard tells whether the ircd has the one who answers.
Answers(c, heard) ==
  \/ \E b \in AssignedTo(c) : \E uid \in Fresh({b}) :
       /\ GoOnline(uid) /\ known' = Told(uid)
       /\ LET i == g_bots'[b]
          IN  heard = (i \in DOMAIN known' /\ known'[i] # Lost)
  \/ AssignedTo(c) = {} /\ UNCHANGED <<live, known>>

\* Who by_nick finds.
There(t) == t \in users \cup DOMAIN bot_users'

\* A fantasy command that only answers, or sets modes.
Fantasy(c) ==
  /\ link = "linked"
  /\ \E heard \in BOOLEAN : Answers(c, heard)
  /\ UNCHANGED <<tables, users, channels_, session, online, on, erased>>

\* !kick: the model keeps the member.
Kick(c, t) ==
  /\ link = "linked"
  /\ \E heard \in BOOLEAN :
       Answers(c, heard) /\ on' = IF heard THEN on \ {<<c, t>>} ELSE on
  /\ There(t)
  /\ erased' = erased \cap on'
  /\ UNCHANGED <<tables, users, channels_, session, online>>

\* !kickban: the member leaves the model, whoever hears the KICK.
KickBan(c, t) ==
  /\ link = "linked"
  /\ \E heard \in BOOLEAN :
       Answers(c, heard) /\ on' = IF heard THEN on \ {<<c, t>>} ELSE on
  /\ There(t)
  /\ channels_' = IF c \in DOMAIN channels_
                  THEN [channels_ EXCEPT ![c] = @ \ {t}] ELSE channels_
  /\ erased' = (erased \cup {<<c, t>>}) \cap on'
  /\ UNCHANGED <<tables, users, session, online>>

-----------------------------------------------------------------------------
(* AKICK. *)

\* akick_apply: the member leaves the model, and the channel the KICK names.
AkickAdd(c, u) ==
  /\ link = "linked"
  /\ akick' = akick \cup {<<c, u>>}
  /\ IF u \in users \cap MembersOf(c)
     THEN /\ channels_' = [channels_ EXCEPT ![c] = @ \ {u}]
          /\ on' = on \ Named(c, {u})
          /\ erased' = (erased \cup {<<c, u>>}) \cap on'
     ELSE UNCHANGED <<channels_, on, erased>>
  /\ UNCHANGED <<botserv, live, users, session, online, known>>

AkickDel(c, u) ==
  /\ link = "linked"
  /\ akick' = akick \ {<<c, u>>}
  /\ UNCHANGED <<botserv, live, users, channels_, session, online, on, known,
                 erased>>

\* enforce_akick for a user who joins.
Enforced(c, u) == u \in users /\ <<ChannelName(c), u>> \in akick

-----------------------------------------------------------------------------
(* The network, and the handlers of what it says while the link is linked. *)
(* While the ircd bursts, events come after the burst.                     *)

Heard == link = "linked"

Connects(u) ==
  /\ link # "burst" /\ u \notin online \cup users
  /\ online' = online \cup {u}
  /\ users' = IF Heard THEN users \cup {u} ELSE users
  /\ UNCHANGED <<tables, live, channels_, session, on, known, erased>>

\* handle_fjoin.
Fjoin(c, S, now) ==
  /\ KeepJoined(c, MembersOf(c) \cup S, now)
  /\ erased' = erased \ ({c} \X S)

Ijoin_Forgets(c, u, now) ==
  /\ KeepJoined(c, MembersOf(c), now)
  /\ erased' = erased \ {<<c, u>>}

\* handle_ijoin: AKICK before the bots.
Ijoin(c, u, now) ==
  IF Enforced(c, u)
  THEN /\ KeepJoined(c, MembersOf(c) \ {u}, now \ Named(c, {u}))
       /\ erased' = erased \cup {<<c, u>>}
  ELSE /\ KeepJoined(c, MembersOf(c) \cup {u}, now)
       /\ erased' = erased \ {<<c, u>>}

\* Whoever makes a channel is announced by FJOIN, the others by IJOIN.
Joins(u, c) ==
  /\ link # "burst" /\ u \in online /\ <<c, u>> \notin on
  /\ LET now == on \cup {<<c, u>>}
         made == \A x \in Users : <<c, x>> \notin on
     IN  \/ ~Heard /\ on' = now
            /\ UNCHANGED <<live, channels_, known, erased>>
         \/ Heard /\ made /\ Fjoin(c, {u}, now)
         \/ Heard /\ ~made /\ Ijoin(c, u, now)
  /\ UNCHANGED <<tables, users, session, online>>

\* PART, or KICK.
Parts(u, c) ==
  /\ link # "burst" /\ <<c, u>> \in on
  /\ on' = on \ {<<c, u>>}
  /\ channels_' = IF Heard /\ c \in DOMAIN channels_
                  THEN [channels_ EXCEPT ![c] = @ \ {u}] ELSE channels_
  /\ erased' = erased \cap on'
  /\ UNCHANGED <<tables, live, users, session, online, known>>

\* The users of S leave the network, and gone leave the model.
Leave(S, gone) ==
  /\ link # "burst"
  /\ online' = online \ S
  /\ on' = {p \in on : p[2] \notin S}
  /\ IF Heard
     THEN /\ users' = users \ gone
          /\ channels_' = [c \in DOMAIN channels_ |-> channels_[c] \ gone]
     ELSE UNCHANGED <<users, channels_>>
  /\ erased' = erased \cap on'
  /\ UNCHANGED <<tables, live, session, known>>

Quits(u) == u \in online /\ Leave({u}, {u})

\* handle_squit: the model finds them by the start of their uids.
Squit(s) ==
  LET behind(S) == {u \in S : SidOf[u] = s}
  IN  Leave(behind(online), behind(users))

\* KILL and SAVE: no handler.
TakenAway(uid) ==
  /\ link = "linked" /\ uid \in DOMAIN known
  /\ known' = [known EXCEPT ![uid] = Lost]
  /\ on' = {p \in on : p[2] # uid}
  /\ UNCHANGED <<tables, live, users, channels_, session, online, erased>>

-----------------------------------------------------------------------------
(* The link. *)

GoDown ==
  /\ link # "down"
  /\ link' = "down" /\ due' = {}
  /\ known' = NoFunction
  /\ on' = {p \in on : p[2] \in Users}
  /\ UNCHANGED <<tables, live, users, channels_, online, erased>>

\* Our burst: the assigned bots, then ensure_bot_joined on every channel,
\* whose lines reach nobody.
Burst ==
  /\ link = "down"
  /\ LET told == {b \in DOMAIN botserv : botserv[b].assigned # NoChannel}
         B(c) == AssignedTo(ChannelName(c))
         kept == UNION {B(c) : c \in DOMAIN channels_}
     IN  \E uid \in Fresh(told \cup kept) :
           /\ GoOnline(uid)
           /\ known' = [i \in UidsOf(told) |-> bot_users'[i]]
           /\ channels_' = [c \in DOMAIN channels_ |->
                              channels_[c] \cup UidsOf(B(c))]
  /\ link' = "burst"
  /\ due' = {c \in Channels : \E u \in Users : <<c, u>> \in on}
  /\ UNCHANGED <<tables, users, online, on, erased>>

\* The ircd's burst: its users, then its channels.
BurstUser(u) ==
  /\ link = "burst" /\ u \in online \ users
  /\ users' = users \cup {u}
  /\ UNCHANGED <<tables, live, channels_, session, online, on, known, erased>>

BurstChannel(c) ==
  /\ link = "burst" /\ online \subseteq users /\ c \in due
  /\ Fjoin(c, {u \in Users : <<c, u>> \in on}, on)
  /\ due' = due \ {c}
  /\ UNCHANGED <<tables, users, link, online>>

EndBurst ==
  /\ link = "burst" /\ online \subseteq users /\ due = {}
  /\ link' = "linked"
  /\ UNCHANGED <<tables, live, users, channels_, due, online, on, known, erased>>

\* The daemon dies and starts again.
Die ==
  /\ g_bots' = NoFunction /\ bot_users' = NoFunction /\ uid_counter' = 0
  /\ users' = {} /\ channels_' = NoFunction
  /\ link' = "down" /\ due' = {}
  /\ known' = NoFunction
  /\ on' = {p \in on : p[2] \in Users}
  /\ erased' = {}
  /\ UNCHANGED <<tables, online>>

-----------------------------------------------------------------------------
Commands ==
  \/ \E b \in BotNames :
       \/ \E n \in Nicks : BotAdd(b, n)
       \/ BotDel(b) \/ Unassign(b)
       \/ \E c \in Channels : Assign(c, b)
  \/ \E c \in Channels :
       \/ Fantasy(c)
       \/ \E t \in Members : Kick(c, t) \/ KickBan(c, t)
       \/ \E n \in Nicks : SetBotnick(c, n)
       \/ \E u \in Users : AkickAdd(c, u) \/ AkickDel(c, u)

Network ==
  \/ \E u \in Users :
       \/ Connects(u) \/ Quits(u)
       \/ \E c \in Channels : Joins(u, c) \/ Parts(u, c)
  \/ \E s \in Sids : Squit(s)
  \/ \E uid \in Uids : TakenAway(uid)

Linking ==
  \/ GoDown \/ Burst \/ EndBurst \/ Die
  \/ \E u \in Users : BurstUser(u)
  \/ \E c \in Channels : BurstChannel(c)

Next == Commands \/ Network \/ Linking

Spec == Init /\ [][Next]_vars

-----------------------------------------------------------------------------
(* Properties. *)

\* A bot that is online has a row: BOT DEL leaves no bot that no command can
\* reach any more.
OnlineHaveRows == DOMAIN g_bots \subseteq DOMAIN botserv

\* A uid the services hold is somebody: every bot online is a user of its
\* own, and channels have no members who are gone.
NobodyDangling ==
  /\ \A a, b \in DOMAIN g_bots : g_bots[a] = g_bots[b] => a = b
  /\ DOMAIN bot_users = {g_bots[b] : b \in DOMAIN g_bots}
  /\ \A c \in DOMAIN channels_ : channels_[c] \subseteq users \cup DOMAIN bot_users

\* The ircd shows no ghosts: every bot it has is online, under the nickname
\* the services know it by - unless it took the bot away itself.
NoGhosts ==
  \A uid \in DOMAIN known :
    /\ uid \in DOMAIN bot_users
    /\ known[uid] \in {bot_users[uid], Lost}

\* Whoever is on a channel is on it for the services, through splits, bursts
\* and other servers' splits - but for those an AKICK took out of the model,
\* or a !kickban whose KICK came from a bot the ircd does not have.
NobodyMissed ==
  link = "linked" =>
    \A p \in on : p[2] \in MembersOf(p[1]) \/ p \in erased

\* botserv.cpp:458-460 (HELP ASSIGN): "Assigns a bot to a registered channel;
\* it joins immediately (or on the next burst)" - where somebody is.
AssignedJoin ==
  link = "linked" =>
    \A b \in DOMAIN g_bots \cap DOMAIN botserv :
      LET c == botserv[b].assigned
      IN  (\E u \in Users : <<c, u>> \in on /\ u \in MembersOf(c)) =>
            \/ <<c, g_bots[b]>> \in on
            \/ g_bots[b] \in DOMAIN known /\ known[g_bots[b]] = Lost

\* The bots online, as users of other servers see them.
Present ==
  [b \in DOMAIN g_bots |-> [uid |-> g_bots[b], nick |-> bot_users[g_bots[b]]]]

R == INSTANCE Roster WITH
       rows <- DOMAIN botserv, present <- Present, given <- 0..uid_counter - 1

\* The tables and maps of BotServ implement the roster: whatever commands,
\* bursts, joins and deaths do, only a bot with a row comes online, under a uid
\* nobody has had in this life of the daemon, and it keeps that uid until it
\* quits; a command moves its own bot and no other.
ImplementsRoster == R!RosterSpec
=============================================================================
