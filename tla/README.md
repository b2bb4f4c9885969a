# A TLA+ verification of InspiServices

InspiServices is an IRC services daemon in C++: NickServ, ChanServ, OperServ,
BotServ and BridgeServ behind one InspIRCd server-to-server link, an SQLite
database, and bridges to Discord and Signal. These modules model parts of it,
TLC checks the models on small instances, and TLAPS proves the theorems about
them for all instances. Paths below are relative to the repository
(`src/…` for code, `include/services/…` for headers).

1. [Inventory](#1-inventory)
2. [Modules and how they correspond to the code](#2-modules)
3. [Runs](#3-runs)
4. [Fairness](#4-fairness)
5. [Theorems](#5-theorems)
6. [Disagreements found](#6-disagreements-between-the-code-and-its-text)
7. [What is not modelled](#7-what-is-not-modelled)
8. [Plan](#8-plan)

## 1. Inventory

The process is single-threaded. `Reactor::run` (`net/eventloop.cpp`) polls the
sockets, dispatches their callbacks, then due timers, then what `call_later`
deferred. A callback runs to its end before the next one starts, so **a
callback is an atomic step**. What is concurrent is the order of callbacks, the
peers, the network and the death of the process. Statements are committed to
SQLite one by one (no handler opens a transaction), so a death can also fall
*between two statements of one callback*. Nothing catches `db_error`: a failed
statement ends the process.

| component | state | operations | talks to | what makes it correct |
|---|---|---|---|---|
| server link `irc/link.cpp` | state, session flags, attempts, retry timer | dial, adopt, one handler per line, close, redial | its stream, the hub, the services | redials iff down; clean sessions; one burst, in order; no live link, and nothing of a peer's handed on, before authentication |
| stream `net/socket.cpp` | transport state, `rx_`, `tx_`, TLS | connect, send, pump, close | the socket, its owner's callbacks | every attempt ends in a callback; no bytes of another connection |
| hub `irc/routing.cpp` | `links_` | add, route, broadcast, burst | links, services | exactly the live links; every line to every other linked peer |
| network model `irc/network.cpp` | users, nick index, channels | add, rename, remove, join, part | service core | agrees with the ircd |
| service core `services/services.cpp` | services, uids | handlers of UID, NICK, FJOIN, METADATA, …; dispatch of commands | hub, network, services | model and wire agree |
| NickServ `services/nickserv.cpp` | tables `nickserv`, `nickserv_cert`, `pending_reg` | REGISTER, IDENTIFY, LOGOUT, DROP, CERT, … | network, database, OperServ's queue | one account per folded nick; login means login |
| OperServ `services/operserv.cpp` | the queue, auto-approve, groups | REGISTER APPROVE/REJECT, AUTOAPPROVE, groups, REBURST, … | NickServ's and ChanServ's tables, hub | decisions are final; a sweep leaves none |
| ChanServ `services/chanserv.cpp` | `chanserv`, `chanserv_access`, `chanserv_akick`, `pending_chan` | REGISTER, ACCESS, AKICK, SET, DROP, status commands | network, database | access follows the tables |
| BotServ `services/botserv.cpp` | `botserv` with assignments, `g_bots` | BOT ADD/DEL, ASSIGN, UNASSIGN, SET, fantasy, burst | hub, network, database | live bots are the tables' |
| BridgeServ and manager `services/bridgeserv.cpp`, `bridge/bridge.cpp` | `bridges`, `bridge_channels`, list, links, relays, virtual servers, uid cache | LINK/DISCORD/SIGNAL, DEL, ENABLE, DISABLE, MAP, UNMAP, messages | hub, platforms, reactor | resources follow the table; identities are unique and last |
| Discord, Signal `bridge/*.cpp` | connection, heartbeat, backoff | connect, events, reconnect | reactor, manager | a relay is served or will redial; its timers and descriptor are its own |
| reactor `net/eventloop.cpp` | sockets, timers, deadlines | add, remove, run | everything | every ready callback runs; none after its removal |
| HTTP, WebSocket, TLS `net/*.cpp`; parsing `irc/protocol.cpp`; schema, db, config, util | little or none | stateless helpers | their callers | - |

The hard behaviour is in four places:

* **sessions**: reconnects that must start clean, timers racing callbacks, an
  ircd that forgets everything behind the link and a daemon that does not;
* **announcements**: `hub::broadcast` reaches only links that are `linked` at
  that moment, and says nothing to the caller about the rest;
* **several tables, several statements, no transaction**;
* **copies of the same fact**: table and in-memory list, network model and
  ircd, the uid cache of BridgeServ and the user list of the manager.

Each hazard, with its line and the properties aimed at it, is listed in
`PROJECT.json`.

## 2. Modules

```
Session   <--refines--  Link      <-- MCLink      (3 runs)   LinkProofs
Registry  <--refines--  Accounts  <-- MCAccounts  (2 runs)   AccountsProofs
                        Bridge    <-- MCBridge    (2 runs)   BridgeProofs
Estate    <--refines--  ChanServ  <-- MCChanServ  (1 run)    ChanServProofs
Roster    <--refines--  Bots      <-- MCBots      (2 runs)   BotsProofs
                        Network   <-- MCNetwork   (1 run)    NetworkProofs
                        Relays    <-- MCRelays    (1 run)    RelaysProofs
                        Tables (used by the last six)        TablesProofs
```

Components that meet are composed by modelling the whole handler: `Bots` has
the AKICKs of ChanServ and the channel handlers of the service core, `ChanServ`
has NickServ's DROP and OperServ's queue, `Accounts` OperServ's decisions on
NickServ's requests, `Network` the KILL of OperServ and GHOST of NickServ, and
`Relays` has the platform bridges on the streams and the reactor they run on.

In each module `X_Slip` (for example `GoDown_NoRetry`) is a plausible slip in
the definition `X`, which follows it. Nothing uses it; it records which mistake
the property named with it in `PROJECT.json` would catch.

### Link, Session

`Link` is `svc::irc::link` with the `BufferedStream` it owns, its retry timer
and its entry in `hub::links_`. State, session flags and `attempts` are the
members of the class; `retry_timer` is the delay of the armed timer (0 for
`bad_handle`); `conn` is the stream's `state_`. The buffer `tx_` is two
variables: `unsent` counts lines of this session, `stale` says whether bytes of
an *older* session are in front of them. `sent` and `heard` are the histories of
this session that the properties speak of.

One action is one callback: `AddUplink`, `AddInbound`, `RetryFires`
(`reconnect_once`), `Connected`, `ConnectRefused` and `HandshakeDone`
(`check_connect_result`, `pump_tls_handshake`), `PeerDrops`, `Flush`, and one
action per line `handle_line` knows, with the states that accept it as the
guard. `Reject` is every way a line makes the link close; the ERROR it says may be
the last the peer gets or be lost with the rest of the output (`LoseOutput`). `Deliver` is traffic
routed to a linked link, `Reburst` OperServ's command. `hub::add_inbound` is
modelled although `main` never calls it. `AuthenticatedFirst` speaks of what
*this* session queues (`Traffic`: the burst and routed lines) and of the states
past the negotiation, and excepts the two ways traffic does leave early, an
operator's REBURST and the bytes an older session left in `tx_` (section 6).
The peer is external: `InOrder` is the
handshake of InspIRCd, and with `PeerInOrder = FALSE` any line may come at any
time.

`Session` is what the rest of the program may assume: `new`, `opening`,
`talking`, `authed`, `up`, `down`, with a redial armed or not and the netburst
announced or not. `ImplementsSession` maps `Link` to it (`Phase`).

### Accounts, Registry

`Accounts` is NickServ's accounts and certificates, OperServ's queue of
nickname requests, and two views of the users: `net` (`irc::network`, what the
services know) and `ircd` (what there is). `wire` is METADATA on its way to the
ircd, one value per user because a later one replaces an earlier one.
A command is one step: guard from the handler's early returns, statements and
`set_account` as its effect. `ApproveCutShort` and `SweepCutShort` are the two
handlers that write twice, cut between their statements; the order in which
a sweep visits requests is abstracted to any subset done. `Die` keeps the
tables only. A link comes up in three steps, `LinkUp`, `BurstUser` for each user
in any order, `BurstEnds`; between the first and last, `Tell` reaches nobody.

Abstractions: a command with a wrong password is a command not given; user
modes, e-mail, times, GHOST, SET, INFO, STATUS, LIST are left out; so are the
channels DROP reassigns. While an ircd bursts, events of its users come after
the burst (the connection is FIFO), so the model holds them back. Bytes left in
`tx_` are `Link`'s subject and not repeated here.

`Registry` is the life of one nickname: free, requested, registered, closed.
`ImplementsRegistry` maps the tables to it; one step may move many nicknames.

### Bridge

`Bridge` is the manager with its list (`bridges`), links and relays, the two
tables under it, the virtual servers with their users, and BridgeServ's
`vu_cache`, a static map that outlives the bridge. `relays` stands for
`discords_` and `signals_`, which `manager` treats alike. `known` is what the
ircd has been told in the present session, `orphan` whether it has got a line
whose source it does not know. A message of a platform is two steps, as in the
code: `PlatformMessage` queues it (`call_later`), `RunDeferred` handles it in a
later callback, against whatever the tables say by then. `Deliver` does all the
callback does: virtual server if missing, virtual user if not cached, FJOIN,
PRIVMSG. `RemoveCutShort` is a kill between the two DELETEs of `remove`;
`Restarts` is `load`.

Abstractions: texts, hosts, ports and tokens; a link has its secret or not, and
comes up or not, by choice; lines sent to the bridges' own links (as opposed to
the uplink) are not tracked; `ChooseSid` is any free SID instead of the first.
`remove_virtual_server` and `remove_virtual_user` exist in the code and are
never called; they are not modelled. The relay from IRC to a platform changes
no state.

### ChanServ, Estate

`ChanServ` is the four tables that say whose a channel is and who may do what on
it: `chanserv`, `chanserv_access`, `chanserv_akick` and `pending_chan`, and of
the rest of the program what they depend on: which accounts exist, each user's
nickname and the account he is logged in to. `CanChan` and `CallerLevel` are the
two readings of a user's access, in `modules.h` and in `chanserv.cpp`. A command
is one action with the handler's guard: REGISTER at once or into the queue
(`RegisterNow`, `RegisterLater`), the operator's `Approve`, `Reject` and both
settings of auto-approve, the sweep included, `AccessAdd`, `AccessDel`, `AkickAdd`, `AkickDel`, `SetPassword`, `SetFounder`,
`Drop`, and `FantasyIdentify`, which writes a row of access.

Five actions `…CutShort` are the daemon dying between two statements of a
command. All of the state is in SQLite, so the restart is part of the same step.
`torn` is a history: the channels such a death left in pieces, until they are
dropped. The properties except those channels and say so.

Abstractions: a folded name stands for all its spellings; the people are
environment actions (`Renames`, `NickRegistered`, `LogsIn`, `LogsOut`,
`NickDropped`), of which only NickServ's DROP writes a table of ChanServ;
passwords are set or not, and whoever gives one is right; AKICK reasons and
times, topic locks and the other columns nothing here tells apart are left out.
Commands that only send a mode, a topic or a kick ask `CanChan` and change none
of this; the kicks of AKICK are in `Bots`.

`Estate` is what a user may rely on, channel by channel: a channel is free,
requested by a name, or owned by a name or by no one (its founder's account is
gone, and the channel is still not free). A request is granted to who made it,
refused or lost; an owner hands the channel over or gives it up. A step is about
one channel, but for a sweep of the requests and for an account that goes.
`ImplementsEstate` maps the rows to it (`Holder`): the row of a registered channel
names its owner, the request that waits names who asked.

### Bots, Roster

`Bots` has two views of every channel: `channels_`, the members in the network
model, and `on`, whom the ircd has there. Likewise `g_bots` and `bot_users` are
the bots as the daemon knows them, `known` the bots as the ircd does. An event of
the ircd and its handler are one step; a line of ours reaches the ircd if
the link is linked (`Heard`, `Told`), except in our own burst.

The commands are `BotAdd`, `BotDel`, `Assign`, `Unassign`, `SetBotnick`, a
`Fantasy` command that brings the channel's bot online (`Answers`), `Kick` and
`KickBan`, which then send a KICK in its name, and ChanServ's `AkickAdd` and
`AkickDel` with their kicks. `!kick` and `!kickban` name the channel they were said
in, so the ircd acts on them if it has who sends them: a bot that is announced and was
not taken away, or BotServ's own user where no bot is assigned, of which the model
knows nothing and lets the ircd have it or not. `!kickban` erases the member in either
case, `!kick` in neither: a member `!kick` took off the channel stays one in the model
until he joins again or leaves. The handlers are `Connects`,
`Joins` (FJOIN for who makes the channel, IJOIN for who comes later), `Parts`
(PART and KICK), `Quits`, `Squit`, and `TakenAway` for KILL and SAVE, which have
no handler. The uplink comes up in steps: `Burst` (ours: the assigned bots, then
`ensure_bot_joined` on all channels), `BurstUser`, `BurstChannel`, `EndBurst`.
`GoDown` makes the ircd forget our users and leaves the model as it is; `Die`
leaves the tables.

`channel::name` is never assigned in the code, and `get_channel` makes entries
with an empty one. `ChannelName` models that, and everything that reads the
member follows: no line names a channel (`Named` is empty), `ensure_bot_joined`
looks for bots assigned to the empty name, AKICK on join looks up an empty name.
`erased` is a history: members an AKICK took out of the model though its KICK
named no channel, or a `!kickban` whose KICK reached nobody, and who have been on
the channel since.

Abstractions: one spelling per channel name, since both `channels_` and the
column `assigned` keep spelling as it comes; ordinary users' nicknames and the
nick index (those are in `Network`), so no nickname collisions, which the ircd
settles with SAVE or KILL (`TakenAway`); AKICK masks are the one user they match; prefixes of
members; FANTASYOPER and REPLY, two columns that shape texts; who may give a
command; `uid_counter` stops at `MaxUid` in one life of the daemon. While the
ircd bursts, events come after the burst. No command needs a `CutShort`: each
writes one table, and where it is cut it leaves what another command leaves.

`Roster` is the bots without channels or lines: which have rows, which are
present and as whom, and which uids were given in this life of the daemon. Bots
with rows come, under uids nobody had; a bot goes, is renamed or is removed with
its row; a death leaves the rows. `ImplementsRoster` maps to it the rows of
`botserv`, `g_bots` with the nicknames of `bot_users` (`Present`), and the count
of uids.

### Network

`Network` is `users_` and `nicks_` of the network model, next to `there`, what
the ircd has. `Indexed`, `Reindexed` and `Unindexed` are the index after
`add_user`, `rename_user` and `remove_user`, erasures by name included. The
handlers are `Connects` and `BurstUser` (UID), `Renames` (NICK), `Quits`,
`Splits` (SQUIT), `Opers` (OPERTYPE), `Deopers` (MODE); `Saves` is the SAVE that
`on_line` drops; `Kill` is OperServ's KILL and NickServ's GHOST, whose line the
ircd answers with a QUIT. A line and its handler are one step. While the link is
down the ircd's users do as they like and the services hear nothing; the model is
kept (`GoDown`) or lost (`Die`). `saved` is a history: users who got their uid
for a nickname since the services were last told one.

The code loses entries of the index. Who has the nickname of a user that was
SAVEd loses his entry when that user leaves; a user who changed nickname while
the link was down keeps his record and gets no entry for the new nickname. KILL
and GHOST then say "No such user". What is proved is that an entry there *is*
never names somebody else. SQUIT removes the users of the one server it names,
although the comment at `services.cpp:424` has "everyone behind it"; those stay
in the model, which `NamesTheBearer` says by speaking of users the ircd has.
`handle_mode` takes the first sign of a token for all its letters, so `+w-o`
*adds* the `o`, and no line clears the oper class: an operator always passes for
one (`KnowsEveryone`), and may go on to when he has stopped being one.

Abstractions: of a record, nickname, mode `o` and oper class; accounts are in
`Accounts`; one link; who may KILL; the services' own users, which are in `Bots`.

### Relays

`Relays` has the platform relays of the manager and the POSTs of Discord
relays, each with the stream it owns; the reactor's table of sockets (`watch`
for a stream's handle, `stray` for registrations of destroyed streams, `by_fd`
for the index), the events of the current `poll` that are still to be
dispatched (`ready`), and the kernel's descriptors (`sock`, the lowest free one
is given out). `timers` are the reactor's active timers, `redial` the relays that
know of theirs.

One action is one callback or one command: `Enable` (`ensure_signal`,
`ensure_discord`), `Destroy` (the destructors, at DEL or DISABLE), `Post`,
`RedialFires`, and `Dispatch` of one event, whose outcomes are `Refused`,
`Opens`, `Secures`, `Waits`, `Responds`, `Ends`, `Rejects` and `Ignores`. `Poll`
begins a round; what a callback does to descriptors that are still in `ready`
makes their events stale, as in the code. Events are dispatched in any order.

What the code does, and the model with it:

* A stream that is lost keeps its descriptor open, and `connect` takes a new
  one: every reconnect leaks one, every POST leaks one (its callbacks own the
  stream that owns them). `sock` has them as `unwatched`, and `MaxFd` is the
  limit of descriptors: at the limit `connect` fails and the relay redials.
* `check_connect_result` sets the state to error before `handle_close`, so a
  connect that is refused late is not reported. The relay stays as it is for
  ever, its registration spins in `poll`, and only DISABLE ends it - which closes
  the descriptor and leaves the registration (`stray`), whose callbacks are of a
  destroyed stream. `eventloop.h:31-33` says that the descriptor is closed "once
  remove_socket() has been called". What such a callback does is undefined:
  nothing, something to the relay that has its memory now, or a crash
  (`ServeFreed`, `Crash`).
* Over TLS a stream calls `on_tls_ready`, never `on_open`. `http_request` sets
  both, `WebSocket` only the latter: the upgrade request is not sent, and the
  Discord gateway never comes up (`UpWhenOpen`). What `discord.cpp` does with a
  gateway's messages is therefore not modelled. (A peer that answers 101 unasked
  is not modelled either.)
* Callbacks that connect add registrations while `Reactor::run` holds a
  reference to one in the same vector (`eventloop.cpp:149-162`). `on_close` only
  arms a timer, and timers and deferred callbacks run after the loop, so it takes
  a line of the uplink, in its read callback, that enables a relay or is relayed by
  a POST. The rest of that dispatch reads a vector that may have moved; the model takes it
  for the registration it was.

Abstractions: what is sent and received; the delays of the backoff; `up` is a
connection that was made, whatever the peer did since; the uplink's own stream
is in `Link`; TLS, DNS and `socket` may fail at any attempt.

### Tables

`Tables` has the partial functions that tables with a primary key and
`std::map` are modelled with.

## 3. Runs

| run | module, configuration | bounds | shows |
|---|---|---|---|
| `link_any` | `MCLink`, `MCLinkAny.cfg` | backoff 2..7, 4 failures in a row, 7 lines a session; any line of the peer; REBURST | `TypeOK`, `RetryArmedIffDown`, `HubListsLiveLinks`, `AuthenticatedFirst`, `BackoffSchedule` |
| `link_session` | `MCLink`, `MCLinkSession.cfg` | the same with TLS, peer in order, 3 failures in a row, 9 lines | `BurstAtMostOnce`, `HandshakeOrder`, `ImplementsSession`, `AlwaysRelinks` |
| `link_refused` | `MCLink`, `MCLinkRefused.cfg` | with late refusals of connect(2) | `AttemptEnds` is violated |
| `accounts` | `MCAccounts`, `MCAccounts.cfg` | an operator, a user with a certificate and two spellings of one nickname, three nicknames | `TypeOK`, `WaitingIsUnregistered`, `CertBoundOnce`, `InSyncButCerts`, `DecisionsAreFinal`, `SweepLeavesNone`, `ImplementsRegistry` |
| `accounts_abort` | `MCAccounts`, `MCAccountsAbort.cfg` | the same | `NoAbort` is violated |
| `bridge` | `MCBridge`, `MCBridge.cfg` | two bridges, two people, one channel, one remote, three SIDs of which one is ours, one deferred message | `TypeOK`, `ResourcesFollowTable`, `SidsUnique`, `UidsUnique`, `IdentitiesLast` |
| `bridge_announced` | `MCBridge`, `MCBridgeAnnounced.cfg` | the same | `AnnouncedFirst` is violated |
| `chanserv` | `MCChanServ`, `MCChanServ.cfg` | an operator, a user with two nicknames, one channel, one mask, ADD of level 500 | `TypeOK`, `RowsOfRegistered`, `WaitingIsUnregistered`, `FounderChangesHands`, `FreshIsFounders`, `UpperHand`, `ImplementsEstate` |
| `bots` | `MCBots`, `MCBots.cfg` | two bots, two users on two servers, one channel, two nicknames, two uids in a life | `TypeOK`, `NobodyDangling`, `NoGhosts`, `NobodyMissed`, `ImplementsRoster` |
| `bots_join` | `MCBots`, `MCBotsJoin.cfg` | the same | `AssignedJoin` is violated |
| `network` | `MCNetwork`, `MCNetwork.cfg` | three users, one of them an operator, on two servers one behind the other, two nicknames, one in two spellings | `TypeOK`, `NamesTheBearer`, `KnowsEveryone` |
| `relays` | `MCRelays`, `MCRelays.cfg` | one Signal relay, one Discord relay, one POST, three descriptors | `TypeOK`, `TimersOwned`, `NobodyForgotten`, `OneOwnerEach` |

Why the bounds are enough.

* *Link.* The delays are 2, 4, 7 (the cap, which is not a power of two times
  the minimum), 7: four failures in a row pass the cap and stay there. Seven
  lines hold a whole handshake and burst (`CAPAB START`, `CAPABILITIES`,
  `CAPAB END`, `SERVER`, `BURST`, data, `ENDBURST`), nine hold two more. `MaxSent`
  bounds only PONG, routed data and REBURST; the handshake is not cut by it.
  `MaxFailures` bounds failures between two sessions that get up; the number of
  sessions is unbounded. Deadlock is not checked: an inbound link that has
  died, and an uplink at `MaxFailures` whose peer has said everything, stop.
* *Accounts.* Two spellings that fold together are what tells a folded name
  from a display name; a second nickname lets a sweep be cut with one request
  done and one half done; two users are needed for a command on somebody else's
  account, and the operator's is the only way to decide requests. The number of
  registrations, drops, splits and restarts is unbounded.
* *Bridge.* Two bridges compete for SIDs; two people on one bridge compete for
  uids; three SIDs of which one is ours leave exactly one for each bridge, so
  that the search is at its limit. One message may wait, and everything else
  may happen while it does. The number of commands, splits and restarts is
  unbounded.

* *ChanServ.* Every row and every request is keyed by its channel, and no
  command reads another channel's, so one channel is enough, but for a sweep
  that is cut with other requests done: with one channel it is cut before or
  inside that request; that a step of `Estate` leaves the other channels alone is
  shown by the proof, for any number of them. Two users, one of them with two nicknames of which one is
  an account, give access by nickname, by account and by both at different
  levels; 500, which ADD gives, and 600, which a registration gives and SET FOUNDER
  leaves behind, are a helper who may change the list and an owner. That ADD may
  give 600 too is left to the proofs, which are for any number of all of them.
* *Bots.* A second bot is needed for uids to clash and for a bot that is online
  while the other is renamed, deleted or assigned; users on two servers for a
  SQUIT that takes one of them; two uids for a bot that comes back under a new
  one. Bots, nicknames, and the users with their servers are alike to every
  definition, and the configuration declares the symmetry (no property of these
  runs is a liveness property, and `Roster` treats all bots and nicknames alike). The number of splits, bursts and restarts is unbounded.

* *Network.* Three users for an entry that one of them leaves, another takes and
  the third is looked for under; two spellings of one nickname for renames that
  keep the folded one. A server behind another for a SQUIT that misses users.
  Every sequence of lines, bursts, losses and restarts over them is reached.
* *Relays.* Three streams, three descriptors: a reconnect leaks one, so that all
  may be used up by one relay, by two, or by the leaks; a closed one is given
  to the next stream in the same round. One POST in a life of the daemon. Deadlock
  is not checked: with every descriptor leaked and no relay left, nothing happens.

In Accounts, Bridge, ChanServ, Bots and Network no step is the last, and deadlock
is checked.

## 4. Fairness

Only `link_session` and `link_refused` check liveness (`FairSpec`). Weak
fairness is stated per action of the daemon, because `Reactor::run` dispatches
every descriptor that is ready and every timer that is due in each round, and
none of these actions can be disabled by another without having run: a stream
that is connecting gets its result, an open stream with output is written to, an
armed timer fires. The actions that receive a handshake line are fair because the
peer, an InspIRCd that follows its protocol, sends the next line of it: this is
an assumption about the peer, and `AlwaysRelinks` depends on it. Failures
(`PeerDrops`, `ConnectRefused`, `Reject`, `PeerError`, a `connect` that fails at
once) are never fair, and the network is assumed not to fail for ever: at most
`MaxFailures` times between two sessions that get up. `AlwaysRelinks` is checked
with `RefusedLate = FALSE`; with it the uplink may stay dead, which is what
`link_refused` shows.

## 5. Theorems

Proved by TLAPS for every value of the constants, from the named assumptions of
the modules (`LinkAssumption`, `AccountsAssumption`, `BridgeAssumption`,
`ChanServAssumption`, `BotsAssumption`, `NetworkAssumption`, `RelaysAssumption`)
and nothing else.

**LinkProofs.** `LinkTypeOK`; then `LinkSafe`, the inductive invariant
`IInv == TypeOK /\ Safe`. The properties are not inductive alone: that a live
link has no timer armed follows only from how the link's state goes with its
stream's (`StateMatchesStream`: an idle link has a closed stream, a link that
negotiates has an open one or, if inbound, one in its handshake, …).
`LinkRetryArmed` and `LinkHubLists` follow. `LinkAuthenticated` takes its first half
from `Safe`, where `Authenticated` says that a link past the negotiation has heard
SERVER in this session; the second is `TrafficStep`: every handler says lines
of the handshake only, unless SERVER was heard, or says nothing at all, REBURST
excepted.
`LinkBurstOnce` assumes `AllowReburst = FALSE` and counts: while `burst_sent` is
false no BURST is in the output, and the two places that set it send one.
`LinkImplementsSession` assumes `PeerInOrder` and needs one more invariant,
that a peer in order ends no burst we have not answered with ours
(`BurstBeforeEnd`); each action is then matched with an action of `Session` or
a stutter. `LinkBurstSent` follows from the same invariant.

`LinkHandshakeOrder` assumes `PeerInOrder` and no REBURST. What we have said grows
with every handler, and the invariant `SoFarInOrder` says how far it may have
got: no line beyond CAPAB while `server_sent` is false, none beyond SERVER while
`burst_sent` is, and these flags follow what the peer was heard to say.
`QueueInOrder` is the one argument about sequences: lines of stages `n` and later
keep the order after lines of stages up to `n`. For the two handlers that would
answer a peer out of order, `FlushedServer` brings the peer in: it has read our
SERVER before it goes on, so we have sent it.

`LinkBackoff` is for any pair of intervals. `RetryDelay` is the code's doubling
loop, a recursive function with two stops; `BackoffSchedule` has the plain
doubling cut at the maximum, and `DelayIsCapped` is their equality for every
number of attempts. It is an induction. The induction theorems of the library take
an operator, which the provers here cannot instantiate, so it goes over the *set* of
the numbers with the property: `NatsBySuccessor` (a set with 0 that is closed
under successor holds all of them, from the least number outside it), and
`Iterates`, that a first value and a step have a function (so that the `CHOOSE` of a
recursive definition finds one; `DoubledDef` and `RedoubledDef` unfold the two).

**AccountsProofs.** `AccountsTypeOK`. `AccountsWaiting` rests on what each step
does to a single name (`NameStep`): REGISTER is the only way into the queue and
looks at both tables; approval is the only way from the queue to an account and
leaves the queue. `AccountsDecisionsFinal`, `AccountsSweep` and
`AccountsImplementRegistry` follow from the same lemma. `AccountsCertOnce` is
proved through `CertsDistinct`, which is `CertBoundOnce` without cardinalities.
`AccountsInSync` needs the state of the link: outside a burst, and for users
already burst, the two views agree up to METADATA on its way (`SyncInv`).

**BridgeProofs.** `BridgeInvariant`, the conjunction of the types, of
`ResourcesFollowTable` and of `IdsOK`. The last adds to `SidsUnique` and
`UidsUnique` what makes a new uid new: every user of a virtual server bears its
SID and a number below its counter (`Counted`). That the search for a SID
succeeds (`FreeSid`) is a counting argument: the SIDs taken are no more than the
*other* bridges, so with `Cardinality(Bridges) < Cardinality(Sids)` one remains
besides our own. In the code 1296 SIDs are tried, so the assumption says that
fewer bridge names than that are ever used in one run of the daemon. From the
invariant: `BridgeTypeOK`, `BridgeResources`, `BridgeSids`, `BridgeUids` and
`BridgeIdentities`.

**ChanServProofs.** `ChanServTypeOK`, then `ChanServInvariant`: `ChanInv` is
`RowsOfRegistered`, `WaitingIsUnregistered` and `ApprovedIsRegistered` together.
They need each other: an approval makes a channel of a request without looking
whether there is one, which is right because requests wait for unregistered
names only, and an approved request may be asked for again because the channel
it made is gone. `FounderChangesHands` follows, because a queue that decides a
request never touches a registered channel; what is left is SET FOUNDER, whose
guard is `CanChan` at 600, and NickServ's DROP. `FreshIsFounders` needs
`RowsOfRegistered`: a name without a channel has no rows for its next founder to
meet. `UpperHand` says who gave the command that moved a row, and is proved in two
parts: a row of a registered channel moves only by a command on that very row
(`RowChange`, `DropLeavesRows`, and `ActivateLeavesRows` with
`WaitingIsUnregistered` for approvals), and whoever may give one has the upper hand
(`ChangesUpper`). `CanChanIsCallerLevel`: for the levels that are asked for,
`can_chan` and `caller_level` are the same test.
`ChanServImplementsEstate` matches every action with a step of `Estate`. That a
step is about one channel is `HolderKept` for all the others (`OneChannel`); a
grant, whole or cut short, is `SettleStep`, which needs
`WaitingIsUnregistered` to know that a row is written for no owned channel. A DROP
by somebody to whom rows of an old DROP give access takes back a request instead
of a channel, and the abstract channel allows it as a loss.

**BotsProofs.** `BotsInvariant`, with `IInv` in six parts: the tables, the live
bots (`LiveOK`: uids are distinct and below the counter, users are those of the
bots, every bot has a row), the channels (`ChannelsOK`), what the ircd has
(`KnownOK`), the network (`NetOK`: while linked every user online is in the
model) and `MissedOK`, which is `NobodyMissed` during the burst too: who is on a
channel is a member, or erased, or the channel has still to be burst. The
lemmas follow the code's functions: `Ensured` and `ToldOK` for `ensure_bot`,
`KeptJoined` for `ensure_bot_joined`, `QuitBotOK` for `quit_bot`, then one per
action. From `NamedNothing`, no line of ours names a channel, comes
`BotsNeverJoin`: the ircd never has a bot on a channel. It says for all
instances what `bots_join` shows in one. `BotsImplementRoster` is one lemma for
`ensure_bot` (`ComeStep`), one for `quit_bot` (`GoStep`), and for each action
which of them it is; that the uids given are exactly the next ones
(`FreshAreNext`) counts an injection between sets of the same size. `FreshThere`
says that the model always has uids to give: `Fresh` is a choice of functions, and
were it empty for some bots, the steps that bring them online would be missing and
every proof would hold of less.

**NetworkProofs.** `IInv` has three parts: the types; `IndexSound`, that an entry
of the index is of a user with that nickname *in the model*; and `Told`, that in
a session the model agrees with the network on everybody who is not still to be
burst. `NamesTheBearer` is the two together, and alone not inductive: whether an
entry names the bearer after a burst depends on what it was before the link was
lost. One lemma per function of `network.cpp` (`AddKeeps`, `RenameKeeps`,
`RemoveKeeps`) says that it keeps the index sound, though it erases by name:
an entry it erases that was another's is only lost.

**RelaysProofs.** `IInv` is `StreamInv` (types, what a stream that is not there
looks like, which descriptors route to whom, `OneOwnerEach`, `UpWhenOpen`) and
`DutyInv` (types, `TimersOwned`, `NobodyForgotten`). One lemma says what a stream
that closes does, one what connecting does, one what failing to connect does;
the callbacks of a destroyed stream are covered because each does to a living
relay what an event of its own might have done. `RelaysTimers` is where the
destructors matter: closing may arm a timer and the handle read afterwards is
the one that is removed.

**TablesProofs** has what `With`, `Without`, UPDATE, `Over`, `Restrict` and the
empty table preserve.

*Only model-checked*: the liveness property `AlwaysRelinks`, which depends on
fairness; temporal reasoning with ENABLED is outside what the installed provers
do. Every other property a passing run checks is a theorem. The violated
properties have no theorem, of course.

## 6. Disagreements between the code and its text

Each of these is a run whose property quotes a comment or help text of the
repository and which TLC violates; `PROJECT.json` has the lines.

* `AttemptEnds` — a connect(2) refused after EINPROGRESS puts the stream in
  error *before* `handle_close`, which returns early for a stream in error. No
  callback fires and the uplink stays `connecting` for ever.
* `NoAbort` — a REGISTER for a nickname whose request was decided before
  violates the primary key of `pending_reg`, and the exception ends the daemon.
* `AnnouncedFirst` — virtual servers and users are announced once; after a
  reconnect, FJOIN and PRIVMSG name sources the ircd does not have.
* `AssignedJoin` — channel objects have no name: an assigned bot is on its channel
  neither at once nor after the next burst. AKICK on join fails with it.

One more shows in a property that holds: `InSyncButCerts` has to except logins
by certificate. `on_user_cert` runs while the ircd bursts, when
`hub::broadcast` reaches no link, so the ircd is never told, although
`nickserv.cpp:119-120` means to "keep the model and the wire in sync with the
same message".

Others follow from the modules without a run of their own:

* `tx_` survives `close` and `connect`: unsent output of one session is the
  first thing the next session of the link sends (`stale` in `Link`), although
  `reset_session` "starts from a clean" exchange (`link.cpp:380-381`).
* ACCESS ADD compares the caller's level with the row it replaces, not with the
  level it gives (`AccessAdd` in `ChanServ`): a caller of 500 makes others
  owners, against its help (`chanserv.cpp:316-318`).
* The access row in the founder's name is guarded by the level 600, not by who the
  founder is. "Never let anyone but the founder touch the founder's row"
  (`chanserv.cpp:665`) and "Only the channel founder can change access for the
  founder" (`chanserv.cpp:668`) do not hold: SET FOUNDER leaves the old founder his
  row at 600, and he, or anybody with an OWNER row, may then set or delete the new
  founder's row if that is below 600. `UpperHand` says what the code does (600)
  and not what these lines say; it would fail if it asked for the founder.
* In the same way SET PASSWORD, SET FOUNDER and DROP take anybody with 600, where the
  code says "founder-only" (`chanserv.cpp:726`), "Only the founder can change
  settings" (`chanserv.cpp:731`) and "founder access" (`chanserv.cpp:797`): an OWNER
  row is enough to take the channel over.
  `FounderChangesHands` asks for 600.
* REBURST sends the burst again on every link, also on one that is negotiating,
  although `link.h:62-63` calls `send_burst` idempotent (`Reburst` in `Link`).
* SQUIT, MODE and the oper class, the entries the nick index loses (under
  Network in section 2); late refusals of relays, leaked descriptors, stray
  registrations and the Discord gateway (under Relays).

## 7. What is not modelled

* Several links at a time: routing between them and what each is told of the
  others.
* What a Discord relay does once its WebSocket is up: it never is.
* Repeating timers and `call_later` of the reactor (the latter is in `Bridge`),
  listeners: `hub::add_inbound` is never called.
* Commands that only answer or only send a line, and columns that only shape
  texts: INFO, LIST, STATUS, HELP, the status and topic commands of ChanServ, SET
  FANTASYOPER and REPLY, oper groups, statistics. Of the fantasy commands, those
  that only answer or set modes or topics, but for the bot they bring online; the
  bans of `!kickban`.
* `util`, `config`, `log`, `crypto`, `syntax`, `protocol`: stateless helpers.
  What the models need of them is a constant (`Fold` for nickname folding) or
  the parsed message.
* TLS, SQLite, DNS: external. TLS is a handshake that succeeds or fails, SQLite
  a set of tables whose statements are atomic and persistent and fail on a
  duplicate primary key.
* Leaks of memory: links are never freed by the hub, the slots of the reactor
  never shrink. (Leaks of descriptors are in `Relays`.)
* The parsers of JSON, HTTP and WebSocket frames work on byte streams.

## 8. Plan

In this order; items 1 to 8 are done.

1. **Link / Session** — the uplink's sessions: everything else is of use only
   while it works. *Done, proved.*
2. **Accounts / Registry** — the first pair of services that share tables, with
   deaths between statements. *Done, proved.*
3. **Bridge** — tables, resources and identities. *Done, proved.*
4. **ChanServ** — registration and its queue, founder and access levels against
   accounts that come and go, DROP in four statements. *Done, proved*, with
   `Estate`, the life of a channel it implements.
5. **Bots** — live bots against tables, two views of channels, AKICK's kicks.
   *Done, proved*, with `Roster`, the bots it presents.
6. **Network** — users and the nick index under renames, SAVEs, splits and
   bursts. *Done, proved.*
7. **Relays** — Signal's and Discord's connections, POSTs. *Done, proved.*
8. **Reactor** — descriptors, registrations and timers under callbacks that add
   and remove them, as a part of Relays. *Done, proved.* Left: fairness for it,
   so that a relay that is not refused late comes up again and again.
9. **Hub** — several links, routing and late introduction, with `Session` as the
   behaviour of each.
