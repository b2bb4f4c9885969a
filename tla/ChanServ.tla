------------------------------ MODULE ChanServ ------------------------------
(***************************************************************************)
(* Registered channels: the ChanServ commands that register a channel,     *)
(* share it out and drop it, OperServ's queue of channel requests, the     *)
(* fantasy command !identify, and what NickServ does to a channel whose    *)
(* founder drops his account (src/services/chanserv.cpp, operserv.cpp,     *)
(* botserv.cpp, nickserv.cpp, modules.h).                                  *)
(*                                                                         *)
(* Every name in these tables has been through fold or irc_lower, and so   *)
(* has every name looked up in them: a name here stands for all its        *)
(* spellings.  All of the state is in SQLite.  A daemon that dies inside a *)
(* command leaves the statements it had run; as nothing of ChanServ is in  *)
(* memory, its death and restart are part of the same step.                *)
(*                                                                         *)
(* Commands that only send the ircd a mode, a topic or a kick (OP .. TOPIC,*)
(* the channel features of SET) change nothing here; they ask CanChan, as  *)
(* the ones below do.                                                      *)
(*                                                                         *)
(* A definition X_Slip is a slip in X, kept to show that the properties    *)
(* tell it from the code; nothing here uses it.                            *)
(***************************************************************************)
EXTENDS Integers, Tables

CONSTANTS
  Channels,              \* folded channel names
  Names,                 \* folded nicknames
  AccountNames,          \* those that are registered with NickServ, ever
  Masks,                 \* AKICK masks
  Levels,                \* the levels ACCESS ADD is asked for
  Users,                 \* uids
  Opers,                 \* the users is_oper() and req_priv() accept
  NicksOf,               \* the nicknames each user goes by
  NoOne                  \* the empty string

NONE == -100             \* channel_access_level without a row
MANAGE == 500
OWNER == 600

ASSUME ChanServAssumption ==
  /\ Levels \subseteq 0..OWNER
  /\ AccountNames \subseteq Names
  /\ Opers \subseteq Users
  /\ NicksOf \in [Users -> SUBSET Names]
  /\ NoOne \notin Names

VARIABLES
  chanserv,              \* table chanserv: channel -> founder, password set
  access,                \* table chanserv_access: <<channel, who>> -> level
  akick,                 \* table chanserv_akick: <<channel, mask>>
  pending,               \* table pending_chan: channel -> founder, approved
  auto_approve_chan,     \* global.auto_approve_chan = "1"
  accounts,              \* table nickserv: the accounts there are
  nick,                  \* the nickname of each user
  account,               \* the account each user is logged in to
  torn                   \* history: channels a command on which was cut short
                         \* since they were last dropped

vars == <<chanserv, access, akick, pending, auto_approve_chan, accounts,
          nick, account, torn>>
queue == <<pending, auto_approve_chan>>
people == <<accounts, nick, account>>

Row == [founder : Names \cup {NoOne}, password : BOOLEAN]
Request == [founder : Names, approved : {"waiting", "approved", "rejected"}]

TypeOK ==
  /\ IsTable(chanserv, Channels, Row)
  /\ IsTable(access, Channels \X Names, 0..OWNER)
  /\ akick \subseteq Channels \X Masks
  /\ IsTable(pending, Channels, Request)
  /\ auto_approve_chan \in BOOLEAN
  /\ accounts \subseteq AccountNames
  /\ nick \in [Users -> Names]
  /\ account \in [Users -> AccountNames \cup {NoOne}]
  /\ torn \subseteq Channels

Init ==
  /\ chanserv = NoFunction /\ access = NoFunction /\ akick = {}
  /\ pending = NoFunction /\ auto_approve_chan = FALSE
  /\ accounts = {}
  /\ nick \in {f \in [Users -> Names] :
                 \A u, v \in Users : f[u] \in NicksOf[u] /\ (f[u] = f[v] => u = v)}
  /\ account = [u \in Users |-> NoOne]
  /\ torn = {}

-----------------------------------------------------------------------------
(* Who may do what. *)

Registered(c) == c \in DOMAIN chanserv
Waiting == {c \in DOMAIN pending : pending[c].approved = "waiting"}

\* channel_access_level.
Level(c, n) == IF <<c, n>> \in DOMAIN access THEN access[<<c, n>>] ELSE NONE

IsFounder(u, c) ==
  /\ Registered(c) /\ account[u] # NoOne
  /\ chanserv[c].founder = account[u]

\* can_chan: the founder, or a row for the nickname or for the account.
CanChan(u, c, min) ==
  \/ IsFounder(u, c)
  \/ Level(c, nick[u]) >= min
  \/ account[u] # NoOne /\ Level(c, account[u]) >= min

\* caller_level.
CallerLevel(u, c) ==
  IF IsFounder(u, c) THEN OWNER
  ELSE IF account[u] # NoOne /\ Level(c, account[u]) > Level(c, nick[u])
       THEN Level(c, account[u])
       ELSE Level(c, nick[u])

\* The name !identify gives access to.
Identity(u) == IF account[u] = NoOne THEN nick[u] ELSE account[u]

-----------------------------------------------------------------------------
(* The people: NickServ and the network, as far as channels depend on them.*)

Renames(u, n) ==
  /\ n \in NicksOf[u] /\ \A v \in Users : nick[v] # n
  /\ nick' = [nick EXCEPT ![u] = n]
  /\ UNCHANGED <<chanserv, access, akick, queue, accounts, account, torn>>

NickRegistered(n) ==
  /\ n \in AccountNames \ accounts
  /\ accounts' = accounts \cup {n}
  /\ UNCHANGED <<chanserv, access, akick, queue, nick, account, torn>>

LogsIn(u, n) ==
  /\ n \in accounts
  /\ account' = [account EXCEPT ![u] = n]
  /\ UNCHANGED <<chanserv, access, akick, queue, accounts, nick, torn>>

LogsOut(u) ==
  /\ account' = [account EXCEPT ![u] = NoOne]
  /\ UNCHANGED <<chanserv, access, akick, queue, accounts, nick, torn>>

\* NickServ's DROP, by u: it clears the founder of the account's channels.
\* Access rows and requests in that name stay.
NickDropped(u, n) ==
  /\ n \in accounts
  /\ account[u] = n \/ u \in Opers
  /\ accounts' = accounts \ {n}
  /\ chanserv' = [c \in DOMAIN chanserv |->
                    IF chanserv[c].founder = n
                    THEN [founder |-> NoOne, password |-> FALSE]
                    ELSE chanserv[c]]
  /\ account' = IF account[u] = n THEN [account EXCEPT ![u] = NoOne] ELSE account
  /\ UNCHANGED <<access, akick, queue, nick, torn>>

\* The same, cut short after its first statement.
NickDropCutShort(u, n) ==
  /\ n \in accounts
  /\ account[u] = n \/ u \in Opers
  /\ accounts' = accounts \ {n}
  /\ UNCHANGED <<chanserv, access, akick, queue, nick, account, torn>>

-----------------------------------------------------------------------------
(* Registration. *)

\* The rows activate_channel writes for channels founded by F[c]: one in
\* chanserv, replacing what is there, then one in chanserv_access.
Founded(F) == [c \in DOMAIN F |-> [founder |-> F[c], password |-> FALSE]]
Ownership(F) == [k \in {<<c, F[c]>> : c \in DOMAIN F} |-> OWNER]

\* activate_channel cut short between the two.
ActivateHalf(F) ==
  /\ chanserv' = Over(chanserv, Founded(F))
  /\ UNCHANGED access

Activate(F) ==
  /\ chanserv' = Over(chanserv, Founded(F))
  /\ access' = Over(access, Ownership(F))

MayRegister_LoggedOut(u, c) == ~Registered(c) /\ c \notin Waiting

MayRegister_IgnoresQueue(u, c) == account[u] # NoOne /\ ~Registered(c)

MayRegister_IgnoresOwner(u, c) == account[u] # NoOne /\ c \notin Waiting

MayRegister(u, c) == account[u] # NoOne /\ ~Registered(c) /\ c \notin Waiting

\* REGISTER with auto-approve on; pending_chan keeps an old decision.
RegisterNow(u, c) ==
  /\ MayRegister(u, c) /\ auto_approve_chan
  /\ Activate([x \in {c} |-> account[u]])
  /\ UNCHANGED <<akick, queue, people, torn>>

RegisterNowCutShort(u, c) ==
  /\ MayRegister(u, c) /\ auto_approve_chan
  /\ ActivateHalf([x \in {c} |-> account[u]])
  /\ torn' = torn \cup {c}
  /\ UNCHANGED <<akick, queue, people>>

\* REGISTER with auto-approve off: a request replaces an old decision.
RegisterLater(u, c) ==
  /\ MayRegister(u, c) /\ ~auto_approve_chan
  /\ pending' = With(pending, c, [founder |-> account[u], approved |-> "waiting"])
  /\ UNCHANGED <<chanserv, access, akick, auto_approve_chan, people, torn>>

-----------------------------------------------------------------------------
(* OperServ: the queue of channel requests. *)

OperCommands == Opers # {}

Requested(S) == [c \in S |-> pending[c].founder]

Decided(S, decision) ==
  [c \in DOMAIN pending |->
     IF c \in S THEN [pending[c] EXCEPT !.approved = decision] ELSE pending[c]]

\* The requests an operator can decide on: SELECT .. AND approved=0.
Decidable_Any == DOMAIN pending

Decidable == Waiting

\* approve_chan_pending, to approve.
Approve(c) ==
  /\ OperCommands /\ c \in Decidable
  /\ pending' = Decided({c}, "approved")
  /\ Activate(Requested({c}))
  /\ UNCHANGED <<akick, auto_approve_chan, people, torn>>

Reject(c) ==
  /\ OperCommands /\ c \in Decidable
  /\ pending' = Decided({c}, "rejected")
  /\ UNCHANGED <<chanserv, access, akick, auto_approve_chan, people, torn>>

\* approve_chan_pending on every name of done, and on one name more without
\* its last statement or its last two.
GrantCutShort(done, half) ==
  /\ pending' = Decided(done \cup {half}, "approved")
  /\ \E rows \in {done, done \cup {half}} :
       chanserv' = Over(chanserv, Founded(Requested(rows)))
  /\ access' = Over(access, Ownership(Requested(done)))
  /\ torn' = torn \cup {half}

ApproveCutShort(c) ==
  /\ OperCommands /\ c \in Decidable
  /\ GrantCutShort({}, c)
  /\ UNCHANGED <<akick, auto_approve_chan, people>>

\* AUTOAPPROVE CHAN on: the setting, then approve_all_pending.
AutoApproveOn ==
  /\ OperCommands
  /\ auto_approve_chan' = TRUE
  /\ pending' = Decided(Waiting, "approved")
  /\ Activate(Requested(Waiting))
  /\ UNCHANGED <<akick, people, torn>>

\* The sweep cut short: between two requests, or inside one.
SweepCutShort ==
  /\ OperCommands
  /\ auto_approve_chan' = TRUE
  /\ \E done \in SUBSET Waiting :
       \/ /\ pending' = Decided(done, "approved")
          /\ Activate(Requested(done))
          /\ UNCHANGED torn
       \/ \E half \in Waiting \ done : GrantCutShort(done, half)
  /\ UNCHANGED <<akick, people>>

AutoApproveOff ==
  /\ OperCommands
  /\ auto_approve_chan' = FALSE
  /\ UNCHANGED <<chanserv, access, akick, pending, people, torn>>

-----------------------------------------------------------------------------
(* The commands of those who have access. *)

\* The common tests of ACCESS ADD and DEL.
MayChange_AnyRow(u, c, n) ==
  /\ CallerLevel(u, c) >= MANAGE
  /\ Registered(c) /\ chanserv[c].founder = n => CallerLevel(u, c) >= OWNER

MayChange(u, c, n) ==
  /\ CallerLevel(u, c) >= MANAGE
  /\ Level(c, n) < CallerLevel(u, c)
  /\ Registered(c) /\ chanserv[c].founder = n => CallerLevel(u, c) >= OWNER

\* The level given is not compared with the caller's.
AccessAdd(u, c, n, level) ==
  /\ MayChange(u, c, n)
  /\ access' = With(access, <<c, n>>, level)
  /\ UNCHANGED <<chanserv, akick, queue, people, torn>>

AccessDel(u, c, n) ==
  /\ MayChange(u, c, n)
  /\ access' = Without(access, <<c, n>>)
  /\ UNCHANGED <<chanserv, akick, queue, people, torn>>

\* AKICK ADD deletes the mask's row before it inserts one; its kicks are not
\* modelled.
AkickAdd(u, c, mask) ==
  /\ CanChan(u, c, 300)
  /\ akick' = akick \cup {<<c, mask>>}
  /\ UNCHANGED <<chanserv, access, queue, people, torn>>

\* AKICK DEL, or an ADD cut short between the two.
AkickDel(u, c, mask) ==
  /\ CanChan(u, c, 300)
  /\ akick' = akick \ {<<c, mask>>}
  /\ UNCHANGED <<chanserv, access, queue, people, torn>>

SetPassword(u, c) ==
  /\ CanChan(u, c, OWNER) /\ Registered(c)
  /\ chanserv' = [chanserv EXCEPT ![c].password = TRUE]
  /\ UNCHANGED <<access, akick, queue, people, torn>>

\* SET FOUNDER: any name; the access rows stay as they are.
SetFounder(u, c, n) ==
  /\ CanChan(u, c, OWNER) /\ Registered(c)
  /\ chanserv' = [chanserv EXCEPT ![c].founder = n]
  /\ UNCHANGED <<access, akick, queue, people, torn>>

Drop_KeepsAccess(u, c) ==
  /\ CanChan(u, c, OWNER)
  /\ chanserv' = Without(chanserv, c)
  /\ akick' = {k \in akick : k[1] # c}
  /\ pending' = Without(pending, c)
  /\ torn' = torn \ {c}
  /\ UNCHANGED <<access, auto_approve_chan, people>>

Drop_KeepsAkick(u, c) ==
  /\ CanChan(u, c, OWNER)
  /\ chanserv' = Without(chanserv, c)
  /\ access' = Restrict(access, {k \in DOMAIN access : k[1] # c})
  /\ pending' = Without(pending, c)
  /\ torn' = torn \ {c}
  /\ UNCHANGED <<akick, auto_approve_chan, people>>

\* DROP: four DELETEs, without a transaction.
Drop(u, c) ==
  /\ CanChan(u, c, OWNER)
  /\ chanserv' = Without(chanserv, c)
  /\ access' = Restrict(access, {k \in DOMAIN access : k[1] # c})
  /\ akick' = {k \in akick : k[1] # c}
  /\ pending' = Without(pending, c)
  /\ torn' = torn \ {c}
  /\ UNCHANGED <<auto_approve_chan, people>>

DropCutShort(u, c) ==
  /\ CanChan(u, c, OWNER)
  /\ chanserv' = Without(chanserv, c)
  /\ \/ UNCHANGED <<access, akick>>
     \/ /\ access' = Restrict(access, {k \in DOMAIN access : k[1] # c})
        /\ akick' \in {akick, {k \in akick : k[1] # c}}
  /\ torn' = torn \cup {c}
  /\ UNCHANGED <<queue, people>>

\* The fantasy command !identify with the right password: the row becomes
\* 500, whatever it was.
FantasyIdentify(u, c) ==
  /\ Registered(c) /\ chanserv[c].password
  /\ access' = With(access, <<c, Identity(u)>>, MANAGE)
  /\ UNCHANGED <<chanserv, akick, queue, people, torn>>

-----------------------------------------------------------------------------
Register ==
  \E u \in Users, c \in Channels :
    \/ RegisterNow(u, c) \/ RegisterNowCutShort(u, c) \/ RegisterLater(u, c)

OperServ ==
  \/ \E c \in Channels : Approve(c) \/ ApproveCutShort(c) \/ Reject(c)
  \/ AutoApproveOn \/ SweepCutShort \/ AutoApproveOff

\* u's commands on n's access row.
ChangesAccess(u, c, n) ==
  \/ AccessDel(u, c, n)
  \/ \E level \in Levels : AccessAdd(u, c, n, level)
  \/ Identity(u) = n /\ FantasyIdentify(u, c)

Manage ==
  \E u \in Users, c \in Channels :
    \/ \E n \in Names : ChangesAccess(u, c, n) \/ SetFounder(u, c, n)
    \/ \E mask \in Masks : AkickAdd(u, c, mask) \/ AkickDel(u, c, mask)
    \/ SetPassword(u, c) \/ Drop(u, c) \/ DropCutShort(u, c)

People ==
  \/ \E u \in Users, n \in Names :
       \/ Renames(u, n) \/ LogsIn(u, n)
       \/ NickDropped(u, n) \/ NickDropCutShort(u, n)
  \/ \E n \in Names : NickRegistered(n)
  \/ \E u \in Users : LogsOut(u)

Next == Register \/ OperServ \/ Manage \/ People

Spec == Init /\ [][Next]_vars

-----------------------------------------------------------------------------
(* Properties. *)

\* Access and AKICK rows belong to a registered channel, but for what a DROP
\* cut short left: who registers a name finds nobody else's rows there.
RowsOfRegistered ==
  \A k \in DOMAIN access \cup akick : k[1] \in DOMAIN chanserv \cup torn

\* No request waits for a channel that has an owner: activate_channel would
\* REPLACE him when it is approved.
WaitingIsUnregistered == Waiting \cap DOMAIN chanserv = {}

\* A request that was approved made the channel, unless the approval or a
\* later DROP was cut short.
ApprovedIsRegistered ==
  \A c \in DOMAIN pending :
    pending[c].approved = "approved" => c \in DOMAIN chanserv \cup torn

\* A channel's founder changes at the command of a user who has 600 there -
\* which an OWNER row gives as well as being the founder -, or is cleared when
\* his account is dropped; no registration, approval or sweep does it.
FounderChangesHands ==
  [][\A c \in DOMAIN chanserv \cap DOMAIN chanserv' :
       \/ chanserv'[c].founder = chanserv[c].founder
       \/ LET by == {u \in Users : SetFounder(u, c, chanserv'[c].founder)}
          IN  by # {} /\ \A u \in by : CanChan(u, c, OWNER)
       \/ chanserv'[c].founder = NoOne /\ chanserv[c].founder \notin accounts'
    ]_vars

\* A channel just registered obeys nobody below its founder: who else can do
\* anything there goes by the founder's name.
FreshIsFounders ==
  [][\A c \in DOMAIN chanserv' \ (DOMAIN chanserv \cup torn') :
       \A u \in Users : CanChan(u, c, 0)' =>
         chanserv'[c].founder \in {account'[u], nick'[u]}]_vars

\* A row of a registered channel moves, up or down, only at the command of a
\* user who has 500 there and more than the row did - or who gives the
\* channel's password, which makes his own row 500.  The row in the founder's
\* name takes 600: not the founder himself, as ACCESS's comment and answer
\* have it, for an OWNER row does, one that SET FOUNDER left included.  The
\* level a row rises to is not bounded by the caller's.
UpperHand ==
  [][\A c \in DOMAIN chanserv \cap DOMAIN chanserv', n \in Names :
       Level(c, n)' # Level(c, n) =>
         LET by == {u \in Users : ChangesAccess(u, c, n)}
         IN  /\ by # {}
             /\ \A u \in by :
                  \/ /\ CallerLevel(u, c) >= MANAGE
                     /\ CallerLevel(u, c) > Level(c, n)
                     /\ n = chanserv[c].founder => CallerLevel(u, c) >= OWNER
                  \/ /\ chanserv[c].password
                     /\ Identity(u) = n /\ Level(c, n)' = MANAGE
    ]_vars

\* What the tables say of each channel: its founder is in its row, and who
\* asked for it in the request that waits.
Holder ==
  [c \in Channels |->
     IF Registered(c) THEN [stage |-> "owned", by |-> chanserv[c].founder]
     ELSE IF c \in Waiting THEN [stage |-> "requested", by |-> pending[c].founder]
     ELSE [stage |-> "free", by |-> NoOne]]

H == INSTANCE Estate WITH holder <- Holder

\* The tables implement the abstract life of the channels: however commands
\* interleave and wherever they are cut short, a request gives a channel to
\* nobody but who made it, neither a request nor a grant takes one from its
\* owner, and no command changes two channels but AUTOAPPROVE and a DROP of
\* their founder's account.
ImplementsEstate == H!EstateSpec
=============================================================================
