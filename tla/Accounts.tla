------------------------------ MODULE Accounts ------------------------------
(***************************************************************************)
(* Nickname accounts: the NickServ commands that register, identify and    *)
(* drop, OperServ's queue of registration requests, the tables both keep   *)
(* in SQLite, and the account each user holds in the view of the services  *)
(* and in the view of the ircd (src/services/nickserv.cpp, operserv.cpp,   *)
(* services.cpp, modules.h).                                               *)
(*                                                                         *)
(* A handler runs to its end in one callback of the reactor, so a command  *)
(* is one step.  No handler uses a transaction: a daemon that dies inside  *)
(* one leaves the statements it had run.  Passwords are abstracted to the  *)
(* caller knowing the right one; umodes, e-mail and times are left out.    *)
(*                                                                         *)
(* A definition X_Slip is a slip in X, kept to show that the properties    *)
(* tell it from the code; nothing here uses it.                            *)
(***************************************************************************)
EXTENDS FiniteSets, Tables

CONSTANTS
  Nicks,                 \* nicknames as users write them
  Fold,                  \* svc::core::fold
  Users,                 \* uids
  Opers,                 \* the users is_oper() and req_priv() accept
  CertUsers,             \* users with a client certificate of their own
  NicksOf,               \* the nicknames each user goes by
  NoAccount,             \* the empty string
  Nothing                \* no METADATA on its way

Names == {Fold[n] : n \in Nicks}
AccountValues == Nicks \cup {NoAccount}

ASSUME AccountsAssumption ==
  /\ Fold \in [Nicks -> Nicks]
  /\ \A n \in Nicks : Fold[Fold[n]] = Fold[n]
  /\ NicksOf \in [Users -> SUBSET Nicks]
  /\ Opers \subseteq Users /\ CertUsers \subseteq Users
  /\ NoAccount \notin Nicks /\ Nothing \notin AccountValues

VARIABLES
  daemon,                \* "running", or how it ended: "killed", "aborted"
  link,                  \* the uplink: "down", "burst", "linked"
  nickserv,              \* table nickserv: name -> account
  pending,               \* table pending_reg: name -> approved
  auto_approve,          \* global.auto_approve = "1"
  certs,                 \* table nickserv_cert: <<name, certificate of a user>>
  net,                   \* irc::network: the users the services know
  ircd,                  \* the users there are
  wire,                  \* the account we have told the ircd of, undelivered
  unsynced               \* users the ircd has yet to send in its burst

vars == <<daemon, link, nickserv, pending, auto_approve, certs, net, ircd,
          wire, unsynced>>
tables == <<nickserv, pending, auto_approve, certs>>
views == <<net, ircd, wire>>
uplink == <<daemon, link, unsynced>>

UserRecord == [nick : Nicks, account : AccountValues]

TypeOK ==
  /\ daemon \in {"running", "killed", "aborted"}
  /\ link \in {"down", "burst", "linked"}
  /\ IsTable(nickserv, Names, Nicks)
  /\ IsTable(pending, Names, {"waiting", "approved", "rejected"})
  /\ auto_approve \in BOOLEAN
  /\ certs \subseteq Names \X CertUsers
  /\ IsTable(net, Users, UserRecord)
  /\ IsTable(ircd, Users, UserRecord)
  /\ wire \in [Users -> AccountValues \cup {Nothing}]
  /\ unsynced \subseteq IF link = "burst" THEN DOMAIN ircd ELSE {}

Quiet == [u \in Users |-> Nothing]

Init ==
  /\ daemon = "running" /\ link = "down"
  /\ nickserv = NoFunction /\ pending = NoFunction
  /\ auto_approve = FALSE /\ certs = {}
  /\ net = NoFunction /\ ircd = NoFunction /\ wire = Quiet
  /\ unsynced = {}

-----------------------------------------------------------------------------
(* What the commands look at. *)

Registered(n) == n \in DOMAIN nickserv
Waiting == {n \in DOMAIN pending : pending[n] = "waiting"}

\* The accounts whose nickname u's certificate is bound to.
CertAccounts(u) == {nickserv[n] : n \in {m \in DOMAIN nickserv : <<m, u>> \in certs}}

\* hub::broadcast reaches links that are linked, and no other.
Tell(u, account) ==
  wire' = IF link = "linked" THEN [wire EXCEPT ![u] = account] ELSE wire

SetAccount_NotTold(u, account) ==
  /\ net' = [net EXCEPT ![u].account = account]
  /\ UNCHANGED <<wire, ircd>>

\* set_account: the network model and the METADATA line.
SetAccount(u, account) ==
  /\ net' = [net EXCEPT ![u].account = account]
  /\ Tell(u, account)
  /\ UNCHANGED ircd

Introduce_KeepsAccount(u, nick, account) ==
  /\ net' = With(net, u, [nick |-> nick, account |->
                    IF u \in DOMAIN net THEN net[u].account ELSE account])
  /\ UNCHANGED wire

\* The lines the ircd introduces a user with: UID replaces what we knew,
\* METADATA accountname gives the account, METADATA certfp runs on_user_cert.
Introduce(u, nick, account) ==
  LET known(a) == net' = With(net, u, [nick |-> nick, account |-> a])
  IN  IF u \in CertUsers /\ account = NoAccount /\ CertAccounts(u) # {}
      THEN \E a \in CertAccounts(u) : known(a) /\ Tell(u, a)
      ELSE known(account) /\ UNCHANGED wire

\* The process ends: everything but the database is lost.
Die(how) ==
  /\ daemon' = how /\ link' = "down" /\ unsynced' = {}
  /\ net' = NoFunction /\ wire' = Quiet
  /\ UNCHANGED ircd

-----------------------------------------------------------------------------
(* The network.  Outside a burst its users come, go and rename freely.     *)

NickFree(n, u) == \A v \in DOMAIN ircd \ {u} : Fold[ircd[v].nick] # Fold[n]

UserConnects(u, n) ==
  /\ link # "burst"
  /\ u \notin DOMAIN ircd /\ NickFree(n, u)
  /\ ircd' = With(ircd, u, [nick |-> n, account |-> NoAccount])
  /\ IF link = "linked"
     THEN Introduce(u, n, NoAccount)
     ELSE UNCHANGED <<net, wire>>
  /\ UNCHANGED <<uplink, tables>>

\* handle_nick.
UserRenames(u, n) ==
  /\ link # "burst"
  /\ u \in DOMAIN ircd /\ n # ircd[u].nick /\ NickFree(n, u)
  /\ ircd' = [ircd EXCEPT ![u].nick = n]
  /\ net' = IF link = "linked" THEN [net EXCEPT ![u].nick = n] ELSE net
  /\ UNCHANGED <<uplink, tables, wire>>

\* handle_quit; nobody tells us of a user who leaves during a split.
UserQuits(u) ==
  /\ link # "burst"
  /\ u \in DOMAIN ircd
  /\ ircd' = Without(ircd, u)
  /\ net' = IF link = "linked" THEN Without(net, u) ELSE net
  /\ wire' = [wire EXCEPT ![u] = Nothing]
  /\ UNCHANGED <<uplink, tables>>

\* The ircd takes our METADATA accountname.
MetadataArrives(u) ==
  /\ wire[u] # Nothing
  /\ ircd' = [ircd EXCEPT ![u].account = wire[u]]
  /\ wire' = [wire EXCEPT ![u] = Nothing]
  /\ UNCHANGED <<uplink, tables, net>>

LinkUp ==
  /\ daemon = "running" /\ link = "down"
  /\ link' = "burst" /\ unsynced' = DOMAIN ircd
  /\ UNCHANGED <<daemon, tables, views>>

\* One user of the peer's burst; our link is bursting, not yet linked.
BurstUser(u) ==
  /\ u \in unsynced
  /\ unsynced' = unsynced \ {u}
  /\ Introduce(u, ircd[u].nick, ircd[u].account)
  /\ UNCHANGED <<daemon, link, tables, ircd>>

BurstEnds ==
  /\ link = "burst" /\ unsynced = {}
  /\ link' = "linked"
  /\ UNCHANGED <<daemon, unsynced, tables, views>>

\* The network model is kept; what was not delivered is lost.
LinkDrops ==
  /\ link # "down"
  /\ link' = "down" /\ unsynced' = {} /\ wire' = Quiet
  /\ UNCHANGED <<daemon, tables, net, ircd>>

Killed ==
  /\ daemon = "running"
  /\ Die("killed")
  /\ UNCHANGED tables

Restarts ==
  /\ daemon # "running"
  /\ daemon' = "running"
  /\ UNCHANGED <<link, unsynced, tables, views>>

-----------------------------------------------------------------------------
(* NickServ commands. *)

\* handle_privmsg: a command comes from a user we know, over a live link.
Commands(u) == link = "linked" /\ u \in DOMAIN net /\ u \in DOMAIN ircd

MayRegister_IgnoresQueue(n) == ~Registered(n)

MayRegister(n) == ~Registered(n) /\ n \notin Waiting

RegisterNow_Unfolded(u) ==
  /\ Commands(u) /\ MayRegister(Fold[net[u].nick]) /\ auto_approve
  /\ nickserv' = With(nickserv, net[u].nick, net[u].nick)
  /\ SetAccount(u, net[u].nick)
  /\ UNCHANGED <<uplink, pending, auto_approve, certs>>

\* REGISTER with auto-approve on.
RegisterNow(u) ==
  LET n == Fold[net[u].nick] IN
  /\ Commands(u) /\ MayRegister(n) /\ auto_approve
  /\ nickserv' = With(nickserv, n, net[u].nick)
  /\ SetAccount(u, net[u].nick)
  /\ UNCHANGED <<uplink, pending, auto_approve, certs>>

\* REGISTER with auto-approve off queues a request.  The name is the primary
\* key of pending_reg: when an old decision is still there, INSERT throws
\* db_error, which nothing catches.
RegisterLater(u) ==
  LET n == Fold[net[u].nick] IN
  /\ Commands(u) /\ MayRegister(n) /\ ~auto_approve
  /\ \/ /\ n \notin DOMAIN pending
        /\ pending' = With(pending, n, "waiting")
        /\ UNCHANGED <<uplink, views>>
     \/ /\ n \in DOMAIN pending
        /\ Die("aborted")
        /\ UNCHANGED pending
  /\ UNCHANGED <<nickserv, auto_approve, certs>>

\* IDENTIFY's test for a caller who is logged in to n already.
AlreadyIdentified(u, n) ==
  net[u].account # NoAccount /\ Fold[net[u].account] = nickserv[n]

\* IDENTIFY with the right password.
Identify(u, n) ==
  /\ Commands(u) /\ Registered(n) /\ ~AlreadyIdentified(u, n)
  /\ SetAccount(u, nickserv[n])
  /\ UNCHANGED <<uplink, tables>>

Logout(u) ==
  /\ Commands(u) /\ net[u].account # NoAccount
  /\ SetAccount(u, NoAccount)
  /\ UNCHANGED <<uplink, tables>>

\* DROP, by the holder of the account or an operator.  Only the caller is
\* logged out; nickserv_cert and pending_reg keep their rows.
DropNick(u, n) ==
  /\ Commands(u) /\ Registered(n)
  /\ net[u].account = nickserv[n] \/ u \in Opers
  /\ nickserv' = Without(nickserv, n)
  /\ IF net[u].account = nickserv[n]
     THEN SetAccount(u, NoAccount)
     ELSE UNCHANGED views
  /\ UNCHANGED <<uplink, pending, auto_approve, certs>>

\* The nicknames CERT takes for the caller's.
Mine(u) == {n \in DOMAIN nickserv : nickserv[n] = Fold[net[u].account]}

BoundNames(u) == {n \in Names : <<n, u>> \in certs}

CertAdd_Rebinds(u) ==
  /\ Commands(u) /\ u \in CertUsers /\ net[u].account # NoAccount
  /\ \E n \in Mine(u) : certs' = certs \cup {<<n, u>>}
  /\ UNCHANGED <<uplink, nickserv, pending, auto_approve, views>>

\* CERT ADD prefers the nick in use; a certificate is bound once.
CertAdd(u) ==
  /\ Commands(u) /\ u \in CertUsers /\ net[u].account # NoAccount
  /\ BoundNames(u) = {}
  /\ \E n \in Mine(u) :
       /\ Fold[net[u].nick] \in Mine(u) => n = Fold[net[u].nick]
       /\ certs' = certs \cup {<<n, u>>}
  /\ UNCHANGED <<uplink, nickserv, pending, auto_approve, views>>

CertDel(u) ==
  /\ Commands(u) /\ u \in CertUsers
  /\ certs' = {c \in certs : c[2] # u}
  /\ UNCHANGED <<uplink, nickserv, pending, auto_approve, views>>

-----------------------------------------------------------------------------
(* OperServ: the queue of requests. *)

OperCommands == \E u \in Opers : Commands(u)

\* approve_nick_pending on every name of S: UPDATE pending_reg, then INSERT
\* into nickserv under the folded name, which finds no row there (see
\* WaitingIsUnregistered).
Grant(S) ==
  /\ pending' = [n \in DOMAIN pending |-> IF n \in S THEN "approved" ELSE pending[n]]
  /\ nickserv' = [n \in DOMAIN nickserv \cup S |-> IF n \in S THEN n ELSE nickserv[n]]

Approve_Again(n) ==
  /\ OperCommands /\ n \in DOMAIN pending
  /\ ~Registered(n)
  /\ Grant({n})
  /\ UNCHANGED <<uplink, auto_approve, certs, views>>

Approve(n) ==
  /\ OperCommands /\ n \in Waiting
  /\ ~Registered(n)
  /\ Grant({n})
  /\ UNCHANGED <<uplink, auto_approve, certs, views>>

\* The daemon ends between the two statements: it is killed, or the second
\* one throws because the nickname is registered already.
ApproveCutShort(n) ==
  /\ OperCommands /\ n \in Waiting
  /\ pending' = [pending EXCEPT ![n] = "approved"]
  /\ Die(IF Registered(n) THEN "aborted" ELSE "killed")
  /\ UNCHANGED <<nickserv, auto_approve, certs>>

Reject_Deletes(n) ==
  /\ OperCommands /\ n \in Waiting
  /\ pending' = Without(pending, n)
  /\ UNCHANGED <<uplink, nickserv, auto_approve, certs, views>>

Reject(n) ==
  /\ OperCommands /\ n \in Waiting
  /\ pending' = [pending EXCEPT ![n] = "rejected"]
  /\ UNCHANGED <<uplink, nickserv, auto_approve, certs, views>>

AutoApproveOn_NoSweep ==
  /\ OperCommands
  /\ auto_approve' = TRUE
  /\ UNCHANGED <<uplink, nickserv, pending, certs, views>>

\* AUTOAPPROVE on: the setting, then approve_all_pending.
AutoApproveOn ==
  /\ OperCommands
  /\ auto_approve' = TRUE
  /\ Grant(Waiting)
  /\ UNCHANGED <<uplink, certs, views>>

\* The sweep is cut short by a kill: some requests are granted, one may be
\* marked approved without an account.
SweepCutShort ==
  /\ OperCommands
  /\ auto_approve' = TRUE
  /\ \E done \in SUBSET Waiting, half \in SUBSET Waiting :
       /\ Cardinality(half) <= 1 /\ half \cap done = {}
       /\ pending' = [n \in DOMAIN pending |->
                        IF n \in done \cup half THEN "approved" ELSE pending[n]]
       /\ nickserv' = [n \in DOMAIN nickserv \cup done |->
                        IF n \in done THEN n ELSE nickserv[n]]
  /\ Die("killed")
  /\ UNCHANGED certs

AutoApproveOff ==
  /\ OperCommands
  /\ auto_approve' = FALSE
  /\ UNCHANGED <<uplink, nickserv, pending, certs, views>>

-----------------------------------------------------------------------------
Network ==
  \/ \E u \in Users : \E n \in NicksOf[u] : UserConnects(u, n) \/ UserRenames(u, n)
  \/ \E u \in Users : UserQuits(u) \/ MetadataArrives(u) \/ BurstUser(u)
  \/ LinkUp \/ BurstEnds \/ LinkDrops \/ Killed \/ Restarts

NickServ ==
  \/ \E u \in Users : RegisterNow(u) \/ RegisterLater(u) \/ Logout(u)
                        \/ CertAdd(u) \/ CertDel(u)
  \/ \E u \in Users, n \in Names : Identify(u, n) \/ DropNick(u, n)

OperServ ==
  \/ \E n \in Names : Approve(n) \/ ApproveCutShort(n) \/ Reject(n)
  \/ AutoApproveOn \/ SweepCutShort \/ AutoApproveOff

Next == Network \/ NickServ \/ OperServ

Spec == Init /\ [][Next]_vars

-----------------------------------------------------------------------------
(* Properties. *)

\* No name is both registered and waiting for approval, whatever the order of
\* requests, sweeps, drops and deaths: the INSERT of approve_nick_pending
\* never meets a row (nickserv.cpp:321-332 is all that ensures it).
WaitingIsUnregistered == \A n \in Waiting : ~Registered(n)

\* A decision on a request is final: a rejected request never becomes an
\* account, and an approved one is not approved again after a DROP.
DecisionsAreFinal ==
  [][\A n \in DOMAIN pending :
       /\ n \in DOMAIN pending'
       /\ pending[n] # "waiting" => pending'[n] = pending[n]]_vars

\* operserv.cpp:187-189: switching auto-approve on leaves no request waiting,
\* and none is queued while it is on.
SweepLeavesNone ==
  [][/\ auto_approve' /\ ~auto_approve /\ daemon' = "running" => Waiting' = {}
     /\ auto_approve' => Waiting' \subseteq Waiting]_vars

\* A certificate stands for one nickname, so that on_user_cert has no choice
\* of accounts (cert_account takes the first row it finds).
CertBoundOnce == \A u \in CertUsers : Cardinality(BoundNames(u)) <= 1

\* What the ircd will hold for u once our METADATA has arrived.
Told(u) == IF wire[u] = Nothing THEN ircd[u].account ELSE wire[u]

\* Over splits, lost METADATA and restarts, the services and the ircd agree
\* on who is logged in to what - but for a user whose certificate logged him
\* in, whom the ircd may not know to be logged in.
InSyncButCerts ==
  link = "linked" => \A u \in DOMAIN net \cap DOMAIN ircd :
    net[u].account = Told(u) \/ (u \in CertUsers /\ Told(u) = NoAccount)

\* nickserv.cpp:168 (REGISTER): "Registers the nickname you are currently
\* using.": no REGISTER ends the daemon.
NoAbort == daemon # "aborted"

\* The tables implement the abstract life of a nickname.
Status ==
  [n \in Names |->
     IF Registered(n) THEN "registered"
     ELSE IF n \in Waiting THEN "requested"
     ELSE IF n \in DOMAIN pending THEN "closed"
     ELSE "free"]

R == INSTANCE Registry WITH status <- Status

ImplementsRegistry == R!RegistrySpec
=============================================================================
