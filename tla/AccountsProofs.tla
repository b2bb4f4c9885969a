--------------------------- MODULE AccountsProofs ---------------------------
(***************************************************************************)
(* Theorems about Accounts, for every value of its constants: any number   *)
(* of users, operators, nicknames and certificates.                        *)
(***************************************************************************)
EXTENDS Accounts, TablesProofs, TLAPS, FiniteSetTheorems

-----------------------------------------------------------------------------
(* Type correctness.                                                       *)

TablesOK ==
  /\ IsTable(nickserv, Names, Nicks)
  /\ IsTable(pending, Names, {"waiting", "approved", "rejected"})
  /\ auto_approve \in BOOLEAN
  /\ certs \subseteq Names \X CertUsers

ViewsOK ==
  /\ IsTable(net, Users, UserRecord)
  /\ IsTable(ircd, Users, UserRecord)
  /\ wire \in [Users -> AccountValues \cup {Nothing}]

UplinkOK ==
  /\ daemon \in {"running", "killed", "aborted"}
  /\ link \in {"down", "burst", "linked"}
  /\ unsynced \subseteq IF link = "burst" THEN DOMAIN ircd ELSE {}

\* The type invariant splits into what different actions change.
LEMMA TypeParts == TypeOK <=> TablesOK /\ ViewsOK /\ UplinkOK
BY DEF TypeOK, TablesOK, ViewsOK, UplinkOK

\* The same, after a step.
LEMMA TypePartsNext == TablesOK' /\ ViewsOK' /\ UplinkOK' => TypeOK'
BY DEF TypeOK, TablesOK, ViewsOK, UplinkOK

\* The names of the tables are nicknames, and folding leads to them.
LEMMA FoldTypes ==
  /\ Names \subseteq Nicks
  /\ \A n \in Nicks : Fold[n] \in Names
  /\ \A n \in Names : Fold[n] = n
BY AccountsAssumption DEF Names

\* The entries of the two views are users.
LEMMA NetRecord ==
  ASSUME ViewsOK
  PROVE  /\ \A u \in DOMAIN net : u \in Users /\ net[u] \in UserRecord
         /\ \A u \in DOMAIN ircd : u \in Users /\ ircd[u] \in UserRecord
<1>1. DOMAIN net \subseteq Users /\ net \in [DOMAIN net -> UserRecord]
  BY IsTableElim DEF ViewsOK
<1>2. DOMAIN ircd \subseteq Users /\ ircd \in [DOMAIN ircd -> UserRecord]
  BY IsTableElim DEF ViewsOK
<1> QED BY <1>1, <1>2

\* A METADATA line is a value of the wire.
LEMMA TellType ==
  ASSUME ViewsOK, NEW u \in Users, NEW a \in AccountValues, Tell(u, a)
  PROVE  wire' \in [Users -> AccountValues \cup {Nothing}]
BY DEF ViewsOK, Tell

\* set_account keeps the views well typed.
LEMMA SetAccountType ==
  ASSUME ViewsOK, NEW u \in DOMAIN net, NEW a \in AccountValues, SetAccount(u, a)
  PROVE  ViewsOK'
<1>1. u \in Users /\ net[u] \in UserRecord
  BY NetRecord
<1>2. [net[u] EXCEPT !.account = a] \in UserRecord
  BY <1>1 DEF UserRecord
<1>3. net' = [net EXCEPT ![u] = [net[u] EXCEPT !.account = a]]
  BY DEF SetAccount
<1>4. IsTable(net', Users, UserRecord)
  BY <1>2, <1>3, ExceptType DEF ViewsOK
<1> QED BY <1>1, <1>4, TellType DEF ViewsOK, SetAccount

\* What a certificate stands for is a nickname.
LEMMA CertAccountsType ==
  ASSUME TablesOK, NEW u
  PROVE  CertAccounts(u) \subseteq Nicks
<1>1. nickserv \in [DOMAIN nickserv -> Nicks]
  BY IsTableElim DEF TablesOK
<1> QED BY <1>1 DEF CertAccounts

\* So does a user's introduction, with or without a login.
LEMMA IntroduceType ==
  ASSUME TablesOK, ViewsOK, NEW u \in Users, NEW n \in Nicks,
         NEW a \in AccountValues, Introduce(u, n, a)
  PROVE  /\ IsTable(net', Users, UserRecord)
         /\ wire' \in [Users -> AccountValues \cup {Nothing}]
<1>1. \A b \in AccountValues :
        IsTable(With(net, u, [nick |-> n, account |-> b]), Users, UserRecord)
  BY WithType DEF ViewsOK, UserRecord
<1>2. CASE /\ u \in CertUsers /\ a = NoAccount /\ CertAccounts(u) # {}
  <2>1. PICK b \in CertAccounts(u) :
          net' = With(net, u, [nick |-> n, account |-> b]) /\ Tell(u, b)
    BY <1>2 DEF Introduce
  <2>2. b \in AccountValues
    BY CertAccountsType DEF AccountValues
  <2> QED BY <1>1, <2>1, <2>2, TellType
<1>3. CASE ~(u \in CertUsers /\ a = NoAccount /\ CertAccounts(u) # {})
  BY <1>1, <1>3 DEF Introduce, ViewsOK
<1> QED BY <1>2, <1>3

\* So does the daemon's death.
LEMMA DieType ==
  ASSUME ViewsOK, NEW how \in {"killed", "aborted"}, Die(how)
  PROVE  ViewsOK' /\ UplinkOK'
<1>1. IsTable(net', Users, UserRecord)
  BY NoFunctionType DEF Die
<1> QED BY <1>1 DEF Die, ViewsOK, UplinkOK, Quiet

\* Granting requests keeps both tables well typed.
LEMMA GrantType ==
  ASSUME TablesOK, NEW S \in SUBSET DOMAIN pending, Grant(S)
  PROVE  /\ IsTable(nickserv', Names, Nicks)
         /\ IsTable(pending', Names, {"waiting", "approved", "rejected"})
<1>1. DOMAIN nickserv \subseteq Names /\ nickserv \in [DOMAIN nickserv -> Nicks]
  BY IsTableElim DEF TablesOK
<1>2. /\ DOMAIN pending \subseteq Names
      /\ pending \in [DOMAIN pending -> {"waiting", "approved", "rejected"}]
  BY IsTableElim DEF TablesOK
<1>3. pending' \in [DOMAIN pending -> {"waiting", "approved", "rejected"}]
  BY <1>2 DEF Grant
<1>4. nickserv' \in [DOMAIN nickserv \cup S -> Nicks]
  BY <1>1, <1>2, FoldTypes DEF Grant
<1>5. DOMAIN nickserv \cup S \in SUBSET Names
  BY <1>1, <1>2
<1> QED BY <1>2, <1>3, <1>4, <1>5, IsTableIntro

\* A command comes from a user the services know.
LEMMA Caller ==
  ASSUME TypeOK, NEW u \in Users, Commands(u)
  PROVE  /\ u \in DOMAIN net
         /\ net[u].nick \in Nicks /\ net[u].account \in AccountValues
         /\ Fold[net[u].nick] \in Names
<1>1. u \in DOMAIN net /\ net[u] \in UserRecord
  BY TypeParts, NetRecord DEF Commands
<1> QED BY <1>1, FoldTypes DEF UserRecord

\* The keys and values of the queue.
LEMMA PendingTypes ==
  ASSUME TablesOK
  PROVE  /\ DOMAIN pending \subseteq Names
         /\ pending \in [DOMAIN pending -> {"waiting", "approved", "rejected"}]
         /\ Waiting \subseteq DOMAIN pending
BY IsTableElim DEF TablesOK, Waiting

\* The keys and values of the table of accounts.
LEMMA NickservTypes ==
  ASSUME TablesOK
  PROVE  /\ DOMAIN nickserv \subseteq Names
         /\ nickserv \in [DOMAIN nickserv -> Nicks]
         /\ \A n : Registered(n) => n \in Names /\ nickserv[n] \in Nicks
BY IsTableElim DEF TablesOK, Registered

\* Events of the network keep the types.
LEMMA NetworkType == TypeOK /\ Network => TypeOK'
<1> SUFFICES ASSUME TypeOK, Network PROVE TypeOK'
  OBVIOUS
<1> USE TypeParts, TypePartsNext DEF uplink, tables, views
<1>1. ASSUME NEW u \in Users, NEW n \in NicksOf[u], UserConnects(u, n)
      PROVE  TypeOK'
  <2>1. n \in Nicks /\ NoAccount \in AccountValues
    BY AccountsAssumption DEF AccountValues
  <2>2. [nick |-> n, account |-> NoAccount] \in UserRecord
    BY <2>1 DEF UserRecord
  <2>3. IsTable(ircd', Users, UserRecord)
    BY <1>1, <2>2, WithType DEF UserConnects, ViewsOK
  <2>4. /\ IsTable(net', Users, UserRecord)
        /\ wire' \in [Users -> AccountValues \cup {Nothing}]
    BY <1>1, <2>1, IntroduceType DEF UserConnects, ViewsOK
  <2> QED BY <1>1, <2>3, <2>4 DEF UserConnects, TablesOK, ViewsOK, UplinkOK
<1>2. ASSUME NEW u \in Users, NEW n \in NicksOf[u], UserRenames(u, n)
      PROVE  TypeOK'
  <2>1. n \in Nicks
    BY AccountsAssumption
  <2>2. \A r \in UserRecord : [r EXCEPT !.nick = n] \in UserRecord
    BY <2>1 DEF UserRecord
  <2>3. IsTable([ircd EXCEPT ![u] = [ircd[u] EXCEPT !.nick = n]], Users, UserRecord)
    BY <2>2, NetRecord, ExceptType DEF ViewsOK
  <2>4. IsTable([net EXCEPT ![u] = [net[u] EXCEPT !.nick = n]], Users, UserRecord)
    BY <2>2, NetRecord, ExceptType DEF ViewsOK
  <2> QED BY <1>2, <2>3, <2>4 DEF UserRenames, TablesOK, ViewsOK, UplinkOK
<1>3. ASSUME NEW u \in Users, UserQuits(u) PROVE TypeOK'
  <2>1. /\ IsTable(Without(ircd, u), Users, UserRecord)
        /\ IsTable(Without(net, u), Users, UserRecord)
    BY WithoutType DEF ViewsOK
  <2> QED BY <1>3, <2>1 DEF UserQuits, TablesOK, ViewsOK, UplinkOK
<1>4. ASSUME NEW u \in Users, MetadataArrives(u) PROVE TypeOK'
  <2>1. wire[u] \in AccountValues
    BY <1>4 DEF MetadataArrives, ViewsOK
  <2>2. \A r \in UserRecord : [r EXCEPT !.account = wire[u]] \in UserRecord
    BY <2>1 DEF UserRecord
  <2>3. IsTable([ircd EXCEPT ![u] = [ircd[u] EXCEPT !.account = wire[u]]],
                Users, UserRecord)
    BY <2>2, NetRecord, ExceptType DEF ViewsOK
  <2> QED BY <1>4, <2>3 DEF MetadataArrives, TablesOK, ViewsOK, UplinkOK
<1>5. ASSUME NEW u \in Users, BurstUser(u) PROVE TypeOK'
  <2>1. ircd[u].nick \in Nicks /\ ircd[u].account \in AccountValues
    BY <1>5, NetRecord DEF UserRecord, BurstUser, UplinkOK
  <2> QED
    BY <1>5, <2>1, IntroduceType DEF BurstUser, TablesOK, ViewsOK, UplinkOK
<1>6. CASE LinkUp
  <2>1. DOMAIN ircd \subseteq Users
    BY NetRecord
  <2> QED BY <1>6, <2>1 DEF LinkUp, TablesOK, ViewsOK, UplinkOK
<1>7. CASE BurstEnds \/ Restarts
  BY <1>7 DEF BurstEnds, Restarts, TablesOK, ViewsOK, UplinkOK
<1>8. CASE LinkDrops
  BY <1>8 DEF LinkDrops, Quiet, TablesOK, ViewsOK, UplinkOK
<1>9. CASE Killed
  BY <1>9, DieType DEF Killed, TablesOK
<1> QED
  BY <1>1, <1>2, <1>3, <1>4, <1>5, <1>6, <1>7, <1>8, <1>9 DEF Network

\* Commands to NickServ keep the types.
LEMMA NickServType == TypeOK /\ NickServ => TypeOK'
<1> SUFFICES ASSUME TypeOK, NickServ PROVE TypeOK'
  OBVIOUS
<1> USE TypeParts, TypePartsNext DEF uplink, views
<1>1. ASSUME NEW u \in Users, RegisterNow(u) PROVE TypeOK'
  <2>1. /\ u \in DOMAIN net /\ net[u].nick \in Nicks
        /\ Fold[net[u].nick] \in Names
    BY <1>1, Caller DEF RegisterNow
  <2>2. IsTable(nickserv', Names, Nicks)
    BY <1>1, <2>1, WithType DEF RegisterNow, TablesOK
  <2>3. ViewsOK'
    BY <1>1, <2>1, SetAccountType DEF RegisterNow, AccountValues
  <2> QED
    BY <1>1, <2>2, <2>3 DEF RegisterNow, TablesOK, UplinkOK, SetAccount
<1>2. ASSUME NEW u \in Users, RegisterLater(u) PROVE TypeOK'
  <2>1. Fold[net[u].nick] \in Names
    BY <1>2, Caller DEF RegisterLater
  <2>2. IsTable(With(pending, Fold[net[u].nick], "waiting"), Names,
               {"waiting", "approved", "rejected"})
    BY <2>1, WithType DEF TablesOK
  <2>3. TablesOK'
    BY <1>2, <2>2 DEF RegisterLater, TablesOK
  <2>4. ViewsOK' /\ UplinkOK'
    <3>1. CASE UNCHANGED <<uplink, views>>
      BY <3>1 DEF ViewsOK, UplinkOK
    <3>2. CASE Die("aborted")
      BY <3>2, DieType
    <3> QED BY <1>2, <3>1, <3>2 DEF RegisterLater
  <2> QED BY <2>3, <2>4
<1>3. ASSUME NEW u \in Users, Logout(u) PROVE TypeOK'
  <2>1. ViewsOK'
    BY <1>3, Caller, SetAccountType DEF Logout, AccountValues
  <2> QED BY <1>3, <2>1 DEF Logout, tables, TablesOK, UplinkOK, SetAccount
<1>4. ASSUME NEW u \in Users, CertAdd(u) PROVE TypeOK'
  <2>1. \A n \in Mine(u) : n \in Names
    BY NickservTypes DEF Mine
  <2>2. certs' \subseteq Names \X CertUsers
    BY <1>4, <2>1 DEF CertAdd, TablesOK
  <2> QED BY <1>4, <2>2 DEF CertAdd, TablesOK, ViewsOK, UplinkOK
<1>5. ASSUME NEW u \in Users, CertDel(u) PROVE TypeOK'
  BY <1>5 DEF CertDel, TablesOK, ViewsOK, UplinkOK
<1>6. ASSUME NEW u \in Users, NEW n \in Names, Identify(u, n) PROVE TypeOK'
  <2>1. nickserv[n] \in AccountValues
    BY <1>6, NickservTypes DEF Identify, AccountValues
  <2>2. ViewsOK'
    BY <1>6, <2>1, Caller, SetAccountType DEF Identify
  <2> QED BY <1>6, <2>2 DEF Identify, tables, TablesOK, UplinkOK, SetAccount
<1>7. ASSUME NEW u \in Users, NEW n \in Names, DropNick(u, n) PROVE TypeOK'
  <2>1. IsTable(nickserv', Names, Nicks)
    BY <1>7, WithoutType DEF DropNick, TablesOK
  <2>2. ViewsOK'
    BY <1>7, Caller, SetAccountType DEF DropNick, AccountValues, ViewsOK
  <2> QED
    BY <1>7, <2>1, <2>2 DEF DropNick, TablesOK, UplinkOK, SetAccount
<1> QED BY <1>1, <1>2, <1>3, <1>4, <1>5, <1>6, <1>7 DEF NickServ

\* Commands to OperServ keep the types.
LEMMA OperServType == TypeOK /\ OperServ => TypeOK'
<1> SUFFICES ASSUME TypeOK, OperServ PROVE TypeOK'
  OBVIOUS
<1> USE TypeParts, TypePartsNext DEF uplink, views
<1>1. ASSUME NEW n \in Names, Approve(n) PROVE TypeOK'
  BY <1>1, PendingTypes, GrantType DEF Approve, TablesOK, ViewsOK, UplinkOK
<1>2. ASSUME NEW n \in Names, ApproveCutShort(n) PROVE TypeOK'
  <2>1. IsTable(pending', Names, {"waiting", "approved", "rejected"})
    BY <1>2, ExceptType DEF ApproveCutShort, TablesOK
  <2>2. ViewsOK' /\ UplinkOK'
    BY <1>2, DieType DEF ApproveCutShort
  <2> QED BY <1>2, <2>1, <2>2 DEF ApproveCutShort, TablesOK
<1>3. ASSUME NEW n \in Names, Reject(n) PROVE TypeOK'
  <2>1. IsTable(pending', Names, {"waiting", "approved", "rejected"})
    BY <1>3, ExceptType DEF Reject, TablesOK
  <2> QED BY <1>3, <2>1 DEF Reject, TablesOK, ViewsOK, UplinkOK
<1>4. CASE AutoApproveOn
  BY <1>4, PendingTypes, GrantType DEF AutoApproveOn, TablesOK, ViewsOK, UplinkOK
<1>5. CASE SweepCutShort
  <2>1. PICK done \in SUBSET Waiting, half \in SUBSET Waiting :
          /\ pending' = [n \in DOMAIN pending |->
                           IF n \in done \cup half THEN "approved" ELSE pending[n]]
          /\ nickserv' = [n \in DOMAIN nickserv \cup done |->
                           IF n \in done THEN n ELSE nickserv[n]]
    BY <1>5 DEF SweepCutShort
  <2>2. pending' \in [DOMAIN pending -> {"waiting", "approved", "rejected"}]
    BY <2>1, PendingTypes
  <2>3. nickserv' \in [DOMAIN nickserv \cup done -> Nicks]
    BY <2>1, PendingTypes, NickservTypes, FoldTypes
  <2>4. TablesOK'
    BY <1>5, <2>2, <2>3, PendingTypes, NickservTypes, IsTableIntro
       DEF SweepCutShort, TablesOK
  <2>5. ViewsOK' /\ UplinkOK'
    BY <1>5, DieType DEF SweepCutShort
  <2> QED BY <2>4, <2>5
<1>6. CASE AutoApproveOff
  BY <1>6 DEF AutoApproveOff, TablesOK, ViewsOK, UplinkOK
<1> QED BY <1>1, <1>2, <1>3, <1>4, <1>5, <1>6 DEF OperServ

\* Tables, views and the burst in progress keep their types, through crashes
\* and reconnects.
THEOREM AccountsTypeOK == Spec => []TypeOK
<1>1. Init => TypeOK
  BY NoFunctionType DEF Init, TypeOK, Quiet
<1>2. TypeOK /\ [Next]_vars => TypeOK'
  <2> SUFFICES ASSUME TypeOK, [Next]_vars PROVE TypeOK'
    OBVIOUS
  <2>1. CASE UNCHANGED vars
    BY <2>1 DEF vars, TypeOK
  <2> QED BY <2>1, NetworkType, NickServType, OperServType DEF Next
<1> QED BY <1>1, <1>2, PTL DEF Spec

-----------------------------------------------------------------------------
(* What a step may do to one nickname: everything about the two tables     *)
(* follows from this case split.                                           *)

PendingKept(n) ==
  /\ n \in DOMAIN pending' <=> n \in DOMAIN pending
  /\ n \in DOMAIN pending => pending'[n] = pending[n]

NameKept(n) == (Registered(n)' <=> Registered(n)) /\ PendingKept(n)
NameTaken(n) ==
  ~Registered(n) /\ n \notin Waiting /\ Registered(n)' /\ PendingKept(n)
NameQueued(n) ==
  /\ ~Registered(n) /\ n \notin DOMAIN pending /\ ~auto_approve /\ ~auto_approve'
  /\ ~Registered(n)' /\ n \in DOMAIN pending' /\ pending'[n] = "waiting"
NameDropped(n) == Registered(n) /\ ~Registered(n)' /\ PendingKept(n)
NameGranted(n) ==
  n \in Waiting /\ Registered(n)' /\ n \in DOMAIN pending' /\ pending'[n] = "approved"
NameDecided(n) ==
  /\ n \in Waiting /\ (Registered(n)' <=> Registered(n))
  /\ n \in DOMAIN pending' /\ pending'[n] \in {"approved", "rejected"}

NameStep(n) ==
  \/ NameKept(n) \/ NameTaken(n) \/ NameQueued(n)
  \/ NameDropped(n) \/ NameGranted(n) \/ NameDecided(n)

\* What leaves the tables alone moves no name.
LEMMA TablesKept ==
  ASSUME UNCHANGED <<nickserv, pending>>
  PROVE  \A n : NameStep(n)
BY DEF NameStep, NameKept, PendingKept, Registered

\* A command to NickServ moves every name as NameStep allows.
LEMMA NameStepNickServ ==
  ASSUME TypeOK, NickServ
  PROVE  \A n \in Names : NameStep(n)
<1> USE DEF Registered, PendingKept, NameStep
<1>1. ASSUME NEW u \in Users, RegisterNow(u) PROVE \A n \in Names : NameStep(n)
  <2> TAKE n \in Names
  <2>1. CASE n = Fold[net[u].nick]
    BY <1>1, <2>1 DEF RegisterNow, MayRegister, With, NameTaken
  <2>2. CASE n # Fold[net[u].nick]
    BY <1>1, <2>2 DEF RegisterNow, With, NameKept
  <2> QED BY <2>1, <2>2
<1>2. ASSUME NEW u \in Users, RegisterLater(u) PROVE \A n \in Names : NameStep(n)
  <2> TAKE n \in Names
  <2>1. CASE UNCHANGED pending
    BY <1>2, <2>1, TablesKept DEF RegisterLater
  <2>2. CASE /\ n = Fold[net[u].nick] /\ n \notin DOMAIN pending
             /\ pending' = With(pending, n, "waiting")
    BY <1>2, <2>2 DEF RegisterLater, MayRegister, With, NameQueued
  <2>3. CASE /\ n # Fold[net[u].nick]
             /\ pending' = With(pending, Fold[net[u].nick], "waiting")
    BY <1>2, <2>3 DEF RegisterLater, With, NameKept
  <2> QED BY <1>2, <2>1, <2>2, <2>3 DEF RegisterLater
<1>3. ASSUME NEW u \in Users, NEW m \in Names, DropNick(u, m)
      PROVE  \A n \in Names : NameStep(n)
  BY <1>3 DEF DropNick, Without, Restrict, NameKept, NameDropped
<1>4. CASE UNCHANGED <<nickserv, pending>>
  BY <1>4, TablesKept
<1> QED
  BY <1>1, <1>2, <1>3, <1>4
     DEF NickServ, Logout, CertAdd, CertDel, Identify, tables

\* So does a command to OperServ, whole or cut short.
LEMMA NameStepOperServ ==
  ASSUME TypeOK, OperServ
  PROVE  \A n \in Names : NameStep(n)
<1> USE TypeParts, PendingTypes DEF Registered, PendingKept, NameStep
<1>1. ASSUME NEW S \in SUBSET Waiting, Grant(S) PROVE \A n \in Names : NameStep(n)
  BY <1>1 DEF Grant, NameKept, NameGranted
<1>2. ASSUME NEW m \in Names, ApproveCutShort(m) PROVE \A n \in Names : NameStep(n)
  BY <1>2 DEF ApproveCutShort, NameKept, NameDecided
<1>3. ASSUME NEW m \in Names, Reject(m) PROVE \A n \in Names : NameStep(n)
  BY <1>3 DEF Reject, NameKept, NameDecided
<1>4. ASSUME NEW done \in SUBSET Waiting, NEW half \in SUBSET Waiting,
             pending' = [n \in DOMAIN pending |->
                           IF n \in done \cup half THEN "approved" ELSE pending[n]],
             nickserv' = [n \in DOMAIN nickserv \cup done |->
                           IF n \in done THEN n ELSE nickserv[n]]
      PROVE  \A n \in Names : NameStep(n)
  BY <1>4 DEF NameKept, NameGranted, NameDecided
<1>5. CASE \E m \in Names : Approve(m)
  <2>1. PICK m \in Names : Approve(m)
    BY <1>5
  <2>2. {m} \in SUBSET Waiting /\ Grant({m})
    BY <2>1 DEF Approve
  <2> QED BY <1>1, <2>2
<1>6. CASE AutoApproveOn
  BY <1>1, <1>6 DEF AutoApproveOn
<1>7. CASE SweepCutShort
  BY <1>4, <1>7 DEF SweepCutShort
<1>8. CASE AutoApproveOff
  BY <1>8, TablesKept DEF AutoApproveOff
<1> QED BY <1>2, <1>3, <1>5, <1>6, <1>7, <1>8 DEF OperServ

\* So does every step.
LEMMA NameSteps ==
  ASSUME TypeOK, [Next]_vars
  PROVE  \A n \in Names : NameStep(n)
<1>1. CASE UNCHANGED vars
  BY <1>1, TablesKept DEF vars
<1>2. CASE Network
  <2>1. UNCHANGED <<nickserv, pending>>
    BY <1>2 DEF Network, UserConnects, UserRenames, UserQuits, MetadataArrives,
       BurstUser, LinkUp, BurstEnds, LinkDrops, Killed, Restarts, tables
  <2> QED BY <2>1, TablesKept
<1> QED BY <1>1, <1>2, NameStepNickServ, NameStepOperServ DEF Next

-----------------------------------------------------------------------------
(* The queue of requests.                                                  *)

\* The invariant on waiting requests, name by name.
LEMMA WaitingByName ==
  ASSUME TypeOK
  PROVE  WaitingIsUnregistered <=> \A n \in Names : ~(n \in Waiting /\ Registered(n))
BY TypeParts, PendingTypes DEF WaitingIsUnregistered

\* Approving a request never meets a nickname that is registered already.
THEOREM AccountsWaiting == Spec => []WaitingIsUnregistered
<1>1. Init => WaitingIsUnregistered
  BY DEF Init, WaitingIsUnregistered, Waiting, NoFunction
<1>2. TypeOK /\ TypeOK' /\ WaitingIsUnregistered /\ [Next]_vars => WaitingIsUnregistered'
  <2> SUFFICES ASSUME TypeOK, TypeOK', WaitingIsUnregistered, [Next]_vars,
                      NEW n \in Waiting', Registered(n)'
               PROVE  FALSE
    BY DEF WaitingIsUnregistered
  <2>1. n \in Names /\ n \in DOMAIN pending' /\ pending'[n] = "waiting"
    BY IsTableElim DEF TypeOK, Waiting
  <2>2. NameStep(n)
    BY <2>1, NameSteps
  <2>3. n \in Waiting => ~Registered(n)
    BY DEF WaitingIsUnregistered
  <2> QED
    BY <2>1, <2>2, <2>3 DEF NameStep, NameKept, NameTaken, NameQueued,
       NameDropped, NameGranted, NameDecided, PendingKept, Waiting
<1> QED BY <1>1, <1>2, AccountsTypeOK, PTL DEF Spec

\* A decision on a request is final.
THEOREM AccountsDecisionsFinal == Spec => DecisionsAreFinal
<1>1. ASSUME TypeOK, [Next]_vars
      PROVE  \A n \in DOMAIN pending :
               /\ n \in DOMAIN pending'
               /\ pending[n] # "waiting" => pending'[n] = pending[n]
  <2> TAKE n \in DOMAIN pending
  <2>1. n \in Names
    BY <1>1, TypeParts, PendingTypes
  <2> QED
    BY <1>1, <2>1, NameSteps DEF NameStep, NameKept, NameTaken, NameQueued,
       NameDropped, NameGranted, NameDecided, PendingKept, Waiting
<1> QED BY <1>1, AccountsTypeOK, PTL DEF Spec, DecisionsAreFinal

\* Switching auto-approve on leaves no request waiting, and none is queued
\* while it is on.
THEOREM AccountsSweep == Spec => SweepLeavesNone
<1>1. ASSUME TypeOK, [Next]_vars, auto_approve', ~auto_approve, daemon' = "running"
      PROVE  Waiting' = {}
  <2>1. CASE AutoApproveOn
    BY <2>1 DEF AutoApproveOn, Grant, Waiting
  <2>2. CASE SweepCutShort
    BY <1>1, <2>2 DEF SweepCutShort, Die
  <2>3. CASE UNCHANGED auto_approve
    BY <1>1, <2>3
  <2>4. CASE Network
    BY <2>3, <2>4 DEF Network, UserConnects, UserRenames, UserQuits,
       MetadataArrives, BurstUser, LinkUp, BurstEnds, LinkDrops, Killed,
       Restarts, tables
  <2>5. CASE NickServ
    BY <2>3, <2>5 DEF NickServ, RegisterNow, RegisterLater, Logout, CertAdd,
       CertDel, Identify, DropNick, tables
  <2>6. CASE OperServ
    BY <1>1, <2>1, <2>2, <2>3, <2>6 DEF OperServ, Approve, ApproveCutShort,
       Reject, AutoApproveOff
  <2>7. CASE UNCHANGED vars
    BY <2>3, <2>7 DEF vars
  <2> QED BY <1>1, <2>4, <2>5, <2>6, <2>7 DEF Next
<1>2. ASSUME TypeOK, TypeOK', [Next]_vars, auto_approve', NEW n \in Waiting'
      PROVE  n \in Waiting
  <2>1. n \in Names /\ n \in DOMAIN pending' /\ pending'[n] = "waiting"
    BY <1>2, IsTableElim DEF TypeOK, Waiting
  <2> QED
    BY <1>2, <2>1, NameSteps DEF NameStep, NameKept, NameTaken, NameQueued,
       NameDropped, NameGranted, NameDecided, PendingKept, Waiting
<1>3. TypeOK /\ TypeOK' /\ [Next]_vars =>
        /\ auto_approve' /\ ~auto_approve /\ daemon' = "running" => Waiting' = {}
        /\ auto_approve' => Waiting' \subseteq Waiting
  BY <1>1, <1>2
<1> QED BY <1>3, AccountsTypeOK, PTL DEF Spec, SweepLeavesNone

-----------------------------------------------------------------------------
(* The tables implement the abstract registry: one move per name.          *)

\* The abstract status of a name, from the tables.
LEMMA StatusOf ==
  \A n \in Names :
    Status[n] = IF Registered(n) THEN "registered"
                ELSE IF n \in Waiting THEN "requested"
                ELSE IF n \in DOMAIN pending THEN "closed" ELSE "free"
BY DEF Status

\* The same, after a step.
LEMMA StatusOfNext ==
  \A n \in Names :
    Status'[n] = IF Registered(n)' THEN "registered"
                 ELSE IF n \in Waiting' THEN "requested"
                 ELSE IF n \in DOMAIN pending' THEN "closed" ELSE "free"
BY DEF Status

\* Every step of the tables is a legal move of every name's status.
LEMMA StatusMoves ==
  ASSUME TypeOK, WaitingIsUnregistered, [Next]_vars, NEW n \in Names
  PROVE  Status'[n] = Status[n] \/ <<Status[n], Status'[n]>> \in R!Moves
<1>1. NameStep(n)
  BY NameSteps
<1>2. n \in Waiting <=> n \in DOMAIN pending /\ pending[n] = "waiting"
  BY DEF Waiting
<1>3. n \in Waiting' <=> n \in DOMAIN pending' /\ pending'[n] = "waiting"
  BY DEF Waiting
<1>4. n \in Waiting => ~Registered(n)
  BY DEF WaitingIsUnregistered
<1>5. CASE NameKept(n)
  BY <1>2, <1>3, <1>5, StatusOf, StatusOfNext DEF NameKept, PendingKept
<1>6. CASE NameTaken(n)
  BY <1>2, <1>3, <1>6, StatusOf, StatusOfNext DEF NameTaken, PendingKept, R!Moves
<1>7. CASE NameQueued(n)
  BY <1>2, <1>3, <1>7, StatusOf, StatusOfNext DEF NameQueued, R!Moves
<1>8. CASE NameDropped(n)
  BY <1>2, <1>3, <1>4, <1>8, StatusOf, StatusOfNext DEF NameDropped, PendingKept, R!Moves
<1>9. CASE NameGranted(n)
  BY <1>2, <1>3, <1>4, <1>9, StatusOf, StatusOfNext DEF NameGranted, R!Moves
<1>10. CASE NameDecided(n)
  BY <1>2, <1>3, <1>4, <1>10, StatusOf, StatusOfNext DEF NameDecided, R!Moves
<1> QED BY <1>1, <1>5, <1>6, <1>7, <1>8, <1>9, <1>10 DEF NameStep

\* The tables of NickServ and OperServ behave as the abstract registry does,
\* also when the daemon dies inside a handler.
THEOREM AccountsImplementRegistry == Spec => ImplementsRegistry
<1>1. Init => R!RegistryInit
  BY DEF Init, R!RegistryInit, Status, Registered, Waiting, NoFunction
<1>2. TypeOK /\ WaitingIsUnregistered /\ [Next]_vars => [R!Decide]_Status
  <2> SUFFICES ASSUME TypeOK, WaitingIsUnregistered, [Next]_vars PROVE R!Decide
    OBVIOUS
  <2>1. Status' \in [Names -> R!Statuses]
    BY DEF Status, R!Statuses
  <2> QED BY <2>1, StatusMoves DEF R!Decide
<1> QED
  BY <1>1, <1>2, AccountsTypeOK, AccountsWaiting, PTL
     DEF Spec, ImplementsRegistry, R!RegistrySpec

-----------------------------------------------------------------------------
(* Certificates.                                                           *)

CertsDistinct == \A c, d \in certs : c[2] = d[2] => c = d

\* No step binds a certificate twice.
LEMMA CertsDistinctStep ==
  ASSUME TypeOK, CertsDistinct, [Next]_vars
  PROVE  CertsDistinct'
<1>1. CASE UNCHANGED certs
  BY <1>1 DEF CertsDistinct
<1>2. ASSUME NEW u \in Users, CertAdd(u) PROVE CertsDistinct'
  <2>1. PICK n \in Mine(u) : certs' = certs \cup {<<n, u>>}
    BY <1>2 DEF CertAdd
  <2>2. \A c \in certs : c[2] # u
    BY <1>2 DEF CertAdd, BoundNames, TypeOK
  <2> QED BY <2>1, <2>2 DEF CertsDistinct
<1>3. ASSUME NEW u \in Users, CertDel(u) PROVE CertsDistinct'
  BY <1>3 DEF CertDel, CertsDistinct
<1>4. CASE Network
  BY <1>1, <1>4 DEF Network, UserConnects, UserRenames, UserQuits,
     MetadataArrives, BurstUser, LinkUp, BurstEnds, LinkDrops, Killed,
     Restarts, tables
<1>5. CASE NickServ
  BY <1>1, <1>2, <1>3, <1>5 DEF NickServ, RegisterNow, RegisterLater, Logout,
     Identify, DropNick, tables
<1>6. CASE OperServ
  BY <1>1, <1>6 DEF OperServ, Approve, ApproveCutShort, Reject, AutoApproveOn,
     SweepCutShort, AutoApproveOff
<1>7. CASE UNCHANGED vars
  BY <1>1, <1>7 DEF vars
<1> QED BY <1>4, <1>5, <1>6, <1>7 DEF Next

\* A certificate stands for one nickname at most.
THEOREM AccountsCertOnce == Spec => []CertBoundOnce
<1>1. Init => CertsDistinct
  BY DEF Init, CertsDistinct
<1>2. CertsDistinct => CertBoundOnce
  <2> SUFFICES ASSUME CertsDistinct, NEW u \in CertUsers
               PROVE  Cardinality(BoundNames(u)) <= 1
    BY DEF CertBoundOnce
  <2>1. CASE BoundNames(u) = {}
    BY <2>1, FS_EmptySet
  <2>2. CASE BoundNames(u) # {}
    <3>1. PICK n : n \in BoundNames(u)
      BY <2>2
    <3>2. \A m \in BoundNames(u) : m = n
      BY <3>1 DEF BoundNames, CertsDistinct
    <3>3. BoundNames(u) = {n}
      BY <3>1, <3>2
    <3>4. Cardinality(BoundNames(u)) = 1
      BY <3>3, FS_Singleton, Zenon
    <3> QED BY <3>4
  <2> QED BY <2>1, <2>2
<1>3. TypeOK /\ CertsDistinct /\ [Next]_vars => CertsDistinct'
  BY CertsDistinctStep
<1> QED BY <1>1, <1>2, <1>3, AccountsTypeOK, PTL DEF Spec

-----------------------------------------------------------------------------
(* The two views of who is logged in.  Inductive: what was put on the wire *)
(* goes to a user there is, and users agree from the moment the burst has  *)
(* shown them to us.                                                       *)

Agrees(u) ==
  net[u].account = Told(u) \/ (u \in CertUsers /\ Told(u) = NoAccount)

Shown(u) == link = "linked" \/ (link = "burst" /\ u \notin unsynced)

SyncInv ==
  /\ \A u \in Users : wire[u] # Nothing => link = "linked" /\ u \in DOMAIN ircd
  /\ \A u \in DOMAIN net \cap DOMAIN ircd : Shown(u) => Agrees(u)

\* A command that sets an account tells the ircd of it.
LEMMA SyncSetAccount ==
  ASSUME TypeOK, SyncInv, NEW u \in Users, Commands(u),
         NEW a \in AccountValues, SetAccount(u, a), UNCHANGED uplink
  PROVE  SyncInv'
<1>1. link = "linked" /\ u \in DOMAIN net /\ u \in DOMAIN ircd
  BY DEF Commands
<1>2. wire' = [wire EXCEPT ![u] = a] /\ ircd' = ircd
  BY <1>1 DEF SetAccount, Tell
<1>3. /\ wire \in [Users -> AccountValues \cup {Nothing}]
      /\ net \in [DOMAIN net -> UserRecord] /\ DOMAIN net \subseteq Users
  BY IsTableElim DEF TypeOK
<1>4. a # Nothing
  BY AccountsAssumption
<1>5. DOMAIN net' = DOMAIN net /\ net'[u].account = a
  BY <1>1, <1>3 DEF SetAccount, UserRecord
<1>6. \A v \in DOMAIN net \ {u} : net'[v] = net[v] /\ wire'[v] = wire[v]
  BY <1>2, <1>3 DEF SetAccount
<1>7. wire'[u] = a
  BY <1>2, <1>3
<1>8. ASSUME NEW v \in DOMAIN net' \cap DOMAIN ircd', Shown(v)' PROVE Agrees(v)'
  <2>1. CASE v = u
    BY <1>4, <1>5, <1>7, <2>1 DEF Agrees, Told
  <2>2. CASE v # u
    <3>1. Agrees(v)
      BY <1>1, <1>2, <1>5, <1>8 DEF SyncInv, Shown
    <3> QED BY <1>2, <1>5, <1>6, <1>8, <2>2, <3>1 DEF Agrees, Told
  <2> QED BY <2>1, <2>2
<1>9. \A v \in Users : wire'[v] # Nothing => link' = "linked" /\ v \in DOMAIN ircd'
  BY <1>1, <1>2, <1>3 DEF SyncInv, uplink
<1> QED BY <1>8, <1>9 DEF SyncInv

\* A user the ircd introduces agrees, or was logged in by certificate.
LEMMA SyncIntroduce ==
  ASSUME TypeOK, SyncInv, NEW u \in Users, NEW n \in Nicks,
         NEW a \in AccountValues, Introduce(u, n, a),
         link \in {"burst", "linked"}, wire[u] = Nothing,
         link' = link, unsynced' = unsynced \ {u},
         u \in DOMAIN ircd', ircd'[u].account = a,
         \A v \in DOMAIN ircd' \ {u} : v \in DOMAIN ircd /\ ircd'[v] = ircd[v],
         DOMAIN ircd \subseteq DOMAIN ircd'
  PROVE  SyncInv'
<1>1. wire \in [Users -> AccountValues \cup {Nothing}] /\ DOMAIN net \subseteq Users
  BY IsTableElim DEF TypeOK
<1>2. PICK b \in AccountValues :
        /\ net' = With(net, u, [nick |-> n, account |-> b])
        /\ \/ b = a /\ wire' = wire
           \/ u \in CertUsers /\ a = NoAccount /\ Tell(u, b)
  BY CertAccountsType, TypeParts DEF Introduce, AccountValues
<1>3. b # Nothing
  BY AccountsAssumption
<1>4. /\ DOMAIN net' = DOMAIN net \cup {u} /\ net'[u].account = b
      /\ \A v \in DOMAIN net \ {u} : net'[v] = net[v]
  BY <1>2 DEF With
<1>5. /\ wire' \in [Users -> AccountValues \cup {Nothing}]
      /\ \A v \in Users \ {u} : wire'[v] = wire[v]
      /\ wire'[u] \in {Nothing, b}
      /\ wire'[u] # Nothing => link = "linked"
      /\ wire'[u] = Nothing => b = a \/ (u \in CertUsers /\ a = NoAccount)
  BY <1>1, <1>2 DEF Tell
<1>6. Agrees(u)'
  BY <1>3, <1>4, <1>5 DEF Agrees, Told
<1>7. ASSUME NEW v \in DOMAIN net' \cap DOMAIN ircd', Shown(v)', v # u
      PROVE  Agrees(v)'
  <2>1. v \in DOMAIN net /\ v \in DOMAIN ircd /\ Shown(v)
    BY <1>4, <1>7 DEF Shown
  <2>2. Agrees(v)
    BY <2>1 DEF SyncInv
  <2> QED BY <1>1, <1>4, <1>5, <1>7, <2>1, <2>2 DEF Agrees, Told
<1>8. \A v \in Users : wire'[v] # Nothing => link' = "linked" /\ v \in DOMAIN ircd'
  BY <1>5 DEF SyncInv
<1> QED BY <1>6, <1>7, <1>8 DEF SyncInv

\* Nothing is out of step after the daemon's death.
LEMMA SyncDie ==
  ASSUME NEW how, Die(how)
  PROVE  SyncInv'
BY DEF Die, SyncInv, Quiet, NoFunction

\* What leaves both views and the wire alone keeps them in step.
LEMMA SyncKept ==
  ASSUME SyncInv, UNCHANGED <<link, unsynced, net, ircd, wire>>
  PROVE  SyncInv'
BY DEF SyncInv, Shown, Agrees, Told

\* Events of the network keep the views in step.
LEMMA SyncNetwork ==
  ASSUME TypeOK, SyncInv, Network
  PROVE  SyncInv'
<1> USE DEF uplink, tables, views
<1>1. ASSUME NEW u \in Users, NEW n \in NicksOf[u], UserConnects(u, n)
      PROVE  SyncInv'
  <2>1. n \in Nicks /\ NoAccount \in AccountValues
    BY AccountsAssumption DEF AccountValues
  <2>2. wire[u] = Nothing
    BY <1>1 DEF UserConnects, SyncInv
  <2>3. unsynced = unsynced \ {u}
    BY <1>1 DEF UserConnects, TypeOK
  <2>4. /\ u \in DOMAIN ircd' /\ ircd'[u].account = NoAccount
        /\ \A v \in DOMAIN ircd' \ {u} : v \in DOMAIN ircd /\ ircd'[v] = ircd[v]
        /\ DOMAIN ircd \subseteq DOMAIN ircd'
    BY <1>1 DEF UserConnects, With
  <2>5. CASE link = "linked"
    BY <1>1, <2>1, <2>2, <2>3, <2>4, <2>5, SyncIntroduce DEF UserConnects
  <2>6. CASE link = "down"
    BY <1>1, <2>4, <2>6 DEF UserConnects, SyncInv, Shown
  <2> QED BY <1>1, <2>5, <2>6 DEF UserConnects, TypeOK
<1>2. ASSUME NEW u \in Users, NEW n \in NicksOf[u], UserRenames(u, n)
      PROVE  SyncInv'
  <2>1. net \in [DOMAIN net -> UserRecord] /\ ircd \in [DOMAIN ircd -> UserRecord]
    BY IsTableElim DEF TypeOK
  <2>2. /\ DOMAIN ircd' = DOMAIN ircd
        /\ \A v \in DOMAIN ircd : ircd'[v].account = ircd[v].account
    BY <1>2, <2>1 DEF UserRenames, UserRecord
  <2>3. /\ DOMAIN net' = DOMAIN net
        /\ \A v \in DOMAIN net : net'[v].account = net[v].account
    BY <1>2, <2>1 DEF UserRenames, UserRecord
  <2> QED
    BY <1>2, <2>2, <2>3 DEF UserRenames, SyncInv, Shown, Agrees, Told
<1>3. ASSUME NEW u \in Users, UserQuits(u) PROVE SyncInv'
  <2>1. /\ DOMAIN ircd' = DOMAIN ircd \ {u}
        /\ \A v \in DOMAIN ircd' : ircd'[v] = ircd[v]
    BY <1>3 DEF UserQuits, Without, Restrict
  <2>2. /\ DOMAIN net' \subseteq DOMAIN net
        /\ \A v \in DOMAIN net' : net'[v] = net[v]
    BY <1>3 DEF UserQuits, Without, Restrict
  <2>3. \A v \in Users : wire'[v] = IF v = u THEN Nothing ELSE wire[v]
    BY <1>3 DEF UserQuits, TypeOK
  <2>4. DOMAIN net \subseteq Users
    BY IsTableElim DEF TypeOK
  <2> QED
    BY <1>3, <2>1, <2>2, <2>3, <2>4 DEF UserQuits, SyncInv, Shown, Agrees, Told
<1>4. ASSUME NEW u \in Users, MetadataArrives(u) PROVE SyncInv'
  <2>1. u \in DOMAIN ircd
    BY <1>4 DEF MetadataArrives, SyncInv
  <2>2. ircd \in [DOMAIN ircd -> UserRecord] /\ DOMAIN net \subseteq Users
    BY IsTableElim DEF TypeOK
  <2>3. /\ DOMAIN ircd' = DOMAIN ircd /\ ircd'[u].account = wire[u]
        /\ \A v \in DOMAIN ircd \ {u} : ircd'[v] = ircd[v]
    BY <1>4, <2>1, <2>2 DEF MetadataArrives, UserRecord
  <2>4. \A v \in Users : wire'[v] = IF v = u THEN Nothing ELSE wire[v]
    BY <1>4 DEF MetadataArrives, TypeOK
  <2>5. \A v \in DOMAIN net \cap DOMAIN ircd : Told(v)' = Told(v)
    BY <1>4, <2>2, <2>3, <2>4 DEF Told, MetadataArrives
  <2> QED
    BY <1>4, <2>3, <2>4, <2>5 DEF MetadataArrives, SyncInv, Shown, Agrees
<1>5. ASSUME NEW u \in Users, BurstUser(u) PROVE SyncInv'
  <2>1. link = "burst" /\ u \in DOMAIN ircd
    BY <1>5 DEF BurstUser, TypeOK
  <2>2. ircd[u].nick \in Nicks /\ ircd[u].account \in AccountValues
    BY <2>1, TypeParts, NetRecord DEF UserRecord
  <2>3. wire[u] = Nothing
    BY <2>1 DEF SyncInv
  <2> QED BY <1>5, <2>1, <2>2, <2>3, SyncIntroduce DEF BurstUser
<1>6. CASE LinkUp
  BY <1>6 DEF LinkUp, SyncInv, Shown
<1>7. CASE BurstEnds
  BY <1>7 DEF BurstEnds, SyncInv, Shown, Agrees, Told
<1>8. CASE LinkDrops
  BY <1>8 DEF LinkDrops, SyncInv, Shown, Quiet
<1>9. CASE Killed
  BY <1>9, SyncDie DEF Killed
<1>10. CASE Restarts
  BY <1>10, SyncKept DEF Restarts
<1> QED
  BY <1>1, <1>2, <1>3, <1>4, <1>5, <1>6, <1>7, <1>8, <1>9, <1>10 DEF Network

\* So do commands to NickServ.
LEMMA SyncNickServ ==
  ASSUME TypeOK, SyncInv, NickServ
  PROVE  SyncInv'
<1> USE DEF uplink, views
<1>1. ASSUME NEW u \in Users, RegisterNow(u) PROVE SyncInv'
  BY <1>1, Caller, SyncSetAccount DEF RegisterNow, AccountValues
<1>2. ASSUME NEW u \in Users, RegisterLater(u) PROVE SyncInv'
  BY <1>2, SyncDie, SyncKept DEF RegisterLater
<1>3. ASSUME NEW u \in Users, Logout(u) PROVE SyncInv'
  BY <1>3, SyncSetAccount DEF Logout, AccountValues
<1>4. ASSUME NEW u \in Users, CertAdd(u) \/ CertDel(u) PROVE SyncInv'
  BY <1>4, SyncKept DEF CertAdd, CertDel
<1>5. ASSUME NEW u \in Users, NEW n \in Names, Identify(u, n) PROVE SyncInv'
  BY <1>5, TypeParts, NickservTypes, SyncSetAccount DEF Identify, AccountValues
<1>6. ASSUME NEW u \in Users, NEW n \in Names, DropNick(u, n) PROVE SyncInv'
  BY <1>6, SyncSetAccount, SyncKept DEF DropNick, AccountValues
<1> QED BY <1>1, <1>2, <1>3, <1>4, <1>5, <1>6 DEF NickServ

\* So do commands to OperServ.
LEMMA SyncOperServ ==
  ASSUME TypeOK, SyncInv, OperServ
  PROVE  SyncInv'
BY SyncDie, SyncKept DEF OperServ, Approve, ApproveCutShort, Reject,
   AutoApproveOn, SweepCutShort, AutoApproveOff, uplink, views

\* Over splits, lost lines and restarts the services and the ircd agree on
\* who is logged in, but for users a certificate logged in.
THEOREM AccountsInSync == Spec => []InSyncButCerts
<1>1. Init => SyncInv
  BY DEF Init, SyncInv, Quiet, NoFunction
<1>2. TypeOK /\ SyncInv /\ [Next]_vars => SyncInv'
  BY SyncNetwork, SyncNickServ, SyncOperServ, SyncKept DEF Next, vars
<1>3. SyncInv => InSyncButCerts
  BY DEF SyncInv, InSyncButCerts, Shown, Agrees
<1> QED BY <1>1, <1>2, <1>3, AccountsTypeOK, PTL DEF Spec
=============================================================================
