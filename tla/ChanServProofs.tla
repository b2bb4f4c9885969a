--------------------------- MODULE ChanServProofs ---------------------------
(***************************************************************************)
(* Theorems about ChanServ, for every value of its constants.              *)
(***************************************************************************)
EXTENDS ChanServ, TablesProofs, TLAPS

-----------------------------------------------------------------------------
(* Type correctness.                                                       *)

ChanservOK == IsTable(chanserv, Channels, Row)
AccessOK == IsTable(access, Channels \X Names, 0..OWNER)
PendingOK == IsTable(pending, Channels, Request)
RestOK ==
  /\ akick \subseteq Channels \X Masks
  /\ auto_approve_chan \in BOOLEAN
  /\ accounts \subseteq AccountNames
  /\ nick \in [Users -> Names]
  /\ account \in [Users -> AccountNames \cup {NoOne}]
  /\ torn \subseteq Channels

\* The type invariant splits into its tables and the rest.
LEMMA TypeParts == TypeOK <=> ChanservOK /\ AccessOK /\ PendingOK /\ RestOK
BY DEF TypeOK, ChanservOK, AccessOK, PendingOK, RestOK

\* The same, after a step.
LEMMA TypePartsNext ==
  ChanservOK' /\ AccessOK' /\ PendingOK' /\ RestOK' => TypeOK'
BY DEF TypeOK, ChanservOK, AccessOK, PendingOK, RestOK

\* What the rows of the tables are.
LEMMA Rows ==
  ASSUME TypeOK
  PROVE  /\ DOMAIN chanserv \subseteq Channels
         /\ DOMAIN pending \subseteq Channels
         /\ DOMAIN access \subseteq Channels \X Names
         /\ \A c \in DOMAIN chanserv : chanserv[c] \in Row
         /\ \A c \in DOMAIN pending : pending[c] \in Request
         /\ \A k \in DOMAIN access : access[k] \in 0..OWNER
<1>1. DOMAIN chanserv \subseteq Channels /\ chanserv \in [DOMAIN chanserv -> Row]
  BY IsTableElim DEF TypeOK
<1>2. DOMAIN pending \subseteq Channels /\ pending \in [DOMAIN pending -> Request]
  BY IsTableElim DEF TypeOK
<1>3. /\ DOMAIN access \subseteq Channels \X Names
      /\ access \in [DOMAIN access -> 0..OWNER]
  BY IsTableElim DEF TypeOK
<1> QED BY <1>1, <1>2, <1>3

\* The rows activate_channel writes are rows of the two tables.
LEMMA FoundedType ==
  ASSUME NEW S \in SUBSET Channels, NEW F \in [S -> Names]
  PROVE  /\ IsTable(Founded(F), Channels, Row)
         /\ IsTable(Ownership(F), Channels \X Names, 0..OWNER)
<1>1. Founded(F) \in [S -> Row]
  BY DEF Founded, Row
<1>2. IsTable(Founded(F), Channels, Row)
  <2> HIDE DEF Founded
  <2> QED BY <1>1, IsTableIntro
<1> DEFINE K == {<<c, F[c]>> : c \in S}
<1>3. K \in SUBSET (Channels \X Names)
  OBVIOUS
<1>4. Ownership(F) \in [K -> 0..OWNER]
  BY DEF Ownership, OWNER
<1>5. IsTable(Ownership(F), Channels \X Names, 0..OWNER)
  <2> HIDE DEF Ownership, K
  <2> QED BY <1>3, <1>4, IsTableIntro
<1> QED BY <1>2, <1>5

\* Channels activated for anybody keep both tables well typed, whether or not
\* the second statement runs.
LEMMA ActivateType ==
  ASSUME TypeOK, NEW S \in SUBSET Channels, NEW F \in [S -> Names]
  PROVE  /\ IsTable(Over(chanserv, Founded(F)), Channels, Row)
         /\ IsTable(Over(access, Ownership(F)), Channels \X Names, 0..OWNER)
<1>1. /\ IsTable(Founded(F), Channels, Row)
      /\ IsTable(Ownership(F), Channels \X Names, 0..OWNER)
  BY FoundedType
<1>2. IsTable(chanserv, Channels, Row)
  BY DEF TypeOK
<1>3. IsTable(access, Channels \X Names, 0..OWNER)
  BY DEF TypeOK
<1> QED BY <1>1, <1>2, <1>3, OverType

\* The founders asked for, and the decisions taken.
LEMMA QueueType ==
  ASSUME TypeOK, NEW S \in SUBSET DOMAIN pending, NEW d \in {"approved", "rejected"}
  PROVE  /\ S \in SUBSET Channels
         /\ Requested(S) \in [S -> Names]
         /\ IsTable(Decided(S, d), Channels, Request)
<1>1. DOMAIN pending \in SUBSET Channels
  BY Rows
<1>2. \A c \in DOMAIN pending : pending[c] \in Request
  BY Rows
<1>3. Requested(S) \in [S -> Names]
  BY <1>2 DEF Requested, Request
<1>4. Decided(S, d) \in [DOMAIN pending -> Request]
  BY <1>2 DEF Decided, Request
<1>5. IsTable(Decided(S, d), Channels, Request)
  <2> HIDE DEF Decided
  <2> QED BY <1>1, <1>4, IsTableIntro
<1> QED BY <1>1, <1>3, <1>5

\* What the people do keeps the types.
LEMMA PeopleType ==
  ASSUME TypeOK, People
  PROVE  TypeOK'
<1> USE TypeParts, ChanServAssumption
<1>1. ASSUME NEW u \in Users, NEW n \in Names, Renames(u, n) PROVE TypeOK'
  BY <1>1, TypePartsNext DEF Renames, queue, ChanservOK, AccessOK, PendingOK, RestOK
<1>2. ASSUME NEW u \in Users, NEW n \in Names, LogsIn(u, n) PROVE TypeOK'
  BY <1>2, TypePartsNext DEF LogsIn, queue, ChanservOK, AccessOK, PendingOK, RestOK
<1>3. ASSUME NEW u \in Users, NEW n \in Names, NickDropCutShort(u, n) PROVE TypeOK'
  BY <1>3, TypePartsNext DEF NickDropCutShort, queue, ChanservOK, AccessOK,
     PendingOK, RestOK
<1>4. ASSUME NEW n \in Names, NickRegistered(n) PROVE TypeOK'
  BY <1>4, TypePartsNext DEF NickRegistered, queue, ChanservOK, AccessOK,
     PendingOK, RestOK
<1>5. ASSUME NEW u \in Users, LogsOut(u) PROVE TypeOK'
  BY <1>5, TypePartsNext DEF LogsOut, queue, ChanservOK, AccessOK, PendingOK, RestOK
<1>6. ASSUME NEW u \in Users, NEW n \in Names, NickDropped(u, n) PROVE TypeOK'
  <2>1. DOMAIN chanserv \in SUBSET Channels
    BY Rows
  <2>2. chanserv' \in [DOMAIN chanserv -> Row]
    BY <1>6, Rows DEF NickDropped, Row
  <2>3. ChanservOK'
    BY <2>1, <2>2, IsTableIntro DEF ChanservOK
  <2>4. RestOK'
    BY <1>6 DEF NickDropped, queue, RestOK
  <2>5. AccessOK' /\ PendingOK'
    BY <1>6 DEF NickDropped, queue, AccessOK, PendingOK
  <2> QED BY <2>3, <2>4, <2>5, TypePartsNext
<1> QED BY <1>1, <1>2, <1>3, <1>4, <1>5, <1>6 DEF People

\* Registering keeps the types.
LEMMA RegisterType ==
  ASSUME TypeOK, Register
  PROVE  TypeOK'
<1>1. PICK u \in Users, c \in Channels :
        RegisterNow(u, c) \/ RegisterNowCutShort(u, c) \/ RegisterLater(u, c)
  BY DEF Register
<1>2. account[u] \in Names
  <2>1. account[u] \in AccountNames \cup {NoOne} /\ account[u] # NoOne
    BY <1>1 DEF TypeOK, RegisterNow, RegisterNowCutShort, RegisterLater, MayRegister
  <2> QED BY <2>1, ChanServAssumption
<1> DEFINE F == [x \in {c} |-> account[u]]
<1>3. /\ IsTable(Over(chanserv, Founded(F)), Channels, Row)
      /\ IsTable(Over(access, Ownership(F)), Channels \X Names, 0..OWNER)
  <2>1. F \in [{c} -> Names] /\ {c} \in SUBSET Channels
    BY <1>2
  <2> HIDE DEF F
  <2> QED BY <2>1, ActivateType
<1>4. CASE RegisterNow(u, c)
  <2>1. ChanservOK' /\ AccessOK'
    BY <1>3, <1>4 DEF RegisterNow, Activate, ChanservOK, AccessOK
  <2>2. PendingOK' /\ RestOK'
    BY <1>4 DEF TypeOK, RegisterNow, queue, people, PendingOK, RestOK
  <2> QED BY <2>1, <2>2, TypePartsNext
<1>5. CASE RegisterNowCutShort(u, c)
  <2>1. ChanservOK' /\ AccessOK'
    BY <1>3, <1>5 DEF TypeOK, RegisterNowCutShort, ActivateHalf, ChanservOK, AccessOK
  <2>2. PendingOK' /\ RestOK'
    BY <1>5 DEF TypeOK, RegisterNowCutShort, queue, people, PendingOK, RestOK
  <2> QED BY <2>1, <2>2, TypePartsNext
<1>6. CASE RegisterLater(u, c)
  <2>1. [founder |-> account[u], approved |-> "waiting"] \in Request
    BY <1>2 DEF Request
  <2>2. PendingOK'
    BY <1>6, <2>1, WithType DEF TypeOK, RegisterLater, PendingOK
  <2>3. ChanservOK' /\ AccessOK' /\ RestOK'
    BY <1>6 DEF TypeOK, RegisterLater, people, ChanservOK, AccessOK, RestOK
  <2> QED BY <2>2, <2>3, TypePartsNext
<1> QED BY <1>1, <1>4, <1>5, <1>6

\* A sweep cut short keeps the types.
LEMMA GrantCutShortType ==
  ASSUME TypeOK, NEW done \in SUBSET DOMAIN pending, NEW half \in DOMAIN pending,
         GrantCutShort(done, half)
  PROVE  ChanservOK' /\ AccessOK' /\ PendingOK' /\ torn' \subseteq Channels
<1>1. PICK rows \in {done, done \cup {half}} :
        chanserv' = Over(chanserv, Founded(Requested(rows)))
  BY DEF GrantCutShort
<1>2. rows \in SUBSET DOMAIN pending /\ done \cup {half} \in SUBSET DOMAIN pending
  OBVIOUS
<1>3. ChanservOK'
  BY <1>1, <1>2, QueueType, ActivateType DEF ChanservOK
<1>4. AccessOK'
  BY QueueType, ActivateType DEF GrantCutShort, AccessOK
<1>5. PendingOK'
  BY <1>2, QueueType DEF GrantCutShort, PendingOK
<1>6. torn' \subseteq Channels
  BY Rows DEF GrantCutShort, TypeOK
<1> QED BY <1>3, <1>4, <1>5, <1>6

\* What operators do keeps the types.
LEMMA OperServType ==
  ASSUME TypeOK, OperServ
  PROVE  TypeOK'
<1>1. Waiting \in SUBSET DOMAIN pending
  BY DEF Waiting
<1>2. ASSUME NEW c \in Channels, Approve(c) PROVE TypeOK'
  <2>1. {c} \in SUBSET DOMAIN pending
    BY <1>1, <1>2 DEF Approve, Decidable
  <2>2. ChanservOK' /\ AccessOK' /\ PendingOK'
    BY <1>2, <2>1, QueueType, ActivateType
       DEF Approve, Activate, ChanservOK, AccessOK, PendingOK
  <2>3. RestOK'
    BY <1>2 DEF TypeOK, Approve, people, RestOK
  <2> QED BY <2>2, <2>3, TypePartsNext
<1>3. ASSUME NEW c \in Channels, Reject(c) PROVE TypeOK'
  <2>1. {c} \in SUBSET DOMAIN pending
    BY <1>1, <1>3 DEF Reject, Decidable
  <2>2. PendingOK'
    BY <1>3, <2>1, QueueType DEF Reject, PendingOK
  <2>3. ChanservOK' /\ AccessOK' /\ RestOK'
    BY <1>3 DEF TypeOK, Reject, people, ChanservOK, AccessOK, RestOK
  <2> QED BY <2>2, <2>3, TypePartsNext
<1>4. ASSUME NEW c \in Channels, ApproveCutShort(c) PROVE TypeOK'
  <2>1. c \in DOMAIN pending /\ {} \in SUBSET DOMAIN pending
    BY <1>1, <1>4 DEF ApproveCutShort, Decidable
  <2>2. ChanservOK' /\ AccessOK' /\ PendingOK' /\ torn' \subseteq Channels
    BY <1>4, <2>1, GrantCutShortType DEF ApproveCutShort
  <2>3. RestOK'
    BY <1>4, <2>2 DEF TypeOK, ApproveCutShort, people, RestOK
  <2> QED BY <2>2, <2>3, TypePartsNext
<1>5. CASE AutoApproveOn
  <2>1. ChanservOK' /\ AccessOK' /\ PendingOK'
    BY <1>1, <1>5, QueueType, ActivateType
       DEF AutoApproveOn, Activate, ChanservOK, AccessOK, PendingOK
  <2>2. RestOK'
    BY <1>5 DEF TypeOK, AutoApproveOn, people, RestOK
  <2> QED BY <2>1, <2>2, TypePartsNext
<1>6. CASE SweepCutShort
  <2>1. PICK done \in SUBSET Waiting :
          \/ /\ pending' = Decided(done, "approved")
             /\ Activate(Requested(done))
             /\ UNCHANGED torn
          \/ \E half \in Waiting \ done : GrantCutShort(done, half)
    BY <1>6 DEF SweepCutShort
  <2>2. done \in SUBSET DOMAIN pending
    BY <1>1
  <2>3. CASE \E half \in Waiting \ done : GrantCutShort(done, half)
    <3>1. ChanservOK' /\ AccessOK' /\ PendingOK' /\ torn' \subseteq Channels
      BY <1>1, <2>2, <2>3, GrantCutShortType
    <3>2. RestOK'
      BY <1>6, <3>1 DEF TypeOK, SweepCutShort, people, RestOK
    <3> QED BY <3>1, <3>2, TypePartsNext
  <2>4. CASE /\ pending' = Decided(done, "approved")
             /\ Activate(Requested(done))
             /\ UNCHANGED torn
    <3>1. ChanservOK' /\ AccessOK' /\ PendingOK'
      BY <2>2, <2>4, QueueType, ActivateType
         DEF Activate, ChanservOK, AccessOK, PendingOK
    <3>2. RestOK'
      BY <1>6, <2>4 DEF TypeOK, SweepCutShort, people, RestOK
    <3> QED BY <3>1, <3>2, TypePartsNext
  <2> QED BY <2>1, <2>3, <2>4
<1>7. CASE AutoApproveOff
  BY <1>7, TypePartsNext DEF TypeOK, AutoApproveOff, people, ChanservOK, AccessOK,
     PendingOK, RestOK
<1> QED BY <1>2, <1>3, <1>4, <1>5, <1>6, <1>7 DEF OperServ

\* The rows of a table without a channel's.
LEMMA RestrictedAccess ==
  ASSUME TypeOK, NEW c
  PROVE  IsTable(Restrict(access, {k \in DOMAIN access : k[1] # c}),
                 Channels \X Names, 0..OWNER)
<1>1. {k \in DOMAIN access : k[1] # c} \in SUBSET DOMAIN access
  OBVIOUS
<1> QED BY <1>1, RestrictType DEF TypeOK

\* Managing a channel keeps the types.
LEMMA ManageType ==
  ASSUME TypeOK, Manage
  PROVE  TypeOK'
<1>1. PICK u \in Users, c \in Channels :
    \/ \E n \in Names :
         \/ AccessDel(u, c, n) \/ SetFounder(u, c, n)
         \/ \E level \in Levels : AccessAdd(u, c, n, level)
    \/ \E mask \in Masks : AkickAdd(u, c, mask) \/ AkickDel(u, c, mask)
    \/ SetPassword(u, c) \/ FantasyIdentify(u, c)
    \/ Drop(u, c) \/ DropCutShort(u, c)
  BY DEF Manage, ChangesAccess
<1>2. ASSUME NEW n \in Names, AccessDel(u, c, n) PROVE TypeOK'
  <2>1. AccessOK'
    BY <1>2, WithoutType DEF TypeOK, AccessDel, AccessOK
  <2> QED BY <1>2, <2>1, TypePartsNext
          DEF TypeOK, AccessDel, queue, people, ChanservOK, PendingOK, RestOK
<1>3. ASSUME NEW n \in Names, SetFounder(u, c, n) PROVE TypeOK'
  <2>1. [chanserv[c] EXCEPT !.founder = n] \in Row
    BY <1>3, Rows DEF SetFounder, Registered, Row
  <2>2. chanserv' = [chanserv EXCEPT ![c] = [chanserv[c] EXCEPT !.founder = n]]
    BY <1>3 DEF SetFounder
  <2>3. ChanservOK'
    BY <2>1, <2>2, ExceptType DEF TypeOK, ChanservOK
  <2> QED BY <1>3, <2>3, TypePartsNext
          DEF TypeOK, SetFounder, queue, people, AccessOK, PendingOK, RestOK
<1>4. ASSUME NEW n \in Names, NEW level \in Levels, AccessAdd(u, c, n, level)
      PROVE  TypeOK'
  <2>1. level \in 0..OWNER /\ <<c, n>> \in Channels \X Names
    BY ChanServAssumption
  <2>2. AccessOK'
    BY <1>4, <2>1, WithType DEF TypeOK, AccessAdd, AccessOK
  <2> QED BY <1>4, <2>2, TypePartsNext
          DEF TypeOK, AccessAdd, queue, people, ChanservOK, PendingOK, RestOK
<1>5. ASSUME NEW mask \in Masks, AkickAdd(u, c, mask) \/ AkickDel(u, c, mask)
      PROVE  TypeOK'
  <2>1. RestOK'
    BY <1>5 DEF TypeOK, AkickAdd, AkickDel, queue, people, RestOK
  <2> QED BY <1>5, <2>1, TypePartsNext
          DEF TypeOK, AkickAdd, AkickDel, queue, ChanservOK, AccessOK, PendingOK
<1>6. CASE SetPassword(u, c)
  <2>1. [chanserv[c] EXCEPT !.password = TRUE] \in Row
    BY <1>6, Rows DEF SetPassword, Registered, Row
  <2>2. chanserv' = [chanserv EXCEPT ![c] = [chanserv[c] EXCEPT !.password = TRUE]]
    BY <1>6 DEF SetPassword
  <2>3. ChanservOK'
    BY <2>1, <2>2, ExceptType DEF TypeOK, ChanservOK
  <2> QED BY <1>6, <2>3, TypePartsNext
          DEF TypeOK, SetPassword, queue, people, AccessOK, PendingOK, RestOK
<1>7. CASE FantasyIdentify(u, c)
  <2>1. Identity(u) \in Names
    BY ChanServAssumption DEF TypeOK, Identity
  <2>2. MANAGE \in 0..OWNER /\ <<c, Identity(u)>> \in Channels \X Names
    BY <2>1 DEF MANAGE, OWNER
  <2>3. AccessOK'
    BY <1>7, <2>2, WithType DEF TypeOK, FantasyIdentify, AccessOK
  <2> QED BY <1>7, <2>3, TypePartsNext
          DEF TypeOK, FantasyIdentify, queue, people, ChanservOK, PendingOK, RestOK
<1>8. CASE Drop(u, c)
  <2>1. ChanservOK' /\ PendingOK'
    BY <1>8, WithoutType DEF TypeOK, Drop, ChanservOK, PendingOK
  <2>2. AccessOK'
    BY <1>8, RestrictedAccess DEF Drop, AccessOK
  <2>3. RestOK'
    BY <1>8 DEF TypeOK, Drop, people, RestOK
  <2> QED BY <2>1, <2>2, <2>3, TypePartsNext
<1>9. CASE DropCutShort(u, c)
  <2>1. ChanservOK' /\ PendingOK'
    BY <1>9, WithoutType DEF TypeOK, DropCutShort, queue, ChanservOK, PendingOK
  <2>2. AccessOK'
    BY <1>9, RestrictedAccess DEF TypeOK, DropCutShort, AccessOK
  <2>3. RestOK'
    BY <1>9 DEF TypeOK, DropCutShort, queue, people, RestOK
  <2> QED BY <2>1, <2>2, <2>3, TypePartsNext
<1> QED BY <1>1, <1>2, <1>3, <1>4, <1>5, <1>6, <1>7, <1>8, <1>9

\* A step that changes nothing keeps the types.
LEMMA StutterType ==
  ASSUME TypeOK, UNCHANGED vars
  PROVE  TypeOK'
BY DEF TypeOK, vars

\* Every table row is one the program can write, for any number of channels,
\* names, users and levels.
THEOREM ChanServTypeOK == Spec => []TypeOK
<1>1. Init => TypeOK
  <2> SUFFICES ASSUME Init PROVE TypeOK
    OBVIOUS
  <2>1. /\ IsTable(NoFunction, Channels, Row)
        /\ IsTable(NoFunction, Channels \X Names, 0..OWNER)
        /\ IsTable(NoFunction, Channels, Request)
    BY NoFunctionType
  <2> QED BY <2>1 DEF Init, TypeOK
<1>2. TypeOK /\ [Next]_vars => TypeOK'
  BY PeopleType, RegisterType, OperServType, ManageType, StutterType DEF Next
<1> QED BY <1>1, <1>2, PTL DEF Spec

-----------------------------------------------------------------------------
(* Who may do what.                                                        *)

\* A level is a number.
LEMMA LevelType ==
  ASSUME TypeOK, NEW c, NEW n
  PROVE  Level(c, n) \in Int /\ Level(c, n) >= NONE /\ Level(c, n) <= OWNER
BY Rows DEF Level, NONE, OWNER

\* can_chan and caller_level, which the code has one of in each of two files,
\* agree on every level that is asked for.
THEOREM CanChanIsCallerLevel ==
  ASSUME TypeOK, NEW u, NEW c, NEW min \in Int, min <= OWNER
  PROVE  CanChan(u, c, min) <=> CallerLevel(u, c) >= min
BY LevelType DEF CanChan, CallerLevel, OWNER

\* Who may do anything on a channel finds it registered, or torn.
LEMMA AccessNeedsRows ==
  ASSUME RowsOfRegistered, NEW u, NEW c, NEW min \in Int, min > NONE,
         CanChan(u, c, min)
  PROVE  c \in DOMAIN chanserv \cup torn
<1>1. CASE IsFounder(u, c)
  BY <1>1 DEF IsFounder, Registered
<1>2. ASSUME NEW n, Level(c, n) >= min PROVE c \in DOMAIN chanserv \cup torn
  <2>1. <<c, n>> \in DOMAIN access
    BY <1>2 DEF Level, NONE
  <2>2. <<c, n>>[1] \in DOMAIN chanserv \cup torn
    BY <2>1 DEF RowsOfRegistered
  <2> QED BY <2>2
<1> QED BY <1>1, <1>2 DEF CanChan

-----------------------------------------------------------------------------
(* The invariant: rows belong to channels, and requests do not wait for    *)
(* them.                                                                   *)

ChanInv ==
  /\ RowsOfRegistered
  /\ WaitingIsUnregistered
  /\ ApprovedIsRegistered

\* What activate_channel adds to the keys of its two tables.
LEMMA ActivatedKeys ==
  ASSUME NEW F
  PROVE  /\ DOMAIN Over(chanserv, Founded(F)) = DOMAIN chanserv \cup DOMAIN F
         /\ DOMAIN Over(access, Ownership(F))
              = DOMAIN access \cup {<<c, F[c]>> : c \in DOMAIN F}
BY DEF Over, Founded, Ownership

\* The channels requests are granted for.
LEMMA RequestedKeys ==
  ASSUME NEW S
  PROVE  DOMAIN Requested(S) = S
BY DEF Requested

\* A decision settles the requests it is about and no other.
LEMMA DecidedRows ==
  ASSUME TypeOK, NEW S \in SUBSET DOMAIN pending, NEW d \in {"approved", "rejected"},
         pending' = Decided(S, d)
  PROVE  /\ DOMAIN pending' = DOMAIN pending
         /\ \A c \in DOMAIN pending :
              pending'[c].approved = IF c \in S THEN d ELSE pending[c].approved
<1>1. \A c \in DOMAIN pending : pending[c] \in Request
  BY Rows
<1> QED BY <1>1 DEF Decided, Request

\* Granting the requests of S, one of them perhaps not to its end, keeps the
\* invariant.
LEMMA GrantKeeps ==
  ASSUME TypeOK, ChanInv, NEW S \in SUBSET Waiting, NEW founded \in SUBSET S,
         NEW owned \in SUBSET founded,
         pending' = Decided(S, "approved"),
         chanserv' = Over(chanserv, Founded(Requested(founded))),
         access' = Over(access, Ownership(Requested(owned))),
         akick' = akick, torn \cup (S \ founded) \subseteq torn'
  PROVE  ChanInv'
<1>1. DOMAIN chanserv' = DOMAIN chanserv \cup founded
  BY ActivatedKeys, RequestedKeys
<1>2. DOMAIN access' = DOMAIN access \cup {<<c, Requested(owned)[c]>> : c \in owned}
  <2>1. DOMAIN Over(access, Ownership(Requested(owned)))
          = DOMAIN access \cup {<<c, Requested(owned)[c]>> : c \in DOMAIN Requested(owned)}
    BY ActivatedKeys
  <2>2. DOMAIN Requested(owned) = owned
    BY RequestedKeys
  <2> QED BY <2>1, <2>2
<1>3. Waiting \in SUBSET DOMAIN pending
  BY DEF Waiting
<1>4. /\ DOMAIN pending' = DOMAIN pending
      /\ \A c \in DOMAIN pending :
           pending'[c].approved = IF c \in S THEN "approved" ELSE pending[c].approved
  BY <1>3, DecidedRows
<1>5. RowsOfRegistered'
  BY <1>1, <1>2 DEF ChanInv, RowsOfRegistered
<1>6. WaitingIsUnregistered'
  BY <1>1, <1>4 DEF ChanInv, WaitingIsUnregistered, Waiting
<1>7. ApprovedIsRegistered'
  BY <1>1, <1>4 DEF ChanInv, ApprovedIsRegistered
<1> QED BY <1>5, <1>6, <1>7 DEF ChanInv

\* Registering keeps it.
LEMMA RegisterKeeps ==
  ASSUME TypeOK, ChanInv, Register
  PROVE  ChanInv'
<1>1. PICK u \in Users, c \in Channels :
        RegisterNow(u, c) \/ RegisterNowCutShort(u, c) \/ RegisterLater(u, c)
  BY DEF Register
<1>2. c \notin Waiting /\ c \notin DOMAIN chanserv
  BY <1>1 DEF RegisterNow, RegisterNowCutShort, RegisterLater, MayRegister, Registered
<1>3. CASE RegisterNow(u, c) \/ RegisterNowCutShort(u, c)
  <2>1. DOMAIN chanserv' = DOMAIN chanserv \cup {c}
    BY <1>3, ActivatedKeys DEF RegisterNow, RegisterNowCutShort, Activate, ActivateHalf
  <2>2. DOMAIN access' \subseteq DOMAIN access \cup {<<c, account[u]>>}
    <3> DEFINE F == [x \in {c} |-> account[u]]
    <3>1. DOMAIN Over(access, Ownership(F)) = DOMAIN access \cup {<<d, F[d]>> : d \in DOMAIN F}
      BY ActivatedKeys
    <3>2. {<<d, F[d]>> : d \in DOMAIN F} = {<<c, account[u]>>}
      OBVIOUS
    <3>3. access' \in {access, Over(access, Ownership(F))}
      BY <1>3 DEF RegisterNow, RegisterNowCutShort, Activate, ActivateHalf
    <3> QED BY <3>1, <3>2, <3>3
  <2>3. akick' = akick /\ pending' = pending /\ torn \subseteq torn'
    BY <1>3 DEF RegisterNow, RegisterNowCutShort, queue
  <2>4. RowsOfRegistered'
    BY <2>1, <2>2, <2>3 DEF ChanInv, RowsOfRegistered
  <2> QED BY <1>2, <2>1, <2>3, <2>4
          DEF ChanInv, WaitingIsUnregistered, Waiting, ApprovedIsRegistered
<1>4. CASE RegisterLater(u, c)
  <2>1. /\ DOMAIN pending' = DOMAIN pending \cup {c}
        /\ pending'[c].approved = "waiting"
        /\ \A d \in DOMAIN pending \ {c} : pending'[d] = pending[d]
    BY <1>4 DEF RegisterLater, With
  <2>2. UNCHANGED <<chanserv, access, akick, torn>>
    BY <1>4 DEF RegisterLater
  <2> QED BY <1>2, <2>1, <2>2
          DEF ChanInv, RowsOfRegistered, WaitingIsUnregistered, Waiting,
              ApprovedIsRegistered
<1> QED BY <1>1, <1>3, <1>4

\* Requests granted up to one, which is cut short.
LEMMA GrantCutShortKeeps ==
  ASSUME TypeOK, ChanInv, NEW done \in SUBSET Waiting, NEW half \in Waiting,
         GrantCutShort(done, half), akick' = akick
  PROVE  ChanInv'
<1>1. PICK rows \in {done, done \cup {half}} :
        chanserv' = Over(chanserv, Founded(Requested(rows)))
  BY DEF GrantCutShort
<1> DEFINE S == done \cup {half}
<1>2. /\ S \in SUBSET Waiting /\ rows \in SUBSET S /\ done \in SUBSET rows
      /\ torn \cup (S \ rows) \subseteq torn'
  BY DEF GrantCutShort
<1>3. /\ pending' = Decided(S, "approved")
      /\ access' = Over(access, Ownership(Requested(done)))
  BY DEF GrantCutShort
<1> HIDE DEF S
<1> QED BY <1>1, <1>2, <1>3, GrantKeeps

\* Operators keep it.
LEMMA OperServKeeps ==
  ASSUME TypeOK, ChanInv, OperServ
  PROVE  ChanInv'
<1>1. ASSUME NEW c \in Channels, Approve(c) PROVE ChanInv'
  <2>1. {c} \in SUBSET Waiting /\ {c} \ {c} = {}
    BY <1>1 DEF Approve, Decidable
  <2> QED BY <1>1, <2>1, GrantKeeps DEF Approve, Activate
<1>2. ASSUME NEW c \in Channels, Reject(c) PROVE ChanInv'
  <2>1. {c} \in SUBSET DOMAIN pending
    BY <1>2 DEF Reject, Decidable, Waiting
  <2>2. /\ DOMAIN pending' = DOMAIN pending
        /\ \A d \in DOMAIN pending :
             pending'[d].approved = IF d \in {c} THEN "rejected" ELSE pending[d].approved
    BY <1>2, <2>1, DecidedRows DEF Reject
  <2>3. UNCHANGED <<chanserv, access, akick, torn>>
    BY <1>2 DEF Reject
  <2> QED BY <2>2, <2>3
          DEF ChanInv, RowsOfRegistered, WaitingIsUnregistered, Waiting,
              ApprovedIsRegistered
<1>3. ASSUME NEW c \in Channels, ApproveCutShort(c) PROVE ChanInv'
  <2>1. c \in Waiting /\ {} \in SUBSET Waiting
    BY <1>3 DEF ApproveCutShort, Decidable
  <2> QED BY <1>3, <2>1, GrantCutShortKeeps DEF ApproveCutShort
<1>4. CASE AutoApproveOn
  <2>1. Waiting \in SUBSET Waiting /\ Waiting \ Waiting = {}
    OBVIOUS
  <2> QED BY <1>4, <2>1, GrantKeeps DEF AutoApproveOn, Activate
<1>5. CASE SweepCutShort
  <2>1. PICK done \in SUBSET Waiting :
          \/ /\ pending' = Decided(done, "approved")
             /\ Activate(Requested(done))
             /\ UNCHANGED torn
          \/ \E half \in Waiting \ done : GrantCutShort(done, half)
    BY <1>5 DEF SweepCutShort
  <2>2. akick' = akick
    BY <1>5 DEF SweepCutShort
  <2>3. CASE \E half \in Waiting \ done : GrantCutShort(done, half)
    BY <2>2, <2>3, GrantCutShortKeeps
  <2>4. CASE /\ pending' = Decided(done, "approved")
             /\ Activate(Requested(done))
             /\ UNCHANGED torn
    <3>1. done \in SUBSET done /\ done \ done = {}
      OBVIOUS
    <3> QED BY <2>2, <2>4, <3>1, GrantKeeps DEF Activate
  <2> QED BY <2>1, <2>3, <2>4
<1>6. CASE AutoApproveOff
  BY <1>6 DEF AutoApproveOff, ChanInv, RowsOfRegistered, WaitingIsUnregistered,
     Waiting, ApprovedIsRegistered
<1> QED BY <1>1, <1>2, <1>3, <1>4, <1>5, <1>6 DEF OperServ

\* A step that leaves the queue alone, forgets no channel and adds rows only
\* where there may be some keeps it.
LEMMA RowsKeep ==
  ASSUME ChanInv, UNCHANGED pending,
         DOMAIN chanserv' = DOMAIN chanserv, torn' = torn,
         \A k \in DOMAIN access' \cup akick' :
           k \in DOMAIN access \cup akick \/ k[1] \in DOMAIN chanserv \cup torn
  PROVE  ChanInv'
BY DEF ChanInv, RowsOfRegistered, WaitingIsUnregistered, Waiting, ApprovedIsRegistered

\* Managing a channel keeps it.
LEMMA ManageKeeps ==
  ASSUME TypeOK, ChanInv, Manage
  PROVE  ChanInv'
<1>1. PICK u \in Users, c \in Channels :
    \/ \E n \in Names :
         \/ AccessDel(u, c, n) \/ SetFounder(u, c, n)
         \/ \E level \in Levels : AccessAdd(u, c, n, level)
    \/ \E mask \in Masks : AkickAdd(u, c, mask) \/ AkickDel(u, c, mask)
    \/ SetPassword(u, c) \/ FantasyIdentify(u, c)
    \/ Drop(u, c) \/ DropCutShort(u, c)
  BY DEF Manage, ChangesAccess
<1>2. ASSUME NEW n \in Names, AccessDel(u, c, n) PROVE ChanInv'
  <2>1. DOMAIN access' \subseteq DOMAIN access
    BY <1>2 DEF AccessDel, Without, Restrict
  <2> QED BY <1>2, <2>1, RowsKeep DEF AccessDel, queue
<1>3. ASSUME NEW n \in Names, SetFounder(u, c, n) PROVE ChanInv'
  <2>1. DOMAIN chanserv' = DOMAIN chanserv
    BY <1>3 DEF SetFounder
  <2> QED BY <1>3, <2>1, RowsKeep DEF SetFounder, queue
<1>4. ASSUME NEW n \in Names, NEW level \in Levels, AccessAdd(u, c, n, level)
      PROVE  ChanInv'
  <2>1. CanChan(u, c, MANAGE)
    BY <1>4, CanChanIsCallerLevel DEF AccessAdd, MayChange, MANAGE, OWNER
  <2>2. c \in DOMAIN chanserv \cup torn
    BY <2>1, AccessNeedsRows DEF ChanInv, MANAGE, NONE
  <2>3. DOMAIN access' = DOMAIN access \cup {<<c, n>>}
    BY <1>4 DEF AccessAdd, With
  <2> QED BY <1>4, <2>2, <2>3, RowsKeep DEF AccessAdd, queue
<1>5. ASSUME NEW mask \in Masks, AkickAdd(u, c, mask) PROVE ChanInv'
  <2>1. CanChan(u, c, 300)
    BY <1>5 DEF AkickAdd
  <2>2. c \in DOMAIN chanserv \cup torn
    BY <2>1, AccessNeedsRows DEF ChanInv, NONE
  <2> QED BY <1>5, <2>2, RowsKeep DEF AkickAdd, queue
<1>6. ASSUME NEW mask \in Masks, AkickDel(u, c, mask) PROVE ChanInv'
  BY <1>6, RowsKeep DEF AkickDel, queue
<1>7. CASE SetPassword(u, c)
  <2>1. DOMAIN chanserv' = DOMAIN chanserv
    BY <1>7 DEF SetPassword
  <2> QED BY <1>7, <2>1, RowsKeep DEF SetPassword, queue
<1>8. CASE FantasyIdentify(u, c)
  <2>1. DOMAIN access' = DOMAIN access \cup {<<c, Identity(u)>>}
    BY <1>8 DEF FantasyIdentify, With
  <2>2. c \in DOMAIN chanserv
    BY <1>8 DEF FantasyIdentify, Registered
  <2> QED BY <1>8, <2>1, <2>2, RowsKeep DEF FantasyIdentify, queue
<1>9. ASSUME Drop(u, c) \/ DropCutShort(u, c)
      PROVE  DOMAIN chanserv' = DOMAIN chanserv \ {c}
  BY <1>9 DEF Drop, DropCutShort, Without, Restrict
<1>10. CASE Drop(u, c)
  <2>1. DOMAIN access' = {k \in DOMAIN access : k[1] # c}
    BY <1>10 DEF Drop, Restrict
  <2>2. /\ DOMAIN pending' = DOMAIN pending \ {c}
        /\ \A d \in DOMAIN pending' : pending'[d] = pending[d]
    BY <1>10 DEF Drop, Without, Restrict
  <2>3. akick' = {k \in akick : k[1] # c} /\ torn' = torn \ {c}
    BY <1>10 DEF Drop
  <2> QED BY <1>9, <1>10, <2>1, <2>2, <2>3
          DEF ChanInv, RowsOfRegistered, WaitingIsUnregistered, Waiting,
              ApprovedIsRegistered
<1>11. CASE DropCutShort(u, c)
  <2>1. DOMAIN access' \subseteq DOMAIN access /\ akick' \subseteq akick
    BY <1>11 DEF DropCutShort, Restrict
  <2>2. pending' = pending /\ torn' = torn \cup {c}
    BY <1>11 DEF DropCutShort, queue
  <2> QED BY <1>9, <1>11, <2>1, <2>2
          DEF ChanInv, RowsOfRegistered, WaitingIsUnregistered, Waiting,
              ApprovedIsRegistered
<1> QED BY <1>1, <1>2, <1>3, <1>4, <1>5, <1>6, <1>7, <1>8, <1>10, <1>11

\* What the people do keeps it.
LEMMA PeopleKeep ==
  ASSUME ChanInv, People \/ UNCHANGED vars
  PROVE  ChanInv'
<1>1. /\ DOMAIN chanserv' = DOMAIN chanserv
      /\ UNCHANGED <<access, akick, pending, torn>>
  BY DEF People, Renames, LogsIn, LogsOut, NickRegistered, NickDropped,
     NickDropCutShort, queue, vars
<1> QED BY <1>1, RowsKeep

\* The invariant holds.
THEOREM ChanServInvariant == Spec => []ChanInv
<1>1. Init => ChanInv
  BY DEF Init, ChanInv, RowsOfRegistered, WaitingIsUnregistered, Waiting,
     ApprovedIsRegistered, NoFunction
<1>2. TypeOK /\ ChanInv /\ [Next]_vars => ChanInv'
  BY PeopleKeep, RegisterKeeps, OperServKeeps, ManageKeeps DEF Next
<1> QED BY <1>1, <1>2, ChanServTypeOK, PTL DEF Spec

\* Access and AKICK rows belong to registered channels, but for what a DROP
\* that was cut short left.
THEOREM ChanServRows == Spec => []RowsOfRegistered
<1>1. ChanInv => RowsOfRegistered
  BY DEF ChanInv
<1> QED BY <1>1, ChanServInvariant, PTL

\* No request waits for a registered channel, so that an approval replaces no
\* registration.
THEOREM ChanServWaiting == Spec => []WaitingIsUnregistered
<1>1. ChanInv => WaitingIsUnregistered
  BY DEF ChanInv
<1> QED BY <1>1, ChanServInvariant, PTL

\* An approved request made the channel, deaths inside a command apart.
THEOREM ChanServApproved == Spec => []ApprovedIsRegistered
<1>1. ChanInv => ApprovedIsRegistered
  BY DEF ChanInv
<1> QED BY <1>1, ChanServInvariant, PTL

-----------------------------------------------------------------------------
(* The founder.                                                            *)

FounderKept ==
  \A c \in DOMAIN chanserv \cap DOMAIN chanserv' :
    \/ chanserv'[c].founder = chanserv[c].founder
    \/ LET by == {u \in Users : SetFounder(u, c, chanserv'[c].founder)}
       IN  by # {} /\ \A u \in by : CanChan(u, c, OWNER)
    \/ chanserv'[c].founder = NoOne /\ chanserv[c].founder \notin accounts'

\* Registering touches no channel that is registered.
LEMMA RegisterLeaves ==
  ASSUME Register, NEW c \in DOMAIN chanserv
  PROVE  chanserv'[c] = chanserv[c]
BY DEF Register, RegisterNow, RegisterNowCutShort, RegisterLater, Activate,
   ActivateHalf, MayRegister, Registered, Over, Founded

\* Nor does granting requests that wait.
LEMMA OperServLeaves ==
  ASSUME WaitingIsUnregistered, OperServ, NEW c \in DOMAIN chanserv
  PROVE  chanserv'[c] = chanserv[c]
<1>1. c \notin Waiting
  BY DEF WaitingIsUnregistered
<1>2. ASSUME NEW S \in SUBSET Waiting,
             chanserv' = Over(chanserv, Founded(Requested(S)))
      PROVE  chanserv'[c] = chanserv[c]
  BY <1>1, <1>2 DEF Over, Founded, Requested
<1>3. \/ chanserv' = chanserv
      \/ \E S \in SUBSET Waiting : chanserv' = Over(chanserv, Founded(Requested(S)))
  <2>1. ASSUME NEW done \in SUBSET Waiting, NEW half \in Waiting,
               GrantCutShort(done, half)
        PROVE  \E S \in SUBSET Waiting :
                 chanserv' = Over(chanserv, Founded(Requested(S)))
    <3>1. done \in SUBSET Waiting /\ done \cup {half} \in SUBSET Waiting
      OBVIOUS
    <3> QED BY <2>1, <3>1 DEF GrantCutShort
  <2>2. ASSUME NEW d \in Channels, Approve(d)
        PROVE  \E S \in SUBSET Waiting :
                 chanserv' = Over(chanserv, Founded(Requested(S)))
    <3>1. {d} \in SUBSET Waiting
      BY <2>2 DEF Approve, Decidable
    <3> QED BY <2>2, <3>1 DEF Approve, Activate
  <2>3. ASSUME NEW d \in Channels, ApproveCutShort(d)
        PROVE  \E S \in SUBSET Waiting :
                 chanserv' = Over(chanserv, Founded(Requested(S)))
    <3>1. {} \in SUBSET Waiting /\ d \in Waiting
      BY <2>3 DEF ApproveCutShort, Decidable
    <3> QED BY <2>1, <2>3, <3>1 DEF ApproveCutShort
  <2>4. CASE AutoApproveOn
    <3>1. Waiting \in SUBSET Waiting
      OBVIOUS
    <3> QED BY <2>4, <3>1 DEF AutoApproveOn, Activate
  <2>5. CASE SweepCutShort
    BY <2>1, <2>5 DEF SweepCutShort, Activate
  <2> QED BY <2>2, <2>3, <2>4, <2>5 DEF OperServ, Reject, AutoApproveOff
<1> QED BY <1>2, <1>3

\* A founder is replaced by the SET FOUNDER of an owner, or with his account.
LEMMA FounderStep ==
  ASSUME TypeOK, ChanInv, [Next]_vars
  PROVE  FounderKept
<1> SUFFICES ASSUME NEW c \in DOMAIN chanserv, c \in DOMAIN chanserv'
             PROVE  \/ chanserv'[c].founder = chanserv[c].founder
                    \/ \E u \in Users : SetFounder(u, c, chanserv'[c].founder)
                    \/ /\ chanserv'[c].founder = NoOne
                       /\ chanserv[c].founder \notin accounts'
  BY DEF FounderKept, SetFounder
<1>1. CASE Register
  BY <1>1, RegisterLeaves
<1>2. CASE OperServ
  BY <1>2, OperServLeaves DEF ChanInv
<1>3. CASE Manage
  <2>1. ASSUME NEW u \in Users, NEW d \in Channels, NEW n \in Names,
               SetFounder(u, d, n), chanserv'[c].founder # chanserv[c].founder
        PROVE  SetFounder(u, c, chanserv'[c].founder)
    <3>1. c = d /\ chanserv'[c].founder = n
      BY <2>1 DEF SetFounder
    <3> QED BY <2>1, <3>1
  <2>2. ASSUME NEW u \in Users, NEW d \in Channels,
               SetPassword(u, d) \/ Drop(u, d) \/ DropCutShort(u, d)
        PROVE  chanserv'[c].founder = chanserv[c].founder
    <3>1. CASE SetPassword(u, d)
      <4>1. chanserv[d] \in Row
        BY <3>1, Rows DEF SetPassword, Registered
      <4> QED BY <3>1, <4>1 DEF SetPassword, Row
    <3>2. CASE Drop(u, d) \/ DropCutShort(u, d)
      BY <3>2 DEF Drop, DropCutShort, Without, Restrict
    <3> QED BY <2>2, <3>1, <3>2
  <2> QED BY <1>3, <2>1, <2>2
          DEF Manage, ChangesAccess, AccessDel, AccessAdd, AkickAdd, AkickDel,
              FantasyIdentify
<1>4. CASE People \/ UNCHANGED vars
  BY <1>4 DEF People, Renames, LogsIn, LogsOut, NickRegistered, NickDropped,
     NickDropCutShort, vars
<1> QED BY <1>1, <1>2, <1>3, <1>4 DEF Next

\* A founder is replaced only by a SET FOUNDER of somebody with 600, or with
\* his account: no registration, approval or sweep does it.
THEOREM ChanServFounder == Spec => FounderChangesHands
<1>1. TypeOK /\ ChanInv /\ [Next]_vars => [FounderKept]_vars
  BY FounderStep
<1> QED BY <1>1, ChanServTypeOK, ChanServInvariant, PTL
        DEF Spec, FounderChangesHands, FounderKept

-----------------------------------------------------------------------------
(* A new channel has no rows but its founder's.                            *)

FreshStep ==
  \A c \in DOMAIN chanserv' \ (DOMAIN chanserv \cup torn') :
    \A u \in Users : CanChan(u, c, 0)' =>
      chanserv'[c].founder \in {account'[u], nick'[u]}

\* Every row of a new channel bears the founder's name.
LEMMA FreshRows ==
  ASSUME TypeOK, ChanInv, [Next]_vars,
         NEW c \in DOMAIN chanserv', c \notin DOMAIN chanserv, c \notin torn',
         NEW n, <<c, n>> \in DOMAIN access'
  PROVE  n = chanserv'[c].founder
<1>1. c \notin torn => <<c, n>> \notin DOMAIN access
  <2>1. <<c, n>> \in DOMAIN access => <<c, n>>[1] \in DOMAIN chanserv \cup torn
    BY DEF ChanInv, RowsOfRegistered
  <2> QED BY <2>1
<1>2. ASSUME NEW F, chanserv' = Over(chanserv, Founded(F)), torn \subseteq torn',
             \/ access' = access
             \/ access' = Over(access, Ownership(F))
      PROVE  n = chanserv'[c].founder
  <2>1. c \in DOMAIN F /\ chanserv'[c].founder = F[c]
    BY <1>2 DEF Over, Founded
  <2>2. DOMAIN Over(access, Ownership(F))
          = DOMAIN access \cup {<<d, F[d]>> : d \in DOMAIN F}
    BY ActivatedKeys
  <2>3. <<c, n>> \in {<<d, F[d]>> : d \in DOMAIN F}
    BY <1>1, <1>2, <2>2
  <2> QED BY <2>1, <2>3
<1>3. ASSUME NEW done, NEW half, GrantCutShort(done, half)
      PROVE  n = chanserv'[c].founder
  <2>1. torn' = torn \cup {half} /\ c # half
    BY <1>3 DEF GrantCutShort
  <2>2. PICK rows \in {done, done \cup {half}} :
          chanserv' = Over(chanserv, Founded(Requested(rows)))
    BY <1>3 DEF GrantCutShort
  <2>3. DOMAIN access' = DOMAIN access
                           \cup {<<d, Requested(done)[d]>> : d \in DOMAIN Requested(done)}
    BY <1>3, ActivatedKeys DEF GrantCutShort
  <2>4. <<c, n>> \in {<<d, Requested(done)[d]>> : d \in DOMAIN Requested(done)}
    BY <1>1, <2>1, <2>3
  <2>5. c \in done /\ n = pending[c].founder
    BY <2>4 DEF Requested
  <2>6. chanserv'[c].founder = pending[c].founder
    BY <2>2, <2>5 DEF Over, Founded, Requested
  <2> QED BY <2>5, <2>6
<1>4. CASE Register
  BY <1>2, <1>4 DEF Register, RegisterNow, RegisterNowCutShort, RegisterLater,
     Activate, ActivateHalf
<1>5. CASE OperServ
  BY <1>2, <1>3, <1>5 DEF OperServ, Approve, ApproveCutShort, Reject,
     AutoApproveOn, SweepCutShort, AutoApproveOff, Activate
<1>6. CASE Manage
  BY <1>6 DEF Manage, ChangesAccess, AccessDel, SetFounder, AccessAdd, AkickAdd, AkickDel,
     SetPassword, FantasyIdentify, Drop, DropCutShort, Without, Restrict
<1>7. CASE People \/ UNCHANGED vars
  BY <1>7 DEF People, Renames, LogsIn, LogsOut, NickRegistered, NickDropped,
     NickDropCutShort, vars
<1> QED BY <1>4, <1>5, <1>6, <1>7 DEF Next

\* Whoever can do anything on a channel just registered goes by its founder's
\* name.
THEOREM ChanServFresh == Spec => FreshIsFounders
<1>1. TypeOK /\ ChanInv /\ [Next]_vars => FreshStep
  <2> SUFFICES ASSUME TypeOK, ChanInv, [Next]_vars,
                      NEW c \in DOMAIN chanserv', c \notin DOMAIN chanserv,
                      c \notin torn', NEW u \in Users, CanChan(u, c, 0)'
               PROVE  chanserv'[c].founder \in {account'[u], nick'[u]}
    BY DEF FreshStep
  <2>1. ASSUME NEW n, Level(c, n)' >= 0
        PROVE  n = chanserv'[c].founder
    <3>1. <<c, n>> \in DOMAIN access'
      BY <2>1 DEF Level, NONE
    <3> QED BY <3>1, FreshRows
  <2>2. CASE IsFounder(u, c)'
    BY <2>2 DEF IsFounder
  <2>3. CASE Level(c, nick[u])' >= 0
    BY <2>1, <2>3
  <2>4. CASE Level(c, account[u])' >= 0
    BY <2>1, <2>4
  <2> QED BY <2>2, <2>3, <2>4 DEF CanChan
<1>2. TypeOK /\ ChanInv /\ [Next]_vars => [FreshStep]_vars
  BY <1>1
<1> QED BY <1>2, ChanServTypeOK, ChanServInvariant, PTL
        DEF Spec, FreshIsFounders, FreshStep

-----------------------------------------------------------------------------
(* Changing access.                                                        *)

Upper(u, c, n) ==
  \/ /\ CallerLevel(u, c) >= MANAGE
     /\ CallerLevel(u, c) > Level(c, n)
     /\ n = chanserv[c].founder => CallerLevel(u, c) >= OWNER
  \/ chanserv[c].password /\ Identity(u) = n /\ Level(c, n)' = MANAGE

UpperHandStep ==
  \A c \in DOMAIN chanserv \cap DOMAIN chanserv', n \in Names :
    Level(c, n)' # Level(c, n) =>
      LET by == {u \in Users : ChangesAccess(u, c, n)}
      IN  /\ by # {}
          /\ \A u \in by :
               \/ /\ CallerLevel(u, c) >= MANAGE
                  /\ CallerLevel(u, c) > Level(c, n)
                  /\ n = chanserv[c].founder => CallerLevel(u, c) >= OWNER
               \/ /\ chanserv[c].password
                  /\ Identity(u) = n /\ Level(c, n)' = MANAGE

\* Registering and granting leave the rows of a registered channel alone.
LEMMA ActivateLeavesRows ==
  ASSUME NEW F, NEW c, c \notin DOMAIN F, NEW n,
         access' = Over(access, Ownership(F))
  PROVE  Level(c, n)' = Level(c, n)
<1>1. DOMAIN Ownership(F) = {<<d, F[d]>> : d \in DOMAIN F}
  BY DEF Ownership
<1>2. <<c, n>> \notin DOMAIN Ownership(F)
  BY <1>1
<1> HIDE DEF Ownership
<1>3. <<c, n>> \in DOMAIN access' <=> <<c, n>> \in DOMAIN access
  BY <1>2 DEF Over
<1>4. <<c, n>> \in DOMAIN access => access'[<<c, n>>] = access[<<c, n>>]
  BY <1>2 DEF Over
<1> QED BY <1>3, <1>4 DEF Level

\* The rows of another channel stay when one is dropped.
LEMMA DropLeavesRows ==
  ASSUME NEW c, NEW d, c # d, NEW n,
         \/ access' = access
         \/ access' = Restrict(access, {k \in DOMAIN access : k[1] # d})
  PROVE  Level(c, n)' = Level(c, n)
<1>1. <<c, n>>[1] # d
  OBVIOUS
<1> QED BY <1>1 DEF Level, Restrict

\* A row set or removed is one row.
LEMMA RowChange ==
  ASSUME NEW c, NEW n, NEW d, NEW m, <<c, n>> # <<d, m>>,
         \/ \E level : access' = With(access, <<d, m>>, level)
         \/ access' = Without(access, <<d, m>>)
  PROVE  Level(c, n)' = Level(c, n)
BY DEF Level, With, Without, Restrict

\* Whoever may change a row has the upper hand.
LEMMA ChangesUpper ==
  ASSUME NEW c \in DOMAIN chanserv, NEW n \in Names, NEW u \in Users,
         ChangesAccess(u, c, n), \A v : CallerLevel(v, c) \in Int, Level(c, n) \in Int
  PROVE  Upper(u, c, n)
<1>1. MayChange(u, c, n) => Upper(u, c, n)
  BY DEF MayChange, Upper, Registered
<1>2. CASE Identity(u) = n /\ FantasyIdentify(u, c)
  BY <1>2 DEF FantasyIdentify, Upper, Level, With
<1> QED BY <1>1, <1>2 DEF ChangesAccess, AccessAdd, AccessDel

\* Whoever changes a row has the upper hand, and nothing else does it.
LEMMA UpperHandHolds ==
  ASSUME TypeOK, ChanInv, [Next]_vars
  PROVE  UpperHandStep
<1> SUFFICES ASSUME NEW c \in DOMAIN chanserv, c \in DOMAIN chanserv',
                    NEW n \in Names, Level(c, n)' # Level(c, n)
             PROVE  \E u \in Users : ChangesAccess(u, c, n)
  <2>1. \A c, n : Level(c, n) \in Int
    BY LevelType
  <2>2. \A u, c : CallerLevel(u, c) \in Int
    BY LevelType DEF CallerLevel, OWNER
  <2> QED BY <2>1, <2>2, ChangesUpper DEF UpperHandStep, Upper
<1>1. access' # access
  BY DEF Level
<1>2. c \notin Waiting
  BY DEF ChanInv, WaitingIsUnregistered
<1>3. CASE Register
  <2>1. PICK u \in Users, d \in Channels : RegisterNow(u, d)
    BY <1>1, <1>3 DEF Register, RegisterNowCutShort, RegisterLater, ActivateHalf
  <2>2. c \notin DOMAIN [x \in {d} |-> account[u]]
    BY <2>1 DEF RegisterNow, MayRegister, Registered
  <2> QED BY <2>1, <2>2, ActivateLeavesRows DEF RegisterNow, Activate
<1>4. CASE OperServ
  <2>1. ASSUME NEW S \in SUBSET Waiting, access' = Over(access, Ownership(Requested(S)))
        PROVE  FALSE
    <3>1. c \notin DOMAIN Requested(S)
      BY <1>2, RequestedKeys
    <3> QED BY <2>1, <3>1, ActivateLeavesRows
  <2>2. \A d \in Waiting : {d} \in SUBSET Waiting
    OBVIOUS
  <2>3. {} \in SUBSET Waiting /\ Waiting \in SUBSET Waiting
    OBVIOUS
  <2> QED BY <1>1, <1>4, <2>1, <2>2, <2>3
          DEF OperServ, Approve, ApproveCutShort, Reject, AutoApproveOn,
              SweepCutShort, AutoApproveOff, Activate, GrantCutShort, Decidable
<1>5. CASE Manage
  <2>1. PICK u \in Users, d \in Channels :
      \/ \E m \in Names : ChangesAccess(u, d, m) \/ SetFounder(u, d, m)
      \/ \E mask \in Masks : AkickAdd(u, d, mask) \/ AkickDel(u, d, mask)
      \/ SetPassword(u, d) \/ Drop(u, d) \/ DropCutShort(u, d)
    BY <1>5 DEF Manage
  <2>2. ASSUME NEW m \in Names, ChangesAccess(u, d, m)
        PROVE  ChangesAccess(u, c, n)
    <3>1. d = c /\ m = n
      BY <2>2, RowChange DEF ChangesAccess, AccessDel, AccessAdd, FantasyIdentify
    <3> QED BY <2>2, <3>1
  <2>3. CASE Drop(u, d) \/ DropCutShort(u, d)
    <3>1. c # d
      BY <2>3 DEF Drop, DropCutShort, Without, Restrict
    <3> QED BY <2>3, <3>1, DropLeavesRows DEF Drop, DropCutShort
  <2> QED BY <1>1, <2>1, <2>2, <2>3 DEF SetFounder, AkickAdd, AkickDel, SetPassword
<1>6. CASE People \/ UNCHANGED vars
  BY <1>1, <1>6 DEF People, Renames, LogsIn, LogsOut, NickRegistered, NickDropped,
     NickDropCutShort, vars
<1> QED BY <1>3, <1>4, <1>5, <1>6 DEF Next

\* A row moves only at the command of someone with 500 and more than it has,
\* and 600 if it is in the founder's name, or of its holder, who gives the
\* channel's password.
THEOREM ChanServUpperHand == Spec => UpperHand
<1>1. TypeOK /\ ChanInv /\ [Next]_vars => [UpperHandStep]_vars
  BY UpperHandHolds
<1> QED BY <1>1, ChanServTypeOK, ChanServInvariant, PTL
        DEF Spec, UpperHand, UpperHandStep

-----------------------------------------------------------------------------
(* The abstract life of the channels.                                      *)

\* What the tables say of one channel.
HolderOf(c) ==
  IF c \in DOMAIN chanserv THEN H!Owned(chanserv[c].founder)
  ELSE IF c \in Waiting THEN H!Asked(pending[c].founder)
  ELSE H!Free

\* Channel by channel.
LEMMA HolderIs ==
  /\ Holder = [c \in Channels |-> HolderOf(c)]
  /\ Holder' = [c \in Channels |-> HolderOf(c)']
BY DEF Holder, HolderOf, Registered, H!Owned, H!Asked, H!Free

\* A row of a table that is untouched says the same of its channel.
LEMMA HolderKept ==
  ASSUME NEW c, c \in DOMAIN chanserv' <=> c \in DOMAIN chanserv,
         c \in DOMAIN chanserv => chanserv'[c].founder = chanserv[c].founder,
         c \in Waiting' <=> c \in Waiting,
         c \in Waiting => pending'[c].founder = pending[c].founder
  PROVE  HolderOf(c)' = HolderOf(c)
BY DEF HolderOf

\* A step that moves at most one channel.
LEMMA OneChannel ==
  ASSUME NEW c \in Channels,
         \A d \in Channels \ {c} : HolderOf(d)' = HolderOf(d)
  PROVE  Holder' = [Holder EXCEPT ![c] = HolderOf(c)']
BY HolderIs

\* Stages are told apart.
LEMMA StagesDiffer ==
  \A c \in Channels :
    /\ Holder[c] = HolderOf(c)
    /\ c \in DOMAIN chanserv => Holder[c].stage = "owned" /\ Holder[c].by = chanserv[c].founder
    /\ c \notin DOMAIN chanserv /\ c \in Waiting =>
         Holder[c].stage = "requested" /\ Holder[c].by = pending[c].founder
    /\ c \notin DOMAIN chanserv /\ c \notin Waiting => Holder[c] = H!Free
BY HolderIs DEF HolderOf, H!Owned, H!Asked, H!Free

\* Requests are the waiting ones.
LEMMA RequestsAre ==
  ASSUME TypeOK, WaitingIsUnregistered
  PROVE  H!Requests = Waiting
<1>1. Waiting \subseteq Channels
  BY Rows DEF Waiting
<1>2. \A c \in Channels : Holder[c].stage = "requested" <=> c \in Waiting
  <2> SUFFICES ASSUME NEW c \in Channels
               PROVE  Holder[c].stage = "requested" <=> c \in Waiting
    OBVIOUS
  <2>1. CASE c \in DOMAIN chanserv
    <3>1. c \notin Waiting
      BY <2>1 DEF WaitingIsUnregistered
    <3> QED BY <2>1, <3>1, StagesDiffer
  <2>2. CASE c \notin DOMAIN chanserv /\ c \in Waiting
    BY <2>2, StagesDiffer
  <2>3. CASE c \notin DOMAIN chanserv /\ c \notin Waiting
    BY <2>3, StagesDiffer DEF H!Free
  <2> QED BY <2>1, <2>2, <2>3
<1> QED BY <1>1, <1>2 DEF H!Requests

\* Registering gives a free channel to the caller's account, or asks for it
\* in its name.
LEMMA RegisterEstate ==
  ASSUME TypeOK, WaitingIsUnregistered, Register
  PROVE  H!EstateNext
<1>1. PICK u \in Users, c \in Channels :
        RegisterNow(u, c) \/ RegisterNowCutShort(u, c) \/ RegisterLater(u, c)
  BY DEF Register
<1>2. MayRegister(u, c)
  BY <1>1 DEF RegisterNow, RegisterNowCutShort, RegisterLater
<1>3. account[u] \in Names
  BY <1>2, ChanServAssumption DEF MayRegister, TypeOK
<1>4. Holder[c] = H!Free /\ c \notin DOMAIN chanserv /\ c \notin Waiting
  BY <1>2, StagesDiffer DEF MayRegister, Registered
<1>5. CASE RegisterNow(u, c) \/ RegisterNowCutShort(u, c)
  <2> DEFINE F == [x \in {c} |-> account[u]]
  <2>1. chanserv' = Over(chanserv, Founded(F)) /\ pending' = pending
    BY <1>5 DEF RegisterNow, RegisterNowCutShort, Activate, ActivateHalf, queue
  <2>2. /\ DOMAIN chanserv' = DOMAIN chanserv \cup {c}
        /\ chanserv'[c].founder = account[u]
        /\ \A d \in DOMAIN chanserv : chanserv'[d] = chanserv[d]
    BY <1>4, <2>1 DEF Over, Founded
  <2>3. Waiting' = Waiting
    BY <2>1 DEF Waiting
  <2>4. HolderOf(c)' = H!Owned(account[u])
    BY <2>2 DEF HolderOf, H!Owned
  <2>5. \A d \in Channels \ {c} : HolderOf(d)' = HolderOf(d)
    BY <2>1, <2>2, <2>3, HolderKept
  <2>6. H!Found(c, account[u])
    BY <1>4, <2>4, <2>5, OneChannel DEF H!Found, H!Becomes
  <2> QED BY <1>3, <2>6 DEF H!EstateNext
<1>6. CASE RegisterLater(u, c)
  <2>1. /\ pending' = With(pending, c, [founder |-> account[u], approved |-> "waiting"])
        /\ chanserv' = chanserv
    BY <1>6 DEF RegisterLater
  <2>2. /\ Waiting' = Waiting \cup {c} /\ pending'[c].founder = account[u]
        /\ \A d \in Waiting : d # c => pending'[d] = pending[d]
    BY <2>1 DEF With, Waiting
  <2>3. HolderOf(c)' = H!Asked(account[u])
    BY <1>4, <2>1, <2>2 DEF HolderOf, H!Asked
  <2>4. \A d \in Channels \ {c} : HolderOf(d)' = HolderOf(d)
    BY <2>1, <2>2, HolderKept
  <2>5. H!Ask(c, account[u])
    BY <1>4, <2>3, <2>4, OneChannel DEF H!Ask, H!Becomes
  <2> QED BY <1>3, <2>5 DEF H!EstateNext
<1> QED BY <1>1, <1>5, <1>6

\* Requests decided on: those with a row get it for who asked, the others are
\* over.
LEMMA SettleStep ==
  ASSUME TypeOK, WaitingIsUnregistered,
         NEW rows \in SUBSET Waiting, NEW over \in SUBSET Waiting,
         rows \cap over = {}, NEW d \in {"approved", "rejected"},
         pending' = Decided(rows \cup over, d),
         chanserv' = Over(chanserv, Founded(Requested(rows)))
  PROVE  H!Settle(rows, over)
<1>1. /\ DOMAIN chanserv' = DOMAIN chanserv \cup rows
      /\ \A c \in rows : chanserv'[c].founder = pending[c].founder
      /\ \A c \in DOMAIN chanserv \ rows : chanserv'[c] = chanserv[c]
  BY DEF Over, Founded, Requested
<1>2. /\ Waiting' = Waiting \ (rows \cup over)
      /\ \A c \in Waiting' : pending'[c] = pending[c]
  <2>1. \A c \in DOMAIN pending : pending[c] \in Request
    BY Rows
  <2>2. DOMAIN pending' = DOMAIN pending
    BY DEF Decided
  <2>3. \A c \in DOMAIN pending :
          pending'[c].approved = IF c \in rows \cup over THEN d ELSE pending[c].approved
    BY <2>1 DEF Decided, Request
  <2>4. \A c \in DOMAIN pending \ (rows \cup over) : pending'[c] = pending[c]
    BY DEF Decided
  <2> QED BY <2>2, <2>3, <2>4 DEF Waiting
<1>3. ASSUME NEW c \in Channels
      PROVE  HolderOf(c)' = IF c \in rows THEN H!Owned(Holder[c].by)
                            ELSE IF c \in over THEN H!Free
                            ELSE Holder[c]
  <2>1. CASE c \in rows
    <3>1. c \in Waiting /\ c \notin DOMAIN chanserv
      BY <2>1 DEF WaitingIsUnregistered
    <3>2. Holder[c].by = pending[c].founder
      BY <3>1, StagesDiffer
    <3> QED BY <1>1, <2>1, <3>2 DEF HolderOf
  <2>2. CASE c \in over
    <3>1. c \in Waiting /\ c \notin DOMAIN chanserv /\ c \notin rows
      BY <2>2 DEF WaitingIsUnregistered
    <3>2. c \notin DOMAIN chanserv' /\ c \notin Waiting'
      BY <1>1, <1>2, <2>2, <3>1
    <3> QED BY <2>2, <3>1, <3>2 DEF HolderOf
  <2>3. CASE c \notin rows /\ c \notin over
    <3>1. HolderOf(c)' = HolderOf(c)
      BY <1>1, <1>2, <2>3, HolderKept
    <3>2. HolderOf(c) = Holder[c]
      BY StagesDiffer
    <3> QED BY <2>3, <3>1, <3>2
  <2> QED BY <2>1, <2>2, <2>3
<1> QED BY <1>3, HolderIs DEF H!Settle

\* An operator's decisions settle requests.
LEMMA OperServEstate ==
  ASSUME TypeOK, WaitingIsUnregistered, OperServ
  PROVE  [H!EstateNext]_Holder
<1>1. ASSUME NEW rows \in SUBSET Waiting, H!Settle(rows, {})
      PROVE  H!EstateNext
  BY <1>1, RequestsAre DEF H!EstateNext
<1>2. ASSUME NEW rows \in SUBSET Waiting, NEW c \in Waiting \ rows,
             H!Settle(rows, {c})
      PROVE  H!EstateNext
  BY <1>2, RequestsAre DEF H!EstateNext
<1>3. ASSUME NEW S \in SUBSET Waiting, pending' = Decided(S, "approved"),
             chanserv' = Over(chanserv, Founded(Requested(S)))
      PROVE  H!EstateNext
  <2>1. {} \in SUBSET Waiting /\ S \cap {} = {} /\ S \cup {} = S
    OBVIOUS
  <2>2. H!Settle(S, {})
    BY <1>3, <2>1, SettleStep
  <2> QED BY <1>1, <2>2
<1>4. ASSUME NEW c \in Waiting, NEW S \in SUBSET Waiting, c \notin S,
             GrantCutShort(S, c)
      PROVE  H!EstateNext
  <2>1. CASE chanserv' = Over(chanserv, Founded(Requested(S \cup {c})))
    <3>1. S \cup {c} \in SUBSET Waiting /\ pending' = Decided(S \cup {c}, "approved")
      BY <1>4 DEF GrantCutShort
    <3> QED BY <1>3, <2>1, <3>1
  <2>2. CASE chanserv' = Over(chanserv, Founded(Requested(S)))
    <3>1. {c} \in SUBSET Waiting /\ S \cap {c} = {}
          /\ pending' = Decided(S \cup {c}, "approved")
      BY <1>4 DEF GrantCutShort
    <3>2. H!Settle(S, {c})
      BY <2>2, <3>1, SettleStep
    <3> QED BY <1>2, <1>4, <3>2
  <2> QED BY <1>4, <2>1, <2>2 DEF GrantCutShort
<1>5. ASSUME NEW c \in Channels, Approve(c) PROVE H!EstateNext
  <2>1. {c} \in SUBSET Waiting
    BY <1>5 DEF Approve, Decidable
  <2> QED BY <1>3, <1>5, <2>1 DEF Approve, Activate
<1>6. ASSUME NEW c \in Channels, ApproveCutShort(c) PROVE H!EstateNext
  <2>1. c \in Waiting /\ {} \in SUBSET Waiting /\ c \notin {}
    BY <1>6 DEF ApproveCutShort, Decidable
  <2> QED BY <1>4, <1>6, <2>1 DEF ApproveCutShort
<1>7. ASSUME NEW c \in Channels, Reject(c) PROVE H!EstateNext
  <2>1. c \in Waiting /\ {c} \in SUBSET Waiting /\ {} \in SUBSET Waiting
        /\ {} \cap {c} = {} /\ {} \cup {c} = {c}
    BY <1>7 DEF Reject, Decidable
  <2>2. pending' = Decided({c}, "rejected") /\ chanserv' = chanserv
    BY <1>7 DEF Reject
  <2>3. chanserv = Over(chanserv, Founded(Requested({})))
    <3>1. chanserv \in [DOMAIN chanserv -> Row]
      BY IsTableElim DEF TypeOK
    <3> QED BY <3>1 DEF Over, Founded, Requested
  <2>4. H!Settle({}, {c})
    BY <2>1, <2>2, <2>3, SettleStep
  <2> QED BY <1>2, <2>1, <2>4
<1>8. CASE AutoApproveOn
  <2>1. Waiting \in SUBSET Waiting
    OBVIOUS
  <2> QED BY <1>3, <1>8, <2>1 DEF AutoApproveOn, Activate
<1>9. CASE SweepCutShort
  BY <1>3, <1>4, <1>9 DEF SweepCutShort, Activate
<1>10. CASE AutoApproveOff
  BY <1>10 DEF AutoApproveOff, Holder, Registered, Waiting
<1> QED BY <1>5, <1>6, <1>7, <1>8, <1>9, <1>10 DEF OperServ

\* An owner gives his channel away or gives it up; DROP also takes back the
\* request for a channel on which old rows give the caller access.
LEMMA ManageEstate ==
  ASSUME TypeOK, WaitingIsUnregistered, Manage
  PROVE  [H!EstateNext]_Holder
<1>1. CASE UNCHANGED <<chanserv, pending>>
  BY <1>1 DEF Holder, Registered, Waiting
<1>2. ASSUME NEW u \in Users, NEW c \in Channels, NEW n \in Names,
             SetFounder(u, c, n)
      PROVE  H!EstateNext
  <2>1. /\ c \in DOMAIN chanserv /\ chanserv' = [chanserv EXCEPT ![c].founder = n]
        /\ pending' = pending /\ chanserv[c] \in Row
    BY <1>2, Rows DEF SetFounder, Registered, queue
  <2>2. /\ DOMAIN chanserv' = DOMAIN chanserv /\ chanserv'[c].founder = n
        /\ \A d \in DOMAIN chanserv \ {c} : chanserv'[d] = chanserv[d]
    BY <2>1 DEF Row
  <2>3. Waiting' = Waiting
    BY <2>1 DEF Waiting
  <2>4. HolderOf(c)' = H!Owned(n)
    BY <2>1, <2>2 DEF HolderOf, H!Owned
  <2>5. \A d \in Channels \ {c} : HolderOf(d)' = HolderOf(d)
    BY <2>1, <2>2, <2>3, HolderKept
  <2>6. Holder[c].stage = "owned"
    BY <2>1, StagesDiffer
  <2>7. H!HandOver(c, n)
    BY <2>4, <2>5, <2>6, OneChannel DEF H!HandOver, H!Becomes
  <2> QED BY <2>7 DEF H!EstateNext
<1>3. ASSUME NEW u \in Users, NEW c \in Channels, SetPassword(u, c)
      PROVE  Holder' = Holder
  <2>1. \A d \in DOMAIN chanserv : chanserv[d] \in Row
    BY Rows
  <2>2. /\ chanserv' = [chanserv EXCEPT ![c].password = TRUE]
        /\ pending' = pending
    BY <1>3 DEF SetPassword, queue
  <2>3. /\ DOMAIN chanserv' = DOMAIN chanserv
        /\ \A d \in DOMAIN chanserv : chanserv'[d].founder = chanserv[d].founder
    BY <2>1, <2>2 DEF Row
  <2>4. Waiting' = Waiting
    BY <2>2 DEF Waiting
  <2>5. \A d \in Channels : HolderOf(d)' = HolderOf(d)
    BY <2>2, <2>3, <2>4, HolderKept
  <2> QED BY <2>5, HolderIs
<1>4. ASSUME NEW u \in Users, NEW c \in Channels, Drop(u, c) \/ DropCutShort(u, c)
      PROVE  [H!EstateNext]_Holder
  <2>1. /\ chanserv' = Without(chanserv, c)
        /\ pending' = Without(pending, c) \/ pending' = pending
    BY <1>4 DEF Drop, DropCutShort, queue
  <2>2. /\ DOMAIN chanserv' = DOMAIN chanserv \ {c}
        /\ \A d \in DOMAIN chanserv' : chanserv'[d] = chanserv[d]
    BY <2>1 DEF Without, Restrict
  <2>3. /\ Waiting' = Waiting \/ Waiting' = Waiting \ {c}
        /\ \A d \in Waiting' : pending'[d] = pending[d]
    BY <2>1 DEF Without, Restrict, Waiting
  <2>4. \A d \in Channels \ {c} : HolderOf(d)' = HolderOf(d)
    BY <2>2, <2>3, HolderKept
  <2>5. Holder' = [Holder EXCEPT ![c] = HolderOf(c)']
    BY <2>4, OneChannel
  <2>6. CASE c \in DOMAIN chanserv
    <3>1. c \notin Waiting /\ Holder[c].stage = "owned"
      BY <2>6, StagesDiffer DEF WaitingIsUnregistered
    <3>2. HolderOf(c)' = H!Free
      BY <2>2, <2>3, <3>1 DEF HolderOf
    <3>3. H!GiveUp(c)
      BY <2>5, <3>1, <3>2 DEF H!GiveUp, H!Becomes
    <3> QED BY <3>3 DEF H!EstateNext
  <2>7. CASE c \in Waiting /\ Waiting' = Waiting \ {c}
    <3>1. HolderOf(c)' = H!Free
      BY <2>2, <2>7 DEF HolderOf
    <3>2. H!Settle({}, {c})
      BY <2>5, <3>1, HolderIs DEF H!Settle
    <3>3. c \in H!Requests \ {} /\ {} \in SUBSET H!Requests
      BY <2>7, RequestsAre
    <3> QED BY <3>2, <3>3 DEF H!EstateNext
  <2>8. CASE c \notin DOMAIN chanserv /\ Waiting' = Waiting
    <3>1. HolderOf(c)' = HolderOf(c)
      BY <2>2, <2>3, <2>8, HolderKept
    <3> QED BY <2>4, <3>1, HolderIs
  <2> QED BY <2>3, <2>6, <2>7, <2>8
<1> QED BY <1>1, <1>2, <1>3, <1>4
        DEF Manage, ChangesAccess, AccessDel, AccessAdd, AkickAdd, AkickDel,
            FantasyIdentify, queue

\* An account that goes leaves all its channels without a founder.
LEMMA PeopleEstate ==
  ASSUME TypeOK, People
  PROVE  [H!EstateNext]_Holder
<1>1. CASE UNCHANGED <<chanserv, pending>>
  BY <1>1 DEF Holder, Registered, Waiting
<1>2. ASSUME NEW u \in Users, NEW n \in Names, NickDropped(u, n)
      PROVE  H!EstateNext
  <2>1. /\ DOMAIN chanserv' = DOMAIN chanserv /\ pending' = pending
        /\ \A d \in DOMAIN chanserv :
             chanserv'[d].founder = IF chanserv[d].founder = n THEN NoOne
                                    ELSE chanserv[d].founder
    BY <1>2 DEF NickDropped, queue
  <2>2. Waiting' = Waiting
    BY <2>1 DEF Waiting
  <2>3. ASSUME NEW c \in Channels
        PROVE  HolderOf(c)' = IF Holder[c] = H!Owned(n) THEN H!Owned(NoOne)
                              ELSE Holder[c]
    <3>1. CASE c \in DOMAIN chanserv /\ chanserv[c].founder = n
      <4>1. Holder[c] = H!Owned(n)
        BY <3>1, StagesDiffer DEF HolderOf
      <4>2. HolderOf(c)' = H!Owned(NoOne)
        BY <2>1, <3>1 DEF HolderOf
      <4> QED BY <4>1, <4>2
    <3>2. CASE ~(c \in DOMAIN chanserv /\ chanserv[c].founder = n)
      <4>1. HolderOf(c)' = HolderOf(c)
        BY <2>1, <2>2, <3>2, HolderKept
      <4>2. Holder[c] # H!Owned(n)
        <5>1. H!Owned(n).stage = "owned" /\ H!Owned(n).by = n
          BY DEF H!Owned
        <5>2. H!Free.stage = "free"
          BY DEF H!Free
        <5> QED BY <3>2, <5>1, <5>2, StagesDiffer
      <4> QED BY <4>1, <4>2, StagesDiffer
    <3> QED BY <3>1, <3>2
  <2>4. H!Bereave(n)
    BY <2>3, HolderIs DEF H!Bereave
  <2> QED BY <2>4 DEF H!EstateNext
<1> QED BY <1>1, <1>2 DEF People, Renames, LogsIn, LogsOut, NickRegistered,
        NickDropCutShort, queue

\* The tables implement the abstract life of the channels: every command,
\* sweep, drop and death is a legal move of the channels it touches.
THEOREM ChanServImplementsEstate == Spec => ImplementsEstate
<1>1. Init => H!EstateInit
  BY DEF Init, H!EstateInit, H!Free, Holder, Registered, Waiting, NoFunction
<1>2. TypeOK /\ WaitingIsUnregistered /\ [Next]_vars => [H!EstateNext]_Holder
  <2>1. CASE UNCHANGED vars
    BY <2>1 DEF vars, Holder, Registered, Waiting
  <2> QED BY <2>1, RegisterEstate, OperServEstate, ManageEstate, PeopleEstate DEF Next
<1> QED
  BY <1>1, <1>2, ChanServTypeOK, ChanServWaiting, PTL
     DEF Spec, ImplementsEstate, H!EstateSpec
=============================================================================
