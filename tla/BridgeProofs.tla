---------------------------- MODULE BridgeProofs ----------------------------
(***************************************************************************)
(* Theorems about Bridge, for any number of bridges, channels and people,  *)
(* as long as there are more SIDs to try than bridges were ever named.     *)
(***************************************************************************)
EXTENDS Bridge, TablesProofs, TLAPS, FiniteSetTheorems

-----------------------------------------------------------------------------
(* The parts of the invariant.                                             *)

ConfigOK ==
  /\ running \in BOOLEAN /\ uplink \in BOOLEAN /\ orphan \in BOOLEAN
  /\ IsTable(rows, Bridges, Row) /\ IsTable(bridges, Bridges, Row)
  /\ IsTable(mapped, Bridges \X Channels, Remotes)
  /\ IsTable(links, Bridges, BOOLEAN)
  /\ relays \subseteq Bridges

VirtualOK ==
  /\ IsTable(servers, Bridges, Server)
  /\ IsTable(vu_cache, Bridges \X Senders, Uids)

QueueOK == deferred \in Seq(Message) /\ known \subseteq Sids \cup Uids

\* The invariant of types splits into what different actions change.
LEMMA TypeParts == TypeOK <=> ConfigOK /\ VirtualOK /\ QueueOK
BY DEF TypeOK, ConfigOK, VirtualOK, QueueOK

\* The same, after a step.
LEMMA TypePartsNext == TypeOK' <=> ConfigOK' /\ VirtualOK' /\ QueueOK'
BY DEF TypeOK, ConfigOK, VirtualOK, QueueOK

\* Users bear their server's SID and a number it has already counted.
Counted(s) == \A x \in s.users : x[1] = s.sid /\ x[2] < s.next

\* What makes uids fresh.
IdsOK ==
  /\ \A b \in DOMAIN servers : Counted(servers[b])
  /\ SidsUnique
  /\ UidsUnique

IInv == TypeOK /\ ResourcesFollowTable /\ IdsOK

\* The entry of a virtual server is a server.
LEMMA ServerRecord ==
  ASSUME VirtualOK, NEW b \in DOMAIN servers
  PROVE  b \in Bridges /\ servers[b] \in Server
<1>1. DOMAIN servers \subseteq Bridges /\ servers \in [DOMAIN servers -> Server]
  BY IsTableElim DEF VirtualOK
<1> QED BY <1>1

\* The entry of a cached user is a uid.
LEMMA CacheEntry ==
  ASSUME VirtualOK, NEW k \in DOMAIN vu_cache
  PROVE  k \in Bridges \X Senders /\ vu_cache[k] \in Uids
<1>1. /\ DOMAIN vu_cache \subseteq Bridges \X Senders
      /\ vu_cache \in [DOMAIN vu_cache -> Uids]
  BY IsTableElim DEF VirtualOK
<1> QED BY <1>1

-----------------------------------------------------------------------------
(* A bridge without a virtual server finds a SID that is free: the SIDs    *)
(* taken are no more than the other bridges.                               *)

\* The search of add_virtual_server ends with a SID that is free.
LEMMA FreeSid ==
  ASSUME VirtualOK, NEW b \in Bridges, b \notin DOMAIN servers
  PROVE  ChooseSid = Free /\ Free # {}
<1> DEFINE D == DOMAIN servers
<1> DEFINE sidOf == [a \in D |-> servers[a].sid]
<1>1. D \in SUBSET (Bridges \ {b}) /\ D \subseteq Bridges
  BY ServerRecord
<1>2. IsFiniteSet(Bridges) /\ IsFiniteSet(Sids) /\ Cardinality(Bridges) < Cardinality(Sids)
  BY BridgeAssumption
<1>3. IsFiniteSet(D) /\ Cardinality(D) + 1 <= Cardinality(Bridges)
  <2>1. /\ IsFiniteSet(Bridges \ {b})
        /\ Cardinality(Bridges \ {b}) = Cardinality(Bridges) - 1
    BY <1>2, FS_RemoveElement
  <2>2. IsFiniteSet(D) /\ Cardinality(D) <= Cardinality(Bridges \ {b})
    BY <1>1, <2>1, FS_Subset
  <2> QED BY <1>2, <2>1, <2>2, FS_CardinalityType
<1>4. sidOf \in Surjection(D, Taken)
  BY DEF Surjection, Taken
<1>5. IsFiniteSet(Taken) /\ Cardinality(Taken) <= Cardinality(D)
  <2> HIDE DEF D, sidOf
  <2> QED BY <1>3, <1>4, FS_Surjection
<1>6. /\ IsFiniteSet(Taken \cup {OwnSid})
      /\ Cardinality(Taken \cup {OwnSid}) <= Cardinality(Taken) + 1
  <2>1. Cardinality(Taken) \in Nat
    BY <1>5, FS_CardinalityType
  <2>2. /\ IsFiniteSet(Taken \cup {OwnSid})
        /\ Cardinality(Taken \cup {OwnSid}) =
             IF OwnSid \in Taken THEN Cardinality(Taken) ELSE Cardinality(Taken) + 1
    BY <1>5, FS_AddElement
  <2> QED BY <2>1, <2>2
<1>7. Free # {}
  <2>1. SUFFICES ASSUME Free = {} PROVE FALSE
    OBVIOUS
  <2>2. Sids \in SUBSET (Taken \cup {OwnSid})
    BY <2>1 DEF Free
  <2>3. Cardinality(Sids) <= Cardinality(Taken \cup {OwnSid})
    BY <1>6, <2>2, FS_Subset
  <2> HIDE DEF D
  <2> QED BY <1>2, <1>3, <1>5, <1>6, <2>3, FS_CardinalityType
<1> QED BY <1>7 DEF ChooseSid

-----------------------------------------------------------------------------
(* What delivering a message does to servers and users.                    *)

\* The server s that hosts the sender and the sender's uid x.
Hosts(b, key, s, x) ==
  /\ s \in Server /\ x \in Uids
  /\ servers' = With(servers, b, s) /\ vu_cache' = With(vu_cache, key, x)
  /\ Counted(s) /\ x \in s.users
  /\ s.sid # OwnSid
  /\ \A a \in DOMAIN servers : a # b => servers[a].sid # s.sid
  /\ b \in DOMAIN servers => servers[b].users \subseteq s.users
  /\ key \in DOMAIN vu_cache => x = vu_cache[key]
  /\ \A l \in DOMAIN vu_cache : vu_cache[l] = x => l = key

\* Hosting the next user keeps a server counted.
LEMMA HostNext ==
  ASSUME NEW s \in Server, Counted(s)
  PROVE  /\ Host(s) \in Server /\ Counted(Host(s))
         /\ Host(s).sid = s.sid /\ s.users \subseteq Host(s).users
         /\ NextUid(s) \in Uids /\ NextUid(s) \in Host(s).users
         /\ NextUid(s) \notin s.users
<1>1. s.sid \in Sids /\ s.next \in Nat \ {0} /\ s.users \subseteq Uids
  BY DEF Server
<1>2. NextUid(s) \in Uids
  BY <1>1 DEF NextUid, Uids
<1>3. Host(s) = [sid |-> s.sid, next |-> s.next + 1,
                 users |-> s.users \cup {NextUid(s)}]
  <2> DEFINE t == [s EXCEPT !.next = s.next + 1]
  <2>1. t = [sid |-> s.sid, next |-> s.next + 1, users |-> s.users]
    BY DEF Server
  <2>2. Host(s) = [t EXCEPT !.users = s.users \cup {NextUid(s)}]
    BY DEF Host
  <2> QED BY <2>1, <2>2
<1>4. Host(s) \in Server
  BY <1>1, <1>2, <1>3 DEF Server
<1>5. \A x \in s.users : x[2] \in Nat /\ x[1] = s.sid /\ x[2] < s.next
  BY <1>1 DEF Counted, Uids
<1>6. NextUid(s)[1] = s.sid /\ NextUid(s)[2] = s.next
  BY DEF NextUid
<1>7. Counted(Host(s))
  BY <1>1, <1>3, <1>5, <1>6 DEF Counted
<1>8. NextUid(s) \notin s.users
  BY <1>1, <1>5, <1>6
<1> HIDE DEF NextUid
<1> QED BY <1>2, <1>3, <1>4, <1>7, <1>8

\* A uid that names a server's next user is nobody's yet.
LEMMA NextUidFresh ==
  ASSUME VirtualOK, IdsOK, NEW b, NEW s \in Server, Counted(s),
         \A a \in DOMAIN servers : a # b => servers[a].sid # s.sid,
         b \in DOMAIN servers => s = servers[b],
         NEW l \in DOMAIN vu_cache
  PROVE  vu_cache[l] # NextUid(s)
<1>1. l[1] \in DOMAIN servers /\ vu_cache[l] \in servers[l[1]].users
  BY DEF IdsOK, UidsUnique
<1>2. vu_cache[l][1] = servers[l[1]].sid /\ Counted(servers[l[1]])
  BY <1>1 DEF IdsOK, Counted
<1>3. CASE l[1] = b
  BY <1>1, <1>3, HostNext
<1>4. CASE l[1] # b
  BY <1>1, <1>2, <1>4 DEF NextUid
<1> QED BY <1>3, <1>4

\* Delivering a message hosts its sender.
LEMMA DeliverHosts ==
  ASSUME VirtualOK, IdsOK, NEW m \in Message, Deliver(m)
  PROVE  \E s, x : Hosts(m.bridge, <<m.bridge, m.sender>>, s, x)
<1> DEFINE b == m.bridge
           key == <<b, m.sender>>
<1>0. b \in Bridges /\ m.sender \in Senders
  BY DEF Message
<1>1. PICK sid \in ChooseSid :
        LET server == IF b \notin DOMAIN servers THEN NewServer(sid) ELSE servers[b]
            uid == IF ~HasUser(key) THEN NextUid(server) ELSE vu_cache[key]
        IN  /\ servers' = With(servers, b, IF ~HasUser(key) THEN Host(server) ELSE server)
            /\ vu_cache' = With(vu_cache, key, uid)
  BY DEF Deliver
<1> DEFINE server == IF b \notin DOMAIN servers THEN NewServer(sid) ELSE servers[b]
<1>2. /\ server \in Server /\ Counted(server) /\ server.sid # OwnSid
      /\ \A a \in DOMAIN servers : a # b => servers[a].sid # server.sid
      /\ b \in DOMAIN servers => server = servers[b]
  <2>1. CASE b \notin DOMAIN servers
    <3>1. sid \in Free
      BY <1>0, <2>1, FreeSid
    <3>2. server = [sid |-> sid, next |-> 1, users |-> {}]
      BY <2>1 DEF NewServer
    <3>3. sid \in Sids /\ sid # OwnSid /\ \A a \in DOMAIN servers : servers[a].sid # sid
      BY <3>1 DEF Free, Taken
    <3>4. server \in Server
      BY <3>2, <3>3 DEF Server
    <3> QED BY <2>1, <3>2, <3>3, <3>4 DEF Counted
  <2>2. CASE b \in DOMAIN servers
    <3>1. server = servers[b] /\ server \in Server
      BY <2>2, ServerRecord
    <3>2. server.sid # OwnSid
      BY <2>2, <3>1 DEF IdsOK, SidsUnique, Taken
    <3>3. \A a \in DOMAIN servers : a # b => servers[a].sid # server.sid
      BY <2>2, <3>1 DEF IdsOK, SidsUnique
    <3> QED BY <2>2, <3>1, <3>2, <3>3 DEF IdsOK
  <2> QED BY <2>1, <2>2
<1> HIDE DEF server
<1>3. CASE ~HasUser(key)
  <2>1. /\ servers' = With(servers, b, Host(server))
        /\ vu_cache' = With(vu_cache, key, NextUid(server))
    BY <1>1, <1>3 DEF server
  <2>2. \A l \in DOMAIN vu_cache : vu_cache[l] # NextUid(server)
    BY <1>2, NextUidFresh
  <2>3. Hosts(b, key, Host(server), NextUid(server))
    BY <1>2, <1>3, <2>1, <2>2, HostNext DEF Hosts, HasUser
  <2> QED BY <2>3
<1>4. CASE HasUser(key)
  <2>1. servers' = With(servers, b, server) /\ vu_cache' = With(vu_cache, key, vu_cache[key])
    BY <1>1, <1>4 DEF server
  <2>2. key \in DOMAIN vu_cache /\ key[1] = b
    BY <1>4 DEF HasUser
  <2>3. b \in DOMAIN servers /\ vu_cache[key] \in servers[b].users
    BY <2>2 DEF IdsOK, UidsUnique
  <2>4. vu_cache[key] \in Uids
    BY <2>2, CacheEntry
  <2>5. \A l \in DOMAIN vu_cache : vu_cache[l] = vu_cache[key] => l = key
    BY <2>2 DEF IdsOK, UidsUnique
  <2> HIDE DEF b, key
  <2>6. Hosts(b, key, server, vu_cache[key])
    BY <1>2, <2>1, <2>2, <2>3, <2>4, <2>5 DEF Hosts
  <2> QED BY <2>6 DEF b, key
<1> QED BY <1>3, <1>4

-----------------------------------------------------------------------------
(* The invariant is inductive: the identities.                             *)

\* Hosting keeps the identities apart.
LEMMA HostsIds ==
  ASSUME VirtualOK, IdsOK, NEW b \in Bridges, NEW p \in Senders,
         NEW s, NEW x, Hosts(b, <<b, p>>, s, x)
  PROVE  VirtualOK' /\ IdsOK'
<1> DEFINE key == <<b, p>>
<1>1. /\ s \in Server /\ x \in Uids
      /\ servers' = With(servers, b, s) /\ vu_cache' = With(vu_cache, key, x)
      /\ Counted(s) /\ x \in s.users
      /\ s.sid # OwnSid
      /\ \A a \in DOMAIN servers : a # b => servers[a].sid # s.sid
      /\ b \in DOMAIN servers => servers[b].users \subseteq s.users
      /\ \A l \in DOMAIN vu_cache : vu_cache[l] = x => l = key
  BY DEF Hosts
<1>2. /\ DOMAIN servers' = DOMAIN servers \cup {b} /\ servers'[b] = s
      /\ \A a \in DOMAIN servers : a # b => servers'[a] = servers[a]
  BY <1>1 DEF With
<1>3. /\ DOMAIN vu_cache' = DOMAIN vu_cache \cup {key} /\ vu_cache'[key] = x
      /\ \A l \in DOMAIN vu_cache : l # key => vu_cache'[l] = vu_cache[l]
  <2> HIDE DEF key
  <2> QED BY <1>1 DEF With
<1>4. VirtualOK'
  <2>1. key \in Bridges \X Senders
    OBVIOUS
  <2> HIDE DEF key
  <2> QED BY <1>1, <2>1, WithType DEF VirtualOK
<1>5. \A a \in DOMAIN servers' : Counted(servers'[a])
  BY <1>1, <1>2 DEF IdsOK, Counted
<1>6. SidsUnique'
  BY <1>1, <1>2 DEF IdsOK, SidsUnique, Taken
<1>7. UidsUnique'
  <2>1. \A l \in DOMAIN vu_cache :
          l[1] \in DOMAIN servers /\ vu_cache[l] \in servers[l[1]].users
    BY DEF IdsOK, UidsUnique
  <2>2. \A l \in DOMAIN vu_cache' :
          l[1] \in DOMAIN servers' /\ vu_cache'[l] \in servers'[l[1]].users
    <3>1. key[1] = b
      OBVIOUS
    <3> HIDE DEF key
    <3> QED BY <1>1, <1>2, <1>3, <2>1, <3>1
  <2>3. \A k, l \in DOMAIN vu_cache' : vu_cache'[k] = vu_cache'[l] => k = l
    <3> HIDE DEF key
    <3> QED BY <1>1, <1>3 DEF IdsOK, UidsUnique
  <2> QED BY <2>2, <2>3 DEF UidsUnique
<1>8. (\A a \in DOMAIN servers : Counted(servers[a]))'
  BY <1>5 DEF Counted
<1> QED BY <1>4, <1>6, <1>7, <1>8 DEF IdsOK

\* Delivering a message keeps the types and the identities.
LEMMA DeliverIds ==
  ASSUME VirtualOK, IdsOK, NEW m \in Message, Deliver(m)
  PROVE  VirtualOK' /\ IdsOK'
<1>1. PICK s, x : Hosts(m.bridge, <<m.bridge, m.sender>>, s, x)
  BY DeliverHosts
<1>2. m.bridge \in Bridges /\ m.sender \in Senders
  BY DEF Message
<1> QED BY <1>1, <1>2, HostsIds

\* Servers and users that do not change keep what holds of them.
LEMMA SameIds ==
  ASSUME VirtualOK, IdsOK, UNCHANGED virtual
  PROVE  VirtualOK' /\ IdsOK'
BY DEF virtual, VirtualOK, IdsOK, Counted, SidsUnique, Taken, UidsUnique, IsTable

\* The daemon's death ends them all.
LEMMA DieIds ==
  ASSUME Die
  PROVE  VirtualOK' /\ IdsOK'
<1>1. servers' = NoFunction /\ vu_cache' = NoFunction
  BY DEF Die
<1>2. VirtualOK'
  BY <1>1, NoFunctionType DEF VirtualOK
<1>3. DOMAIN servers' = {} /\ DOMAIN vu_cache' = {}
  BY <1>1 DEF NoFunction
<1> QED BY <1>2, <1>3 DEF IdsOK, Counted, SidsUnique, Taken, UidsUnique

-----------------------------------------------------------------------------
(* The invariant is inductive: tables and resources.                       *)

Resources == ConfigOK /\ ResourcesFollowTable

\* ensure_link and the like leave the types alone and, for a bridge that is
\* enabled in the table, hold open what the table says.
LEMMA EnsureResources ==
  ASSUME ConfigOK, NEW b \in Bridges, NEW kind \in {"link", "relay"}, Ensure(b, kind)
  PROVE  /\ relays' \subseteq Bridges /\ IsTable(links', Bridges, BOOLEAN)
         /\ relays' = IF kind = "relay" THEN relays \cup {b} ELSE relays
         /\ DOMAIN links' \subseteq IF kind = "link" THEN DOMAIN links \cup {b} ELSE DOMAIN links
<1>1. CASE kind = "relay"
  BY <1>1 DEF Ensure, ConfigOK
<1>2. CASE kind = "link"
  <2>1. /\ IsTable(With(links, b, TRUE), Bridges, BOOLEAN)
        /\ IsTable(With(links, b, FALSE), Bridges, BOOLEAN)
    BY WithType DEF ConfigOK
  <2>2. links' \in {links, With(links, b, TRUE), With(links, b, FALSE)}
    BY <1>2 DEF Ensure
  <2>3. IsTable(links', Bridges, BOOLEAN)
    BY <2>1, <2>2 DEF ConfigOK
  <2>4. DOMAIN links' \subseteq DOMAIN links \cup {b}
    BY <2>2 DEF With
  <2> QED BY <1>2, <2>3, <2>4 DEF Ensure, ConfigOK
<1> QED BY <1>1, <1>2

\* Giving up a bridge's resources.
LEMMA ReleaseResources ==
  ASSUME ConfigOK, NEW b, Release(b)
  PROVE  /\ relays' \subseteq Bridges /\ IsTable(links', Bridges, BOOLEAN)
         /\ relays' = relays \ {b} /\ DOMAIN links' = DOMAIN links \ {b}
<1>1. IsTable(links', Bridges, BOOLEAN)
  BY WithoutType DEF Release, ConfigOK
<1>2. DOMAIN links' = DOMAIN links \ {b}
  BY DEF Release, Without, Restrict
<1> QED BY <1>1, <1>2 DEF Release, ConfigOK

\* The enabled bridges of a kind, when the row of one bridge changes.
LEMMA EnabledWith ==
  ASSUME NEW f, NEW b, NEW row, NEW kind
  PROVE  Enabled(With(f, b, row), kind) =
           (Enabled(f, kind) \ {b}) \cup (IF row.enabled /\ row.kind = kind THEN {b} ELSE {})
BY DEF Enabled, With

\* The same, when the row goes.
LEMMA EnabledWithout ==
  ASSUME NEW f, NEW b, NEW kind
  PROVE  Enabled(Without(f, b), kind) = Enabled(f, kind) \ {b}
BY DEF Enabled, Without, Restrict

\* LINK, DISCORD and SIGNAL open what the new row calls for.
LEMMA AddResources ==
  ASSUME Resources, NEW b \in Bridges, NEW kind \in {"link", "relay"}, Add(b, kind)
  PROVE  Resources'
<1> DEFINE row == [kind |-> kind, enabled |-> TRUE]
<1>1. /\ running /\ b \notin DOMAIN bridges /\ Ensure(b, kind)
      /\ rows' = With(rows, b, row) /\ bridges' = With(bridges, b, row)
      /\ UNCHANGED <<running, mapped, uplink, orphan>>
  BY DEF Add, irc
<1>2. row \in Row /\ row.enabled /\ row.kind = kind
  BY DEF Row
<1> HIDE DEF row
<1>3. IsTable(rows', Bridges, Row) /\ IsTable(bridges', Bridges, Row)
  BY <1>1, <1>2, WithType DEF Resources, ConfigOK
<1>4. /\ relays' \subseteq Bridges /\ IsTable(links', Bridges, BOOLEAN)
      /\ relays' = IF kind = "relay" THEN relays \cup {b} ELSE relays
      /\ DOMAIN links' \subseteq IF kind = "link" THEN DOMAIN links \cup {b} ELSE DOMAIN links
  BY <1>1, EnsureResources DEF Resources
<1>5. ConfigOK'
  BY <1>1, <1>3, <1>4 DEF Resources, ConfigOK
<1>6. \A k : b \notin Enabled(rows, k)
  BY <1>1 DEF Resources, ResourcesFollowTable, Enabled
<1>7. \A k : Enabled(rows', k) = (Enabled(rows, k) \ {b}) \cup (IF kind = k THEN {b} ELSE {})
  BY <1>1, <1>2, EnabledWith
<1>8. ResourcesFollowTable'
  <2>1. bridges' = rows'
    BY <1>1 DEF Resources, ResourcesFollowTable
  <2>2. relays' = Enabled(rows', "relay")
    BY <1>1, <1>4, <1>6, <1>7 DEF Resources, ResourcesFollowTable
  <2>3. DOMAIN links' \subseteq Enabled(rows', "link")
    BY <1>1, <1>4, <1>6, <1>7 DEF Resources, ResourcesFollowTable
  <2>4. (bridges = rows /\ relays = Enabled(rows, "relay")
           /\ DOMAIN links \subseteq Enabled(rows, "link"))'
    BY <2>1, <2>2, <2>3 DEF Enabled
  <2> QED BY <2>4 DEF ResourcesFollowTable
<1> QED BY <1>5, <1>8 DEF Resources

\* DEL closes what the row called for.
LEMMA RemoveResources ==
  ASSUME Resources, NEW b \in Bridges, Remove(b)
  PROVE  Resources'
<1>1. /\ running /\ rows' = Without(rows, b) /\ mapped' = Unmapped(b)
      /\ UNCHANGED <<running, uplink, orphan>>
  BY DEF Remove, irc
<1>2. bridges = rows
  BY <1>1 DEF Resources, ResourcesFollowTable
<1>3. IsTable(rows', Bridges, Row)
  BY <1>1, WithoutType DEF Resources, ConfigOK
<1>4. IsTable(mapped', Bridges \X Channels, Remotes)
  <2>1. /\ DOMAIN mapped \subseteq Bridges \X Channels
        /\ mapped \in [DOMAIN mapped -> Remotes]
    BY IsTableElim DEF Resources, ConfigOK
  <2> DEFINE K == {k \in DOMAIN mapped : k[1] # b}
  <2>2. mapped' \in [K -> Remotes]
    BY <1>1, <2>1 DEF Unmapped, Restrict
  <2>3. K \in SUBSET (Bridges \X Channels)
    BY <2>1
  <2> HIDE DEF K
  <2> QED BY <2>2, <2>3, IsTableIntro
<1>5. \A k : Enabled(rows', k) = Enabled(rows, k) \ {b}
  BY <1>1, EnabledWithout
<1>6. CASE b \in DOMAIN bridges
  <2>1. bridges' = rows' /\ Release(b)
    BY <1>1, <1>2, <1>6 DEF Remove
  <2>2. /\ relays' \subseteq Bridges /\ IsTable(links', Bridges, BOOLEAN)
        /\ relays' = relays \ {b} /\ DOMAIN links' = DOMAIN links \ {b}
    BY <2>1, ReleaseResources DEF Resources
  <2>3. ConfigOK'
    BY <1>1, <1>3, <1>4, <2>1, <2>2 DEF Resources, ConfigOK
  <2>4. relays' = Enabled(rows', "relay") /\ DOMAIN links' \subseteq Enabled(rows', "link")
    BY <1>1, <1>5, <2>2 DEF Resources, ResourcesFollowTable
  <2> QED BY <2>1, <2>3, <2>4 DEF Resources, ResourcesFollowTable, Enabled
<1>7. CASE b \notin DOMAIN bridges
  <2>1. UNCHANGED <<bridges, links, relays>>
    BY <1>7 DEF Remove
  <2>2. rows' = rows
    <3>1. rows \in [DOMAIN rows -> Row] /\ b \notin DOMAIN rows
      BY <1>2, <1>7, IsTableElim DEF Resources, ConfigOK
    <3> QED BY <1>1, <3>1 DEF Without, Restrict
  <2>3. ConfigOK'
    BY <1>1, <1>3, <1>4, <2>1 DEF Resources, ConfigOK
  <2> QED BY <1>1, <2>1, <2>2, <2>3 DEF Resources, ResourcesFollowTable, Enabled
<1> QED BY <1>6, <1>7

\* ENABLE and DISABLE keep the table, the list and the resources in step.
LEMMA SetEnabledResources ==
  ASSUME Resources, NEW b \in Bridges, NEW on \in BOOLEAN, SetEnabled(b, on)
  PROVE  Resources'
<1>1. /\ running /\ b \in DOMAIN bridges /\ bridges = rows
      /\ rows' = [rows EXCEPT ![b].enabled = on]
      /\ bridges' = [bridges EXCEPT ![b].enabled = on]
      /\ UNCHANGED <<running, mapped, uplink, orphan>>
  BY DEF SetEnabled, irc, Resources, ResourcesFollowTable
<1>2. rows \in [DOMAIN rows -> Row] /\ DOMAIN rows \subseteq Bridges
  BY IsTableElim DEF Resources, ConfigOK
<1>3. rows[b] \in Row /\ rows[b].kind \in {"link", "relay"}
  BY <1>1, <1>2 DEF Row
<1> DEFINE row == [kind |-> rows[b].kind, enabled |-> on]
<1>4. row \in Row /\ row.kind = rows[b].kind /\ row.enabled = on
  BY <1>3 DEF Row
<1>5. rows' = [rows EXCEPT ![b] = row]
  <2>1. [rows[b] EXCEPT !.enabled = on] = row
    BY <1>3 DEF Row
  <2>2. rows' = [rows EXCEPT ![b] = [rows[b] EXCEPT !.enabled = on]]
    BY <1>1
  <2> QED BY <2>1, <2>2
<1> HIDE DEF row
<1>6. IsTable(rows', Bridges, Row) /\ bridges' = rows'
  <2>1. IsTable([rows EXCEPT ![b] = row], Bridges, Row)
    BY <1>4, ExceptType DEF Resources, ConfigOK
  <2> QED BY <1>1, <1>5, <2>1
<1>7. \A k : Enabled(rows', k) =
               (Enabled(rows, k) \ {b}) \cup (IF on /\ rows[b].kind = k THEN {b} ELSE {})
  BY <1>1, <1>2, <1>4, <1>5 DEF Enabled
<1>8. CASE on
  <2>1. Ensure(b, rows[b].kind)
    BY <1>1, <1>8 DEF SetEnabled
  <2>2. /\ relays' \subseteq Bridges /\ IsTable(links', Bridges, BOOLEAN)
        /\ relays' = IF rows[b].kind = "relay" THEN relays \cup {b} ELSE relays
        /\ DOMAIN links' \subseteq IF rows[b].kind = "link" THEN DOMAIN links \cup {b}
                                  ELSE DOMAIN links
    BY <1>3, <2>1, EnsureResources DEF Resources
  <2>3. ConfigOK'
    BY <1>1, <1>6, <2>2 DEF Resources, ConfigOK
  <2>4. \A k : b \in Enabled(rows, k) => k = rows[b].kind
    BY DEF Enabled
  <2>5. relays = Enabled(rows, "relay") /\ DOMAIN links \subseteq Enabled(rows, "link")
    BY <1>1 DEF Resources, ResourcesFollowTable
  <2>6. relays' = Enabled(rows', "relay")
    BY <1>3, <1>7, <1>8, <2>2, <2>4, <2>5
  <2>7. DOMAIN links' \subseteq Enabled(rows', "link")
    BY <1>3, <1>7, <1>8, <2>2, <2>4, <2>5
  <2> QED BY <1>6, <2>3, <2>6, <2>7 DEF Resources, ResourcesFollowTable, Enabled
<1>9. CASE ~on
  <2>1. Release(b)
    BY <1>9 DEF SetEnabled
  <2>2. /\ relays' \subseteq Bridges /\ IsTable(links', Bridges, BOOLEAN)
        /\ relays' = relays \ {b} /\ DOMAIN links' = DOMAIN links \ {b}
    BY <2>1, ReleaseResources DEF Resources
  <2>3. ConfigOK'
    BY <1>1, <1>6, <2>2 DEF Resources, ConfigOK
  <2>4. relays' = Enabled(rows', "relay") /\ DOMAIN links' \subseteq Enabled(rows', "link")
    BY <1>1, <1>7, <1>9, <2>2 DEF Resources, ResourcesFollowTable
  <2> QED BY <1>6, <2>3, <2>4 DEF Resources, ResourcesFollowTable, Enabled
<1> QED BY <1>8, <1>9

\* The other commands, and the loss of a link.
LEMMA MapResources ==
  ASSUME Resources, NEW b \in Bridges, NEW c \in Channels,
         Unmap(b, c) \/ \E r \in Remotes : Map(b, c, r)
  PROVE  Resources'
<1>1. UNCHANGED <<running, uplink, orphan, rows, bridges, links, relays>>
  BY DEF Unmap, Map, irc
<1>2. IsTable(mapped', Bridges \X Channels, Remotes)
  <2>1. /\ IsTable(Without(mapped, <<b, c>>), Bridges \X Channels, Remotes)
        /\ \A r \in Remotes : IsTable(With(mapped, <<b, c>>, r), Bridges \X Channels, Remotes)
    BY WithType, WithoutType DEF Resources, ConfigOK
  <2> QED BY <2>1 DEF Unmap, Map
<1> QED BY <1>1, <1>2 DEF Resources, ConfigOK, ResourcesFollowTable, Enabled

\* A lost link keeps its entry.
LEMMA LinkLostResources ==
  ASSUME Resources, NEW b \in Bridges, LinkLost(b)
  PROVE  Resources'
<1>1. UNCHANGED <<running, uplink, orphan, rows, bridges, mapped, relays>>
  BY DEF LinkLost, irc
<1>2. links' = [links EXCEPT ![b] = FALSE]
  BY DEF LinkLost
<1>3. IsTable(links', Bridges, BOOLEAN)
  <2>1. IsTable([links EXCEPT ![b] = FALSE], Bridges, BOOLEAN)
    BY ExceptType DEF Resources, ConfigOK
  <2> QED BY <1>2, <2>1
<1>4. DOMAIN links' = DOMAIN links
  BY <1>2
<1> QED BY <1>1, <1>3, <1>4 DEF Resources, ConfigOK, ResourcesFollowTable, Enabled

\* Death leaves the tables only.
LEMMA DieResources ==
  ASSUME Resources, Die, IsTable(rows', Bridges, Row),
         IsTable(mapped', Bridges \X Channels, Remotes)
  PROVE  Resources'
<1>1. IsTable(bridges', Bridges, Row) /\ IsTable(links', Bridges, BOOLEAN)
  BY NoFunctionType DEF Die
<1> QED BY <1>1 DEF Die, Resources, ConfigOK, ResourcesFollowTable

\* load opens what the table calls for.
LEMMA RestartResources ==
  ASSUME Resources, Restarts
  PROVE  Resources'
<1>1. rows \in [DOMAIN rows -> Row] /\ DOMAIN rows \subseteq Bridges
  BY IsTableElim DEF Resources, ConfigOK
<1>2. /\ running' = TRUE /\ bridges' = rows /\ relays' = Enabled(rows, "relay")
      /\ UNCHANGED <<rows, mapped, uplink, orphan>>
  BY DEF Restarts, irc
<1>3. PICK D \in SUBSET Enabled(rows, "link") : links' \in [D -> BOOLEAN]
  BY DEF Restarts
<1>4. Enabled(rows, "link") \subseteq Bridges /\ Enabled(rows, "relay") \subseteq Bridges
  BY <1>1 DEF Enabled
<1>5. IsTable(links', Bridges, BOOLEAN) /\ DOMAIN links' = D
  BY <1>3, <1>4, IsTableIntro
<1> QED BY <1>2, <1>3, <1>4, <1>5 DEF Resources, ConfigOK, ResourcesFollowTable, Enabled

-----------------------------------------------------------------------------
(* The invariant is inductive: all of it.                                  *)

\* The types of the queue and of what the ircd knows.
LEMMA QueueStep ==
  ASSUME IInv, Next
  PROVE  QueueOK'
<1>1. QueueOK /\ VirtualOK
  BY TypeParts DEF IInv
<1>2. ASSUME NEW b \in Bridges, NEW kind \in {"link", "relay"}, Add(b, kind) PROVE QueueOK'
  BY <1>1, <1>2 DEF Add, QueueOK, irc
<1>3. ASSUME NEW b \in Bridges, NEW on \in BOOLEAN, SetEnabled(b, on) PROVE QueueOK'
  BY <1>1, <1>3 DEF SetEnabled, QueueOK, irc
<1>4. ASSUME NEW b \in Bridges, NEW c \in Channels,
             Unmap(b, c) \/ \E r \in Remotes : Map(b, c, r)
      PROVE  QueueOK'
  BY <1>1, <1>4 DEF Unmap, Map, QueueOK, irc
<1>5. ASSUME NEW b \in Bridges, Remove(b) \/ LinkLost(b) PROVE QueueOK'
  BY <1>1, <1>5 DEF Remove, LinkLost, QueueOK, irc
<1>6. ASSUME Die PROVE QueueOK'
  BY <1>1, <1>6 DEF Die, QueueOK
<1>7. CASE RunDeferred
  <2>1. deferred' \in Seq(Message) /\ Head(deferred) \in Message
    BY <1>1, <1>7 DEF RunDeferred, QueueOK
  <2>2. CASE IsMapped(Head(deferred))
    <3> DEFINE m == Head(deferred)
               b == m.bridge
               key == <<b, m.sender>>
    <3>1. Deliver(m)
      BY <1>7, <2>2 DEF RunDeferred
    <3>2. PICK sid \in ChooseSid :
            LET server == IF b \notin DOMAIN servers THEN NewServer(sid) ELSE servers[b]
                uid == IF ~HasUser(key) THEN NextUid(server) ELSE vu_cache[key]
            IN  Tells((IF b \notin DOMAIN servers THEN {sid} ELSE {})
                        \cup (IF ~HasUser(key) THEN {uid} ELSE {}), {server.sid, uid})
      BY <3>1 DEF Deliver
    <3> DEFINE server == IF b \notin DOMAIN servers THEN NewServer(sid) ELSE servers[b]
    <3>3. sid \in Sids
      BY BridgeAssumption DEF ChooseSid, Free
    <3>4. server \in Server
      BY <1>1, <3>3, ServerRecord DEF NewServer, Server
    <3>5. NextUid(server) \in Uids
      BY <3>4 DEF NextUid, Server, Uids
    <3>6. known' \subseteq known \cup {sid, NextUid(server)}
      BY <3>2 DEF Tells
    <3> QED BY <1>1, <2>1, <3>3, <3>5, <3>6 DEF QueueOK
  <2>3. CASE ~IsMapped(Head(deferred))
    BY <1>1, <1>7, <2>1, <2>3 DEF RunDeferred, QueueOK
  <2> QED BY <2>2, <2>3
<1>8. ASSUME NEW m \in Message, PlatformMessage(m) PROVE QueueOK'
  BY <1>1, <1>8 DEF PlatformMessage, QueueOK, irc
<1>9. CASE UplinkUp \/ UplinkDrops \/ Restarts
  BY <1>1, <1>9 DEF UplinkUp, UplinkDrops, Restarts, QueueOK, irc
<1> QED BY <1>2, <1>3, <1>4, <1>5, <1>6, <1>7, <1>8, <1>9
        DEF Next, Manager, RemoveCutShort, Killed

\* The types and identities of virtual servers and users.
LEMMA IdsStep ==
  ASSUME IInv, Next
  PROVE  VirtualOK' /\ IdsOK'
<1>1. VirtualOK /\ IdsOK /\ deferred \in Seq(Message)
  BY TypeParts DEF IInv, QueueOK
<1>2. CASE Manager
  <2>1. CASE \E b \in Bridges : RemoveCutShort(b)
    BY <2>1, DieIds DEF RemoveCutShort
  <2>2. CASE ~\E b \in Bridges : RemoveCutShort(b)
    BY <1>1, <1>2, <2>2, SameIds
       DEF Manager, Add, SetEnabled, Unmap, Map, Remove, LinkLost
  <2> QED BY <2>1, <2>2
<1>3. CASE RunDeferred
  <2>1. Head(deferred) \in Message
    BY <1>1, <1>3 DEF RunDeferred
  <2>2. Deliver(Head(deferred)) \/ UNCHANGED virtual
    BY <1>3 DEF RunDeferred
  <2> QED BY <1>1, <2>1, <2>2, SameIds, DeliverIds
<1>4. CASE (\E m \in Message : PlatformMessage(m)) \/ UplinkUp \/ UplinkDrops \/ Restarts
  BY <1>1, <1>4, SameIds DEF PlatformMessage, UplinkUp, UplinkDrops, Restarts
<1>5. CASE Killed
  BY <1>5, DieIds DEF Killed
<1> QED BY <1>2, <1>3, <1>4, <1>5 DEF Next

\* The tables and what is held open for them.
LEMMA ResourcesStep ==
  ASSUME IInv, Next
  PROVE  Resources'
<1>1. Resources
  BY TypeParts DEF IInv, Resources
<1>2. IsTable(rows, Bridges, Row) /\ IsTable(mapped, Bridges \X Channels, Remotes)
  BY <1>1 DEF Resources, ConfigOK
<1>3. CASE Manager
  <2>1. PICK b \in Bridges :
          \/ \E kind \in {"link", "relay"} : Add(b, kind)
          \/ \E on \in BOOLEAN : SetEnabled(b, on)
          \/ \E c \in Channels : Unmap(b, c) \/ \E r \in Remotes : Map(b, c, r)
          \/ Remove(b) \/ RemoveCutShort(b) \/ LinkLost(b)
    BY <1>3 DEF Manager
  <2>2. CASE RemoveCutShort(b)
    <3>1. rows' = Without(rows, b) /\ mapped' = mapped /\ Die
      BY <2>2 DEF RemoveCutShort
    <3>2. IsTable(rows', Bridges, Row)
      BY <1>2, <3>1, WithoutType
    <3> QED BY <1>1, <1>2, <3>1, <3>2, DieResources
  <2> QED BY <1>1, <2>1, <2>2, AddResources, SetEnabledResources, MapResources,
             RemoveResources, LinkLostResources
<1>4. CASE RunDeferred \/ (\E m \in Message : PlatformMessage(m)) \/ UplinkUp \/ UplinkDrops
  <2>1. /\ UNCHANGED <<running, rows, mapped, bridges, links, relays>>
        /\ uplink' \in BOOLEAN /\ orphan' \in BOOLEAN
    BY <1>1, <1>4 DEF Resources, ConfigOK, RunDeferred, Deliver, Tells,
                      PlatformMessage, UplinkUp, UplinkDrops, irc
  <2> QED BY <1>1, <2>1 DEF Resources, ConfigOK, ResourcesFollowTable, Enabled
<1>5. CASE Killed
  BY <1>1, <1>2, <1>5, DieResources DEF Killed
<1>6. CASE Restarts
  BY <1>1, <1>6, RestartResources
<1> QED BY <1>3, <1>4, <1>5, <1>6 DEF Next

-----------------------------------------------------------------------------
(* The theorems.                                                           *)

\* The invariant holds at the start.
LEMMA InitIInv == Init => IInv
<1> SUFFICES ASSUME Init PROVE IInv
  OBVIOUS
<1>1. ConfigOK /\ VirtualOK /\ QueueOK
  <2>1. /\ IsTable(NoFunction, Bridges, Row) /\ IsTable(NoFunction, Bridges, BOOLEAN)
        /\ IsTable(NoFunction, Bridges \X Channels, Remotes)
    BY NoFunctionType
  <2>2. /\ IsTable(NoFunction, Bridges, Server)
        /\ IsTable(NoFunction, Bridges \X Senders, Uids)
    BY NoFunctionType
  <2>3. <<>> \in Seq(Message)
    OBVIOUS
  <2> QED BY <2>1, <2>2, <2>3 DEF Init, ConfigOK, VirtualOK, QueueOK
<1>2. DOMAIN NoFunction = {}
  BY DEF NoFunction
<1>3. ResourcesFollowTable
  BY <1>2 DEF Init, ResourcesFollowTable, Enabled
<1>4. IdsOK
  BY <1>2 DEF Init, IdsOK, SidsUnique, Taken, UidsUnique
<1> QED BY <1>1, <1>3, <1>4, TypeParts DEF IInv

\* Every step keeps it.
LEMMA NextIInv == IInv /\ [Next]_vars => IInv'
<1> SUFFICES ASSUME IInv, [Next]_vars PROVE IInv'
  OBVIOUS
<1>1. CASE Next
  BY <1>1, QueueStep, IdsStep, ResourcesStep, TypePartsNext DEF IInv, Resources
<1>2. CASE UNCHANGED vars
  BY <1>2 DEF vars, IInv, TypeOK, IsTable, ResourcesFollowTable, Enabled,
              IdsOK, Counted, SidsUnique, Taken, UidsUnique
<1> QED BY <1>1, <1>2

\* Every reachable state has it.
THEOREM BridgeInvariant == Spec => []IInv
<1> QED BY InitIInv, NextIInv, PTL DEF Spec

\* The tables, the manager's maps and the queue have their types.
THEOREM BridgeTypeOK == Spec => []TypeOK
<1>1. IInv => TypeOK
  BY DEF IInv
<1> QED BY <1>1, BridgeInvariant, PTL

\* No sequence of commands, lost links, deaths and restarts leaves a relay or
\* a link that the table does not call for, or an enabled relay shut.
THEOREM BridgeResources == Spec => []ResourcesFollowTable
<1>1. IInv => ResourcesFollowTable
  BY DEF IInv
<1> QED BY <1>1, BridgeInvariant, PTL

\* The virtual servers' SIDs are distinct and none is the daemon's own.
THEOREM BridgeSids == Spec => []SidsUnique
<1>1. IInv => SidsUnique
  BY DEF IInv, IdsOK
<1> QED BY <1>1, BridgeInvariant, PTL

\* No two people share a uid, and each is a user of the bridge's server.
THEOREM BridgeUids == Spec => []UidsUnique
<1>1. IInv => UidsUnique
  BY DEF IInv, IdsOK
<1> QED BY <1>1, BridgeInvariant, PTL

\* A person keeps the uid as long as the daemon lives.
THEOREM BridgeIdentities == Spec => IdentitiesLast
<1> DEFINE Kept == running' => \A k \in DOMAIN vu_cache :
                     k \in DOMAIN vu_cache' /\ vu_cache'[k] = vu_cache[k]
<1>1. IInv /\ [Next]_vars => [Kept]_vars
  <2> SUFFICES ASSUME IInv, Next PROVE Kept
    OBVIOUS
  <2>1. VirtualOK /\ IdsOK /\ deferred \in Seq(Message)
    BY TypeParts DEF IInv, QueueOK
  <2>2. CASE RunDeferred
    <3>1. Head(deferred) \in Message
      BY <2>1, <2>2 DEF RunDeferred
    <3>2. CASE Deliver(Head(deferred))
      <4> DEFINE key == <<Head(deferred).bridge, Head(deferred).sender>>
      <4>1. PICK s, x : Hosts(Head(deferred).bridge, key, s, x)
        BY <2>1, <3>1, <3>2, DeliverHosts
      <4>2. vu_cache' = With(vu_cache, key, x) /\ (key \in DOMAIN vu_cache => x = vu_cache[key])
        BY <4>1 DEF Hosts
      <4> HIDE DEF key
      <4> QED BY <4>2 DEF With
    <3>3. CASE UNCHANGED vu_cache
      BY <3>3
    <3> QED BY <2>2, <3>2, <3>3 DEF RunDeferred, virtual
  <2>3. CASE UNCHANGED vu_cache \/ running' = FALSE
    BY <2>3
  <2>4. CASE Manager
    BY <2>3, <2>4 DEF Manager, Add, SetEnabled, Unmap, Map, Remove, RemoveCutShort,
                      LinkLost, Die, virtual
  <2>5. CASE (\E m \in Message : PlatformMessage(m)) \/ UplinkUp \/ UplinkDrops
               \/ Killed \/ Restarts
    BY <2>3, <2>5 DEF PlatformMessage, UplinkUp, UplinkDrops, Killed, Die, Restarts, virtual
  <2> QED BY <2>2, <2>4, <2>5 DEF Next
<1> QED BY <1>1, BridgeInvariant, PTL DEF Spec, IdentitiesLast
=============================================================================
