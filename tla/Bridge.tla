------------------------------- MODULE Bridge -------------------------------
(***************************************************************************)
(* Bridges: the manager with its two tables, its links and its native      *)
(* platform relays, and the virtual servers and users through which what   *)
(* is said on a platform reaches IRC (src/bridge/bridge.cpp,               *)
(* src/services/bridgeserv.cpp).                                           *)
(*                                                                         *)
(* A BridgeServ command is one callback of the reactor.  A message of a    *)
(* platform is only queued by its callback (call_later) and handled in a   *)
(* later one.  Discord and Signal relays look the same from here; texts,   *)
(* hosts and tokens are left out.                                          *)
(*                                                                         *)
(* A definition X_Slip is a slip in X, kept to show that the properties    *)
(* tell it from the code; nothing here uses it.                            *)
(***************************************************************************)
EXTENDS Naturals, FiniteSets, Sequences, Tables

CONSTANTS
  Bridges,               \* names of bridges
  Channels,              \* IRC channels
  Remotes,               \* channels and groups of the platforms
  Senders,               \* people on the platforms
  Sids, OwnSid,          \* the SIDs add_virtual_server tries, and our own
  LastResort,            \* the SID it takes when none is free
  MaxQueue               \* bound: deferred messages

ASSUME BridgeAssumption ==
  /\ IsFiniteSet(Bridges) /\ IsFiniteSet(Sids)
  /\ Cardinality(Bridges) < Cardinality(Sids)
  /\ LastResort \in Sids
  /\ MaxQueue \in Nat

VARIABLES
  running,               \* is the daemon alive?
  uplink,                \* is the uplink linked?
  rows,                  \* table bridges: name -> kind, enabled
  mapped,                \* table bridge_channels: <<bridge, channel>> -> remote
  bridges,               \* manager::bridges_
  links,                 \* manager::links_: name -> is the link alive?
  relays,                \* the names in manager::discords_ and signals_
  servers,               \* manager::virtual_servers_: name -> sid, next, users
  vu_cache,              \* BridgeServ's vu_cache: <<bridge, sender>> -> uid
  deferred,              \* messages in Reactor::deadlines_
  known,                 \* virtual servers and users the ircd knows
  orphan                 \* has it got a line from one it does not know?

vars == <<running, uplink, rows, mapped, bridges, links, relays, servers,
          vu_cache, deferred, known, orphan>>
virtual == <<servers, vu_cache>>
irc == <<uplink, known, orphan>>

Row == [kind : {"link", "relay"}, enabled : BOOLEAN]
Uids == Sids \X (Nat \ {0})
Server == [sid : Sids, next : Nat \ {0}, users : SUBSET Uids]
Message == [bridge : Bridges, remote : Remotes, sender : Senders]

TypeOK ==
  /\ running \in BOOLEAN /\ uplink \in BOOLEAN /\ orphan \in BOOLEAN
  /\ IsTable(rows, Bridges, Row) /\ IsTable(bridges, Bridges, Row)
  /\ IsTable(mapped, Bridges \X Channels, Remotes)
  /\ IsTable(links, Bridges, BOOLEAN)
  /\ relays \subseteq Bridges
  /\ IsTable(servers, Bridges, Server)
  /\ IsTable(vu_cache, Bridges \X Senders, Uids)
  /\ deferred \in Seq(Message)
  /\ known \subseteq Sids \cup Uids

Init ==
  /\ running = TRUE /\ uplink = FALSE
  /\ rows = NoFunction /\ mapped = NoFunction /\ bridges = NoFunction
  /\ links = NoFunction /\ relays = {}
  /\ servers = NoFunction /\ vu_cache = NoFunction
  /\ deferred = <<>> /\ known = {} /\ orphan = FALSE

-----------------------------------------------------------------------------
(* The manager. *)

\* ensure_link, ensure_discord and ensure_signal: nothing happens when there
\* is an entry already, however dead, or when a link has no secret.
Ensure(b, kind) ==
  IF kind = "relay"
  THEN relays' = relays \cup {b} /\ UNCHANGED links
  ELSE /\ UNCHANGED relays
       /\ links' \in IF b \in DOMAIN links THEN {links}
                     ELSE {links, With(links, b, TRUE), With(links, b, FALSE)}

\* The relay is destroyed; a link is closed and its entry erased.
Release(b) ==
  /\ relays' = relays \ {b}
  /\ links' = Without(links, b)

\* add, by LINK, DISCORD or SIGNAL.
Add(b, kind) ==
  LET row == [kind |-> kind, enabled |-> TRUE] IN
  /\ running /\ uplink
  /\ b \notin DOMAIN bridges
  /\ rows' = With(rows, b, row)
  /\ bridges' = With(bridges, b, row)
  /\ Ensure(b, kind)
  /\ UNCHANGED <<running, mapped, virtual, deferred, irc>>

Unmapped(b) == Restrict(mapped, {k \in DOMAIN mapped : k[1] # b})

\* remove, by DEL.  The virtual server and its users stay.
Remove(b) ==
  /\ running /\ uplink
  /\ rows' = Without(rows, b) /\ mapped' = Unmapped(b)
  /\ IF b \in DOMAIN bridges
     THEN bridges' = Without(bridges, b) /\ Release(b)
     ELSE UNCHANGED <<bridges, links, relays>>
  /\ UNCHANGED <<running, virtual, deferred, irc>>

SetEnabled_OnlyInMemory(b, on) ==
  /\ running /\ uplink
  /\ b \in DOMAIN bridges
  /\ bridges' = [bridges EXCEPT ![b].enabled = on]
  /\ IF on THEN Ensure(b, bridges[b].kind) ELSE Release(b)
  /\ UNCHANGED <<running, rows, mapped, virtual, deferred, irc>>

\* set_enabled, by ENABLE and DISABLE.
SetEnabled(b, on) ==
  /\ running /\ uplink
  /\ b \in DOMAIN bridges
  /\ rows' = [rows EXCEPT ![b].enabled = on]
  /\ bridges' = [bridges EXCEPT ![b].enabled = on]
  /\ IF on THEN Ensure(b, bridges[b].kind) ELSE Release(b)
  /\ UNCHANGED <<running, mapped, virtual, deferred, irc>>

\* MAP replaces the mapping of a channel, and asks for the bridge; UNMAP
\* does not.
Map(b, c, r) ==
  /\ running /\ uplink
  /\ b \in DOMAIN bridges
  /\ mapped' = With(mapped, <<b, c>>, r)
  /\ UNCHANGED <<running, rows, bridges, links, relays, virtual, deferred, irc>>

Unmap(b, c) ==
  /\ running /\ uplink
  /\ mapped' = Without(mapped, <<b, c>>)
  /\ UNCHANGED <<running, rows, bridges, links, relays, virtual, deferred, irc>>

\* A link of a link bridge is lost; it is not one that redials.
LinkLost(b) ==
  /\ b \in DOMAIN links /\ links[b]
  /\ links' = [links EXCEPT ![b] = FALSE]
  /\ UNCHANGED <<running, rows, mapped, bridges, relays, virtual, deferred, irc>>

-----------------------------------------------------------------------------
(* Virtual servers and users. *)

Taken == {servers[b].sid : b \in DOMAIN servers}
Free == Sids \ (Taken \cup {OwnSid})

ChooseSid_OwnToo == IF Sids \ Taken = {} THEN {LastResort} ELSE Sids \ Taken

\* The loop of add_virtual_server ends with a SID that is free, or gives up.
ChooseSid == IF Free = {} THEN {LastResort} ELSE Free

NewServer_FromZero(sid) == [sid |-> sid, next |-> 0, users |-> {}]

NewServer(sid) == [sid |-> sid, next |-> 1, users |-> {}]

\* add_virtual_user: the uid and the server that hosts it.
NextUid(s) == <<s.sid, s.next>>

Host_NotCounted(s) == [s EXCEPT !.users = s.users \cup {NextUid(s)}]

Host(s) == [s EXCEPT !.next = s.next + 1, !.users = s.users \cup {NextUid(s)}]

HasUser_Never(key) == FALSE

HasUser(key) == key \in DOMAIN vu_cache

\* What a linked ircd makes of announcements and of lines that name from.
Tells(new, from) ==
  IF uplink
  THEN /\ known' = known \cup new
       /\ orphan' = (orphan \/ ~(from \subseteq known'))
  ELSE UNCHANGED <<known, orphan>>

\* BridgeServ hands the message to the reactor.
PlatformMessage(m) ==
  /\ running /\ m.bridge \in relays
  /\ Len(deferred) < MaxQueue
  /\ deferred' = Append(deferred, m)
  /\ UNCHANGED <<running, rows, mapped, bridges, links, relays, virtual, irc>>

\* The deferred callback, for a message on a mapped remote: a virtual server
\* if there is none yet, a virtual user likewise, FJOIN and PRIVMSG.
Deliver(m) ==
  \E sid \in ChooseSid :
    LET key == <<m.bridge, m.sender>>
        newServer == m.bridge \notin DOMAIN servers
        newUser == ~HasUser(key)
        server == IF newServer THEN NewServer(sid) ELSE servers[m.bridge]
        uid == IF newUser THEN NextUid(server) ELSE vu_cache[key]
    IN  /\ servers' = With(servers, m.bridge, IF newUser THEN Host(server) ELSE server)
        /\ vu_cache' = With(vu_cache, key, uid)
        /\ Tells((IF newServer THEN {sid} ELSE {}) \cup (IF newUser THEN {uid} ELSE {}),
                 {server.sid, uid})

IsMapped(m) == \E c \in Channels :
                 <<m.bridge, c>> \in DOMAIN mapped /\ mapped[m.bridge, c] = m.remote

RunDeferred ==
  /\ deferred # <<>>
  /\ deferred' = Tail(deferred)
  /\ IF IsMapped(Head(deferred)) THEN Deliver(Head(deferred))
     ELSE UNCHANGED <<virtual, known, orphan>>
  /\ UNCHANGED <<running, uplink, rows, mapped, bridges, links, relays>>

-----------------------------------------------------------------------------
(* The uplink and the process. *)

UplinkUp ==
  /\ running /\ ~uplink
  /\ uplink' = TRUE
  /\ UNCHANGED <<running, rows, mapped, bridges, links, relays, virtual,
                 deferred, known, orphan>>

\* The ircd forgets everything behind the link.
UplinkDrops ==
  /\ uplink
  /\ uplink' = FALSE /\ known' = {}
  /\ UNCHANGED <<running, rows, mapped, bridges, links, relays, virtual,
                 deferred, orphan>>

Die ==
  /\ running' = FALSE
  /\ uplink' = FALSE /\ known' = {} /\ UNCHANGED orphan
  /\ bridges' = NoFunction /\ links' = NoFunction /\ relays' = {}
  /\ servers' = NoFunction /\ vu_cache' = NoFunction /\ deferred' = <<>>

Killed == running /\ Die /\ UNCHANGED <<rows, mapped>>

\* Killed between the two DELETEs of remove.
RemoveCutShort(b) ==
  /\ running /\ uplink /\ b \in DOMAIN bridges
  /\ rows' = Without(rows, b)
  /\ Die
  /\ UNCHANGED mapped

Enabled(table, kind) == {b \in DOMAIN table : table[b].enabled /\ table[b].kind = kind}

\* load.
Restarts ==
  /\ ~running
  /\ running' = TRUE
  /\ bridges' = rows
  /\ relays' = Enabled(rows, "relay")
  /\ \E D \in SUBSET Enabled(rows, "link") : links' \in [D -> BOOLEAN]
  /\ UNCHANGED <<rows, mapped, virtual, deferred, irc>>

Manager ==
  \E b \in Bridges :
    \/ \E kind \in {"link", "relay"} : Add(b, kind)
    \/ \E on \in BOOLEAN : SetEnabled(b, on)
    \/ \E c \in Channels : Unmap(b, c) \/ \E r \in Remotes : Map(b, c, r)
    \/ Remove(b) \/ RemoveCutShort(b) \/ LinkLost(b)

Next ==
  \/ Manager
  \/ RunDeferred \/ \E m \in Message : PlatformMessage(m)
  \/ UplinkUp \/ UplinkDrops \/ Killed \/ Restarts

Spec == Init /\ [][Next]_vars

-----------------------------------------------------------------------------
(* Properties. *)

\* What the manager holds open is what the table says, over any sequence of
\* commands and restarts: a platform relay for exactly the enabled rows, and
\* a link for no other.  A relay left behind would go on posting to IRC.
ResourcesFollowTable ==
  running =>
    /\ bridges = rows
    /\ relays = Enabled(rows, "relay")
    /\ DOMAIN links \subseteq Enabled(rows, "link")

\* Virtual servers have SIDs of their own, which are not the daemon's, however
\* bridges come and go (their virtual servers never do).
SidsUnique ==
  /\ OwnSid \notin Taken
  /\ \A a, b \in DOMAIN servers : servers[a].sid = servers[b].sid => a = b

\* A person on a platform is one IRC user: no two share a uid, and the user
\* is on the server of its bridge, so that send_virtual_privmsg finds it.
UidsUnique ==
  \A k, l \in DOMAIN vu_cache :
    /\ vu_cache[k] = vu_cache[l] => k = l
    /\ k[1] \in DOMAIN servers /\ vu_cache[k] \in servers[k[1]].users

\* The identity of a person does not change while the daemon lives, whatever
\* becomes of the bridge and of the uplink.
IdentitiesLast ==
  [][running' => \A k \in DOMAIN vu_cache :
       k \in DOMAIN vu_cache' /\ vu_cache'[k] = vu_cache[k]]_vars

\* bridge.h:5-6: "users appear as virtual UIDs under that server": no line
\* names a server or user that was not announced in this session.
AnnouncedFirst == ~orphan
=============================================================================
