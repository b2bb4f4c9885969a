-------------------------------- MODULE Link --------------------------------
(***************************************************************************)
(* One server-to-server link: svc::irc::link with the BufferedStream it    *)
(* owns, its retry timer, and its entry in the hub's list of links         *)
(* (src/irc/link.cpp, src/net/socket.cpp, src/irc/routing.cpp).            *)
(*                                                                         *)
(* Every action is one callback of the single-threaded reactor, so it is   *)
(* atomic.  A line is abstracted to its kind; what the peer does, and what *)
(* the TCP stack reports, is chosen by the environment.                    *)
(*                                                                         *)
(* A definition X_Slip, like GoDown_NoRetry, is a slip in X, kept to show    *)
(* that the properties tell it from the code; nothing here uses it.        *)
(***************************************************************************)
EXTENDS Naturals, Sequences

CONSTANTS
  RetryMin, RetryMax,    \* link_config.retry_min / retry_max
  Reconnect,             \* link_config.reconnect
  SendTls,               \* link_config.send_tls
  AcceptInbound,         \* may the hub adopt this link instead of dialling it?
  AllowReburst,          \* may an operator use OperServ REBURST?
  RefusedLate,           \* may connect(2) fail after EINPROGRESS?
  PeerInOrder,           \* does the peer follow the InspIRCd handshake?
  MaxFailures,           \* bound: failures in a row before the link gets up
  MaxSent                \* bound: lines queued in one session

ASSUME LinkAssumption ==
  /\ RetryMin \in Nat \ {0} /\ RetryMax \in Nat /\ RetryMin <= RetryMax
  /\ {Reconnect, SendTls, AcceptInbound, AllowReburst, RefusedLate, PeerInOrder}
       \subseteq BOOLEAN
  /\ MaxFailures \in Nat /\ MaxSent \in Nat

VARIABLES
  state,                 \* link::state_
  inbound,               \* link::inbound_
  caps_done,             \* link::caps_done_
  server_sent,           \* link::server_sent_
  burst_sent,            \* link::burst_sent_
  attempts,              \* link::attempts_
  retry_timer,           \* delay of the armed retry timer, 0 for bad_handle
  conn,                  \* BufferedStream::state_; "closed" also before any use
                         \* and when connect() failed at once
  stale,                 \* does tx_ start with bytes of an earlier session?
  unsent,                \* lines of this session still in tx_
  sent,                  \* lines this session has handed to the stream
  heard,                 \* handshake lines the peer has sent in this session
  registered             \* is the link in hub::links_?

vars == <<state, inbound, caps_done, server_sent, burst_sent, attempts,
          retry_timer, conn, stale, unsent, sent, heard, registered>>
flags == <<caps_done, server_sent, burst_sent>>
output == <<stale, unsent, sent>>
timer == <<attempts, retry_timer>>

States == {"idle", "connecting", "nego", "waiting", "burst", "linked", "dying"}
ConnStates == {"connecting", "handshaking", "open", "closed", "error"}
OurLines == {"CAPAB START", "CAPABILITIES", "CAPAB END", "SERVER", "BURST",
             "DATA", "ENDBURST", "PONG", "ERROR"}
PeerHandshake == {"CAPAB START", "CAPABILITIES", "CAPAB END", "SERVER",
                  "BURST", "ENDBURST"}

TypeOK ==
  /\ state \in States
  /\ inbound \in BOOLEAN
  /\ caps_done \in BOOLEAN /\ server_sent \in BOOLEAN /\ burst_sent \in BOOLEAN
  /\ attempts \in Nat
  /\ retry_timer \in {0} \cup RetryMin..RetryMax
  /\ conn \in ConnStates
  /\ stale \in BOOLEAN /\ unsent \in Nat /\ sent \in Seq(OurLines)
  /\ heard \in SUBSET PeerHandshake
  /\ registered \in BOOLEAN

Init ==
  /\ state = "idle" /\ inbound = FALSE
  /\ caps_done = FALSE /\ server_sent = FALSE /\ burst_sent = FALSE
  /\ attempts = 0 /\ retry_timer = 0
  /\ conn = "closed" /\ stale = FALSE /\ unsent = 0 /\ sent = <<>>
  /\ heard = {} /\ registered = FALSE

-----------------------------------------------------------------------------
(* The retry timer. *)

\* The doubling loop of schedule_reconnect after n failed attempts.
Doubled[n \in Nat] ==
  IF n = 0 THEN RetryMin
  ELSE IF Doubled[n - 1] < RetryMax THEN 2 * Doubled[n - 1] ELSE Doubled[n - 1]

RetryDelay_Uncapped(n) == Doubled[n]

\* ... and its cap.  Doubled[n] is never below RetryMin.
RetryDelay(n) ==
  IF Doubled[n] \in RetryMin..RetryMax THEN Doubled[n] ELSE RetryMax

\* cancel_retry, then arm a new timer; links that do not redial return early.
ScheduleReconnect ==
  IF Reconnect /\ ~inbound
  THEN retry_timer' = RetryDelay(attempts) /\ attempts' = attempts + 1
  ELSE UNCHANGED timer

\* Names the bound: everything the environment may break is an attempt, and
\* it breaks at most MaxFailures of them in a row.
FaultAllowed == attempts < MaxFailures

-----------------------------------------------------------------------------
(* Output.  send_line refuses a dying link, BufferedStream::send a stream  *)
(* that is neither open nor in its TLS handshake.                          *)

Takes(st, c) == st # "dying" /\ c \in {"open", "handshaking"}

Queue(lines) ==
  /\ sent' = sent \o lines
  /\ unsent' = unsent + Len(lines)
  /\ UNCHANGED stale

Send(lines) ==
  IF Takes(state, conn) THEN Queue(lines) ELSE UNCHANGED output

CapabLines == <<"CAPABILITIES", "CAPAB END">>
ServerLine == IF server_sent THEN <<>> ELSE <<"SERVER">>
BurstLines == <<"BURST", "DATA", "ENDBURST">>
EnsureBurst == IF burst_sent THEN <<>> ELSE BurstLines

\* The socket accepts bytes from the front of tx_.
Flush ==
  /\ conn = "open"
  /\ stale' = FALSE
  /\ unsent' \in 0..unsent
  /\ stale \/ unsent' < unsent
  /\ UNCHANGED <<state, inbound, flags, timer, conn, sent, heard, registered>>

-----------------------------------------------------------------------------
(* Dialling, and what the transport reports. *)

\* reset_session; tx_ belongs to the stream and is left alone.
ResetSession ==
  /\ caps_done' = FALSE /\ server_sent' = FALSE /\ burst_sent' = FALSE
  /\ stale' = (stale \/ unsent > 0)
  /\ unsent' = 0 /\ sent' = <<>> /\ heard' = {}

Connect_NoRetry ==
  /\ ResetSession
  /\ state' = "connecting"
  /\ retry_timer' = 0 /\ UNCHANGED <<inbound, attempts>>
  /\ conn' = "connecting" \/ (FaultAllowed /\ conn' = "closed")

\* link::connect: the stream is connecting, or failed at once and is retried.
Connect ==
  /\ ResetSession
  /\ state' = "connecting"
  /\ UNCHANGED inbound
  /\ \/ conn' = "connecting" /\ retry_timer' = 0 /\ UNCHANGED attempts
     \/ /\ FaultAllowed
        /\ conn' = "closed"
        /\ IF Reconnect /\ ~inbound
           THEN retry_timer' = RetryDelay(attempts) /\ attempts' = attempts + 1
           ELSE retry_timer' = 0 /\ UNCHANGED attempts

AddUplink ==
  /\ state = "idle"
  /\ registered' = TRUE
  /\ Connect

RetryFires ==
  /\ retry_timer # 0
  /\ UNCHANGED registered
  /\ Connect

\* hub::add_inbound: adopt calls on_transport_ready without waiting for TLS.
AddInbound ==
  /\ AcceptInbound
  /\ state = "idle"
  /\ inbound' = TRUE /\ registered' = TRUE
  /\ state' = "nego"
  /\ conn' = IF SendTls THEN "handshaking" ELSE "open"
  /\ Queue(<<"CAPAB START">>)
  /\ UNCHANGED <<flags, timer, heard>>

TransportReady_NotListed ==
  /\ conn' = "open"
  /\ state' = "nego"
  /\ caps_done' = FALSE
  /\ Queue(<<"CAPAB START">>)
  /\ UNCHANGED <<inbound, server_sent, burst_sent, timer, heard, registered>>

\* on_transport_ready; on_reconnect puts the link back into hub::links_.
TransportReady ==
  /\ conn' = "open"
  /\ state' = "nego" /\ registered' = TRUE
  /\ caps_done' = FALSE
  /\ Queue(<<"CAPAB START">>)
  /\ UNCHANGED <<inbound, server_sent, burst_sent, timer, heard>>

\* check_connect_result with SO_ERROR = 0.
Connected ==
  /\ conn = "connecting"
  /\ IF SendTls
     THEN /\ conn' = "handshaking"
          /\ UNCHANGED <<state, inbound, flags, timer, output, heard, registered>>
     ELSE TransportReady

\* check_connect_result with an error: the stream is put into "error" before
\* handle_close, which returns early for that state, so on_close never fires.
ConnectRefused ==
  /\ RefusedLate
  /\ FaultAllowed
  /\ conn = "connecting"
  /\ conn' = "error"
  /\ UNCHANGED <<state, inbound, flags, timer, output, heard, registered>>

HandshakeDone ==
  /\ conn = "handshaking"
  /\ TransportReady

GoDown_NoRetry ==
  /\ state' = "dying" /\ conn' = "closed"
  /\ registered' = FALSE
  /\ UNCHANGED <<inbound, flags, timer>>

\* The link is lost: link::close, or the stream's on_close.  A TLS stream may
\* still push tx_ through the dead session in the same round of dispatch.
GoDown ==
  /\ state' = "dying" /\ conn' = "closed"
  /\ registered' = FALSE
  /\ ScheduleReconnect
  /\ UNCHANGED <<inbound, flags>>

PushedOut == SendTls /\ stale' = FALSE /\ unsent' = 0

LoseOutput == UNCHANGED <<stale, unsent>> \/ PushedOut

\* The peer, or the TLS handshake, ends the connection.
PeerDrops ==
  /\ conn \in {"handshaking", "open"}
  /\ FaultAllowed
  /\ GoDown
  /\ LoseOutput
  /\ UNCHANGED <<sent, heard>>

-----------------------------------------------------------------------------
(* The peer.  An InspIRCd server follows the handshake; with PeerInOrder   *)
(* FALSE the next line may be anything.                                    *)

Flushed(line) == \E i \in 1..(Len(sent) - unsent) : sent[i] = line

InOrder(line) ==
  LET after(l) == l \in heard IN
  /\ line \notin heard
  /\ line = "CAPABILITIES" => after("CAPAB START")
  /\ line = "CAPAB END" => after("CAPABILITIES")
  /\ line = "SERVER" =>
       after("CAPAB END") /\ Flushed(IF inbound THEN "CAPAB END" ELSE "SERVER")
  /\ line = "BURST" => after("SERVER") /\ Flushed("SERVER")
  /\ line = "ENDBURST" => after("BURST")

\* handle_line sees this line of the peer.
Hears(line) ==
  /\ conn = "open"
  /\ PeerInOrder => InOrder(line)
  /\ heard' = heard \cup {line}

CapabStart_ServerFirst ==
  /\ state = "nego" /\ Hears("CAPAB START")
  /\ caps_done' = TRUE /\ server_sent' = TRUE
  /\ Send(ServerLine \o CapabLines)
  /\ UNCHANGED <<state, inbound, burst_sent, timer, conn, registered>>

CapabStart ==
  /\ state = "nego" /\ Hears("CAPAB START")
  /\ caps_done' = TRUE
  /\ Send(IF caps_done THEN <<>> ELSE CapabLines)
  /\ UNCHANGED <<state, inbound, server_sent, burst_sent, timer, conn, registered>>

Capabilities ==
  /\ state = "nego" /\ Hears("CAPABILITIES")
  /\ UNCHANGED <<state, inbound, flags, timer, conn, output, registered>>

CapabEnd ==
  /\ state = "nego" /\ Hears("CAPAB END")
  /\ IF inbound
     THEN UNCHANGED <<server_sent, output>>
     ELSE server_sent' = TRUE /\ Send(ServerLine)
  /\ UNCHANGED <<state, inbound, caps_done, burst_sent, timer, conn, registered>>

Server_NoBurst ==
  /\ state \in {"nego", "waiting"} /\ Hears("SERVER")
  /\ state' = IF inbound THEN "waiting" ELSE "burst"
  /\ server_sent' = TRUE /\ Send(ServerLine)
  /\ UNCHANGED <<inbound, burst_sent, caps_done, timer, conn, registered>>

\* handle_server with the password we expect.
Server ==
  /\ state \in {"nego", "waiting"} /\ Hears("SERVER")
  /\ IF inbound
     THEN /\ state' = "waiting"
          /\ server_sent' = TRUE /\ Send(ServerLine)
          /\ UNCHANGED burst_sent
     ELSE /\ state' = "burst"
          /\ burst_sent' = TRUE /\ Send(EnsureBurst)
          /\ UNCHANGED server_sent
  /\ UNCHANGED <<inbound, caps_done, timer, conn, registered>>

\* A handshake line that makes us close: a malformed CAPAB or SERVER, or a
\* SERVER with another password, which an inbound peer is told about.
Reject ==
  /\ conn = "open" /\ FaultAllowed
  /\ GoDown
  /\ \/ /\ ~PeerInOrder \/ InOrder("SERVER")
        /\ state \in {"nego", "waiting"}
        /\ \/ inbound /\ Queue(<<"ERROR">>)
           \/ inbound /\ PushedOut /\ sent' = sent \o <<"ERROR">>
           \/ ~inbound /\ LoseOutput /\ UNCHANGED sent
     \/ /\ ~PeerInOrder
        /\ state \in {"nego", "waiting"}
        /\ LoseOutput /\ UNCHANGED sent
  /\ UNCHANGED heard

\* ERROR closes the link in every state.
PeerError ==
  /\ conn = "open" /\ FaultAllowed
  /\ GoDown
  /\ LoseOutput
  /\ UNCHANGED <<sent, heard>>

Burst_Unguarded ==
  /\ state \in {"waiting", "burst"} /\ Hears("BURST")
  /\ state' = "burst"
  /\ burst_sent' = TRUE /\ Send(BurstLines)
  /\ UNCHANGED <<inbound, caps_done, server_sent, timer, conn, registered>>

\* BURST opens the peer's burst for an inbound link; the outbound one is
\* already bursting and ignores it.
Burst ==
  /\ state \in {"waiting", "burst"} /\ Hears("BURST")
  /\ state' = "burst"
  /\ IF state = "waiting"
     THEN burst_sent' = TRUE /\ Send(EnsureBurst)
     ELSE UNCHANGED <<burst_sent, output>>
  /\ UNCHANGED <<inbound, caps_done, server_sent, timer, conn, registered>>

EndBurst_KeepsAttempts ==
  /\ state \in {"waiting", "burst"} /\ Hears("ENDBURST")
  /\ state' = "linked"
  /\ UNCHANGED <<inbound, flags, timer, conn, output, registered>>

\* to_linked.
EndBurst ==
  /\ state \in {"waiting", "burst"} /\ Hears("ENDBURST")
  /\ state' = "linked"
  /\ attempts' = 0
  /\ UNCHANGED <<inbound, flags, retry_timer, conn, output, registered>>

\* handle_ping; within the bound on what a session may queue.
Ping ==
  /\ conn = "open" /\ state \in {"nego", "waiting", "burst", "linked"}
  /\ Len(sent) < MaxSent
  /\ Send(<<"PONG">>)
  /\ UNCHANGED <<state, inbound, flags, timer, conn, heard, registered>>

-----------------------------------------------------------------------------
(* The rest of the program. *)

Deliver_AllLinks ==
  /\ registered
  /\ Len(sent) < MaxSent
  /\ Send(<<"DATA">>)
  /\ UNCHANGED <<state, inbound, flags, timer, conn, heard, registered>>

\* hub::broadcast and hub::route_from reach links that are linked.
Deliver ==
  /\ registered /\ state = "linked"
  /\ Len(sent) < MaxSent
  /\ Send(<<"DATA">>)
  /\ UNCHANGED <<state, inbound, flags, timer, conn, heard, registered>>

\* OperServ REBURST calls send_burst, not ensure_burst, on every link.
Reburst ==
  /\ AllowReburst
  /\ registered
  /\ Len(sent) < MaxSent
  /\ Send(BurstLines)
  /\ UNCHANGED <<state, inbound, flags, timer, conn, heard, registered>>

-----------------------------------------------------------------------------
Next ==
  \/ AddUplink \/ AddInbound \/ RetryFires
  \/ Connected \/ ConnectRefused \/ HandshakeDone \/ PeerDrops \/ Flush
  \/ CapabStart \/ Capabilities \/ CapabEnd \/ Server \/ Reject \/ PeerError
  \/ Burst \/ EndBurst \/ Ping
  \/ Deliver \/ Reburst

Spec == Init /\ [][Next]_vars

\* The reactor runs every ready callback and every due timer; a peer that
\* follows the protocol sends its next handshake line eventually.
Fairness ==
  /\ WF_vars(AddUplink) /\ WF_vars(RetryFires)
  /\ WF_vars(Connected) /\ WF_vars(HandshakeDone) /\ WF_vars(Flush)
  /\ WF_vars(CapabStart) /\ WF_vars(Capabilities) /\ WF_vars(CapabEnd)
  /\ WF_vars(Server) /\ WF_vars(Burst) /\ WF_vars(EndBurst)

FairSpec == Spec /\ Fairness

-----------------------------------------------------------------------------
(* Properties. *)

Uplink == Reconnect /\ ~inbound
Positions(line) == {i \in 1..Len(sent) : sent[i] = line}

\* A redial is armed exactly while a redialling uplink is down: after a drop,
\* or after connect() failed at once.  A dead uplink without its timer would
\* stay dead, and a timer under a live one would cut the session when it
\* fires (link.cpp: on_close, close, connect, reconnect_once).
RetryArmedIffDown ==
  (retry_timer # 0) <=>
    Uplink /\ (state = "dying" \/ (state = "connecting" /\ conn = "closed"))

\* hub::links_ holds every link that can carry traffic and no dead one, over
\* any number of reconnects (hub::manage's on_close and on_reconnect).
HubListsLiveLinks ==
  /\ state \in {"nego", "waiting", "burst", "linked"} => registered
  /\ state = "dying" => ~registered

\* How far the session is goes by what the peer has said in this very session:
\* past negotiation only after its SERVER, with its password, and linked only
\* after its ENDBURST; that our netburst is done is not remembered from the
\* session before.
Authenticated ==
  /\ state \in {"waiting", "burst", "linked"} => "SERVER" \in heard
  /\ burst_sent => "SERVER" \in heard
  /\ state = "linked" => "ENDBURST" \in heard

Traffic == UNION {Positions(l) : l \in {"BURST", "DATA", "ENDBURST"}}

\* No line of a netburst and no routed line is queued in a session, and none of
\* the peer's is handed on, before the peer has proved its password in it -
\* but for an operator's REBURST, which bursts on any link that is listed
\* (operserv.cpp:404-410).  This is about what a session queues: the bytes an
\* earlier one left in tx_ (stale) go out first, to a peer that has not
\* authenticated, against link.cpp:380-381.
AuthenticatedFirst ==
  [][/\ Authenticated'
     /\ "SERVER" \in heard' \/ Traffic' \subseteq Traffic \/ Reburst]_vars

\* RetryMin doubled n times.
Redoubled[n \in Nat] == IF n = 0 THEN RetryMin ELSE 2 * Redoubled[n - 1]

\* The backoff: the n-th failure in a row waits retry_min doubled n-1 times
\* but at most retry_max, and a link that was up starts over at retry_min.
BackoffSchedule ==
  [][/\ retry_timer' # 0 /\ retry_timer' # retry_timer =>
          LET d == Redoubled[attempts' - 1]
          IN  retry_timer' = IF d < RetryMax THEN d ELSE RetryMax
     /\ state = "linked" /\ state' = "dying" /\ Uplink => retry_timer' = RetryMin
    ]_vars

\* Our netburst, which introduces every service user, is sent at most once in
\* a session (ensure_burst is reached from handle_server and from BURST).
BurstAtMostOnce ==
  \A i, j \in Positions("BURST") : i = j

\* The stage of the handshake a line belongs to; 0 for lines of any stage.
Stage ==
  [l \in OurLines |->
     IF l \in {"CAPAB START", "CAPABILITIES", "CAPAB END"} THEN 1
     ELSE IF l = "SERVER" THEN 2
     ELSE IF l \in {"BURST", "ENDBURST"} THEN 3
     ELSE 0]

\* What we say in a session follows CAPAB -> SERVER -> BURST/ENDBURST, the
\* order of link.h:6, whenever the peer keeps to it.
HandshakeOrder ==
  \A i, j \in 1..Len(sent) :
    i < j /\ Stage[sent[j]] # 0 => Stage[sent[i]] <= Stage[sent[j]]

\* An uplink that does not give up is linked again and again.
AlwaysRelinks == Reconnect => []<>(state = "linked" \/ inbound)

\* link.cpp:421: "connect(); // failure is handled inside (reschedules)": an
\* attempt to connect ends, in a session or in a new retry.
AttemptEnds ==
  (state = "connecting" /\ retry_timer = 0)
    ~> (state # "connecting" \/ retry_timer # 0)

\* link implements the abstract session.
Phase ==
  CASE state = "idle" -> "new"
    [] state = "connecting" /\ conn = "closed" -> "down"
    [] state = "connecting" /\ conn # "closed" -> "opening"
    [] state = "nego" -> "talking"
    [] state \in {"waiting", "burst"} -> "authed"
    [] state = "linked" -> "up"
    [] state = "dying" -> "down"

S == INSTANCE Session
       WITH Redial <- Reconnect, phase <- Phase, announced <- burst_sent,
            armed <- (retry_timer # 0)

ImplementsSession == S!SessionSpec
=============================================================================
