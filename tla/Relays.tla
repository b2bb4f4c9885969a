------------------------------- MODULE Relays -------------------------------
(***************************************************************************)
(* The relays to chat platforms (src/bridge/signal.cpp, discord.cpp), as   *)
(* the bridge manager makes and destroys them, and the HTTP POSTs a        *)
(* Discord relay sends: streams (src/net/socket.cpp) over descriptors that *)
(* the reactor (src/net/eventloop.cpp) polls and dispatches.               *)
(*                                                                         *)
(* A POST's stream and a Discord relay's speak TLS.  A stream, the relay   *)
(* or request that owns it and its callbacks are one thing here.           *)
(*                                                                         *)
(* A definition X_Slip is a slip in X, kept to show that the properties    *)
(* tell it from the code; nothing here uses it.                            *)
(***************************************************************************)
EXTENDS Integers, FiniteSets, Tables

CONSTANTS
  Signals, Discords,     \* names of relays of either kind
  Posts,                 \* bound: POSTs sent in one life of the daemon
  MaxFd,                 \* descriptors a process may have
  Freed                  \* a stream that was destroyed while registered

Relays == Signals \cup Discords
Streams == Relays \cup Posts
Fds == 1..MaxFd          \* 0 stands for -1

ASSUME RelaysAssumption ==
  /\ Signals \cap Discords = {} /\ Relays \cap Posts = {}
  /\ Freed \notin Streams
  /\ MaxFd \in Nat

VARIABLES
  alive,                 \* objects there are
  state,                 \* stream -> transport_state
  fd,                    \* stream -> its descriptor, 0 if none
  watch,                 \* stream -> the descriptor its handle rh_ registers,
                         \* 0 if the handle is bad_handle
  up,                    \* streams whose on_open has run on the connection
                         \* they have; of a Signal relay, connected_
  redial,                \* relays whose redial timer's handle is set
  reported,              \* POSTs whose success or failure was reported
  timers,                \* relay -> active timers of the reactor that call it
  strayTimers,           \* active timers that call a destroyed relay
  stray,                 \* descriptors with an active registration of Freed
  by_fd,                 \* reactor: descriptor -> whose callbacks it runs
  ready,                 \* rest of a round: descriptor -> event of the poll
  sock                   \* kernel: descriptor -> what it is

vars == <<alive, state, fd, watch, up, redial, reported, timers, strayTimers,
          stray, by_fd, ready, sock>>
streams == <<state, fd, watch, up>>
reactor == <<stray, by_fd>>
duties == <<redial, reported, timers>>

\* "hang" stands for POLLHUP or POLLERR along with others, "nval" for POLLNVAL.
Events == {"none", "io", "hang", "nval"}
\* "up" is a descriptor that was connected, whatever the peer has done since;
\* "unwatched" one that is open and not registered any more: what its peer does
\* is seen by nobody.
Socks == {"free", "connecting", "refused", "up", "unwatched"}

TypeOK ==
  /\ alive \subseteq Streams
  /\ state \in [Streams -> {"connecting", "handshaking", "open", "closed", "error"}]
  /\ fd \in [Streams -> Fds \cup {0}] /\ watch \in [Streams -> Fds \cup {0}]
  /\ up \subseteq Streams
  /\ redial \subseteq Relays
  /\ reported \subseteq Posts
  /\ timers \in [Relays -> Nat] /\ strayTimers \in Nat
  /\ stray \subseteq Fds
  /\ IsTable(by_fd, Fds, Streams \cup {Freed})
  /\ ready \in [Fds -> Events]
  /\ sock \in [Fds -> Socks]

Init ==
  /\ alive = {}
  /\ state = [s \in Streams |-> "connecting"]
  /\ fd = [s \in Streams |-> 0] /\ watch = [s \in Streams |-> 0]
  /\ up = {} /\ redial = {} /\ reported = {}
  /\ timers = [b \in Relays |-> 0] /\ strayTimers = 0
  /\ stray = {} /\ by_fd = NoFunction
  /\ ready = [f \in Fds |-> "none"]
  /\ sock = [f \in Fds |-> "free"]

-----------------------------------------------------------------------------
(* Streams *)

Tls(s) == s \notin Signals

\* handle_close does something, and tells the owner.
Hears(s) == state[s] \notin {"closed", "error"}

\* The kernel gives the lowest descriptor there is.
Lowest(f) ==
  /\ f \in Fds /\ sock[f] = "free"
  /\ \A g \in Fds : sock[g] = "free" => f <= g

\* add_socket does not replace an entry for the descriptor.
Served(f, s) == IF f \in DOMAIN by_fd THEN by_fd ELSE With(by_fd, f, s)

\* BufferedStream::connect: a socket that has begun to connect.  The descriptor
\* the stream had stays open, and nobody's.
Connects(s) ==
  \E f \in Fds :
    /\ Lowest(f)
    /\ state' = [state EXCEPT ![s] = "connecting"]
    /\ fd' = [fd EXCEPT ![s] = f] /\ watch' = [watch EXCEPT ![s] = f]
    /\ by_fd' = Served(f, s)
    /\ sock' = [sock EXCEPT ![f] = "connecting"]
    /\ up' = up \ {s}
    /\ UNCHANGED stray

\* No address, no descriptor or no TLS; or connect(2) fails at once.
FailsToConnect(s) ==
  /\ \/ UNCHANGED <<state, fd>>
     \/ /\ \E f \in Fds : Lowest(f)
        /\ state' = [state EXCEPT ![s] = "error"]
        /\ fd' = [fd EXCEPT ![s] = 0]
  /\ up' = up \ {s}
  /\ UNCHANGED <<watch, reactor, sock>>

\* schedule_resume, schedule_reconnect: a timer, unless there is one.
Arm(b) ==
  /\ redial' = redial \cup {b}
  /\ timers' = IF b \in redial THEN timers ELSE [timers EXCEPT ![b] = @ + 1]
  /\ UNCHANGED reported

\* on_close, and the failure of connect, as the owner of s answers them.
Answers(s) ==
  \/ s \in Relays /\ Arm(s)
  \/ s \in Posts /\ reported' = reported \cup {s} /\ UNCHANGED <<redial, timers>>

\* remove_socket with the handle of s.
Unwatched_Routed(s) == by_fd
Unwatched(s) == IF watch[s] = 0 THEN by_fd ELSE Without(by_fd, watch[s])

\* The descriptor is still the stream's, and open.
Unserved_Closed(s) == IF fd[s] = 0 THEN sock ELSE [sock EXCEPT ![fd[s]] = "free"]
Unserved(s) == IF fd[s] = 0 THEN sock ELSE [sock EXCEPT ![fd[s]] = "unwatched"]

HandleClose(s) ==
  /\ Hears(s)
  /\ state' = [state EXCEPT ![s] = "closed"]
  /\ watch' = [watch EXCEPT ![s] = 0]
  /\ by_fd' = Unwatched(s)
  /\ up' = up \ {s}
  /\ sock' = Unserved(s)
  /\ Answers(s)
  /\ UNCHANGED <<fd, stray>>

-----------------------------------------------------------------------------
(* The bridge manager and the timers *)

\* start
Begins(b) ==
  \/ Connects(b) /\ UNCHANGED duties
  \/ FailsToConnect(b) /\ Arm(b)

\* ADD, or ENABLE, of a relay, or its load at start.
Enable(b) ==
  /\ b \in Relays \ alive
  /\ alive' = alive \cup {b}
  /\ Begins(b)
  /\ UNCHANGED <<strayTimers, ready>>

\* The timers of b that its destructor leaves active: closing the stream may
\* arm one, and then the destructor removes the one it knows of.
TimersLeft_RemovesFirst(b) ==
  IF b \in redial THEN 0 ELSE timers[b] + (IF Hears(b) THEN 1 ELSE 0)
TimersLeft_RemovesTwo(b) ==
  timers[b] - (IF Hears(b) \/ b \in redial THEN 1 ELSE 0)
TimersLeft(b) ==
  LET armed == Hears(b) /\ b \notin redial
  IN  timers[b] + (IF armed THEN 1 ELSE 0) - (IF armed \/ b \in redial THEN 1 ELSE 0)

\* DEL, or DISABLE: the destructor closes the stream.  A stream that does not
\* hear of it stays registered.
Destroy(b) ==
  /\ b \in Relays \cap alive
  /\ alive' = alive \ {b}
  /\ state' = [state EXCEPT ![b] = "connecting"]
  /\ fd' = [fd EXCEPT ![b] = 0] /\ watch' = [watch EXCEPT ![b] = 0]
  /\ up' = up \ {b}
  /\ redial' = redial \ {b}
  /\ timers' = [timers EXCEPT ![b] = 0]
  /\ strayTimers' = strayTimers + TimersLeft(b)
  /\ sock' = IF fd[b] = 0 THEN sock ELSE [sock EXCEPT ![fd[b]] = "free"]
  /\ IF Hears(b) \/ watch[b] = 0
     THEN by_fd' = Unwatched(b) /\ UNCHANGED stray
     ELSE /\ by_fd' = [g \in DOMAIN by_fd |-> IF by_fd[g] = b THEN Freed ELSE by_fd[g]]
          /\ stray' = stray \cup {watch[b]}
  /\ UNCHANGED <<reported, ready>>

\* relay_to, of a Discord relay: each message is a stream of its own.
Post(p) ==
  /\ p \in Posts \ alive
  /\ Discords \cap alive # {}
  /\ alive' = alive \cup {p}
  /\ \/ Connects(p) /\ UNCHANGED duties
     \/ FailsToConnect(p) /\ Answers(p)
  /\ UNCHANGED <<strayTimers, ready>>

\* The timers fire at the end of a round.
RedialFires(b) ==
  /\ \A f \in Fds : ready[f] = "none"
  /\ b \in redial /\ timers[b] > 0
  /\ \/ /\ Connects(b)
        /\ redial' = redial \ {b}
        /\ timers' = [timers EXCEPT ![b] = @ - 1]
        /\ UNCHANGED reported
     \/ FailsToConnect(b) /\ UNCHANGED duties
  /\ UNCHANGED <<alive, strayTimers, ready>>

-----------------------------------------------------------------------------
(* Events *)

\* What getsockopt and read find: on -1 they fail.
SockOf(s) == IF fd[s] = 0 THEN "refused" ELSE sock[fd[s]]

\* check_connect_result finds the error and says so with the state alone, so
\* that handle_close does nothing: the stream stays registered.
Refused(s) ==
  /\ state[s] = "connecting" /\ SockOf(s) = "refused"
  /\ state' = [state EXCEPT ![s] = "error"]
  /\ UNCHANGED <<fd, watch, up, reactor, sock, duties>>

\* check_connect_result finds no error, also on a stale event.
Opens(s) ==
  /\ state[s] = "connecting" /\ SockOf(s) # "refused"
  /\ state' = [state EXCEPT ![s] = IF Tls(s) THEN "handshaking" ELSE "open"]
  /\ up' = IF Tls(s) THEN up ELSE up \cup {s}
  /\ UNCHANGED <<fd, watch, reactor, sock, duties>>

\* The TLS handshake is done: on_tls_ready, which only a POST has, is called,
\* and on_open is not.
Secures(s) ==
  /\ state[s] = "handshaking" /\ Tls(s) /\ SockOf(s) = "up"
  /\ state' = [state EXCEPT ![s] = "open"]
  /\ up' = IF s \in Posts THEN up \cup {s} ELSE up
  /\ UNCHANGED <<fd, watch, reactor, sock, duties>>

\* The handshake, or the peer, says no more than that it goes on.
Waits(s) ==
  /\ state[s] \in {"handshaking", "open"}
  /\ UNCHANGED <<streams, reactor, sock, duties>>

\* The response to a POST is complete.  Its stream stays as it is.
Responds(s) ==
  /\ s \in Posts /\ state[s] = "open" /\ SockOf(s) = "up"
  /\ reported' = reported \cup {s}
  /\ UNCHANGED <<streams, reactor, sock, redial, timers>>

\* The handshake fails, or reading ends; "hang" closes what is left open.
Ends(s, event) ==
  /\ \/ event = "hang" /\ ~ (state[s] = "connecting" /\ SockOf(s) = "refused")
     \/ state[s] \in {"handshaking", "open"} /\ SockOf(s) \in {"up", "refused"}
  /\ HandleClose(s)

\* The answer to a WebSocket is none of its: WebSocket::close.
Rejects(s) ==
  /\ s \in Discords /\ state[s] = "open" /\ SockOf(s) = "up"
  /\ state' = [state EXCEPT ![s] = "closed"]
  /\ fd' = [fd EXCEPT ![s] = 0] /\ watch' = [watch EXCEPT ![s] = 0]
  /\ by_fd' = Unwatched(s)
  /\ sock' = [sock EXCEPT ![fd[s]] = "free"]
  /\ up' = up \ {s}
  /\ Arm(s)
  /\ UNCHANGED stray

Ignores(s) == ~ Hears(s) /\ UNCHANGED <<streams, reactor, sock, duties>>

\* The callbacks of a stream on an event.
Serve(s, event) ==
  \/ Refused(s)
  \/ event = "io" /\ (Opens(s) \/ Secures(s) \/ Waits(s) \/ Responds(s))
  \/ Ends(s, event)
  \/ Rejects(s)
  \/ Ignores(s)

\* The callbacks of a destroyed stream: undefined.  Nothing, or they act on
\* the relay that has taken its memory.
ServeFreed(event) ==
  \/ UNCHANGED <<streams, reactor, sock, duties>>
  \/ \E b \in Relays \cap alive : Serve(b, event) \/ HandleClose(b)

\* One event of the round.
Dispatch(f) ==
  /\ ready[f] # "none"
  /\ ready' = [ready EXCEPT ![f] = "none"]
  /\ \/ f \notin DOMAIN by_fd /\ UNCHANGED <<streams, reactor, sock, duties>>
     \/ f \in DOMAIN by_fd /\ by_fd[f] = Freed /\ ServeFreed(ready[f])
     \/ /\ f \in DOMAIN by_fd /\ by_fd[f] \in Streams
        /\ IF ready[f] = "nval"
           THEN HandleClose(by_fd[f]) \/ Ignores(by_fd[f])
           ELSE Serve(by_fd[f], ready[f])
  /\ UNCHANGED <<alive, strayTimers>>

\* ... or it crashes, and is started again.
Crash ==
  /\ \E f \in DOMAIN by_fd : ready[f] # "none" /\ by_fd[f] = Freed
  /\ alive' = {}
  /\ state' = [s \in Streams |-> "connecting"]
  /\ fd' = [s \in Streams |-> 0] /\ watch' = [s \in Streams |-> 0]
  /\ up' = {} /\ redial' = {} /\ reported' = {}
  /\ timers' = [b \in Relays |-> 0] /\ strayTimers' = 0
  /\ stray' = {} /\ by_fd' = NoFunction
  /\ ready' = [f \in Fds |-> "none"]
  /\ sock' = [f \in Fds |-> "free"]

Registered == stray \cup ({watch[s] : s \in alive} \ {0})

\* What poll can say of a descriptor that matters: one that is unwatched has
\* no entry in by_fd, if a destroyed stream's registration is still on it.
Seen(f) ==
  IF f \notin Registered THEN {"none"}
  ELSE CASE sock[f] = "free" -> {"nval"}
         [] sock[f] \in {"connecting", "unwatched"} -> {"none"}
         [] sock[f] = "refused" -> {"hang"}
         [] sock[f] = "up" -> {"none", "io", "hang"}

\* The next round begins.
Poll ==
  /\ \A f \in Fds : ready[f] = "none"
  /\ ready' \in [Fds -> Events] /\ ready' # ready
  /\ \A f \in Fds : ready'[f] \in Seen(f)
  /\ UNCHANGED <<alive, streams, duties, strayTimers, reactor, sock>>

\* The peer, on a descriptor somebody watches.
Peer(f) ==
  /\ f \in Registered
  /\ \/ sock[f] = "connecting" /\ sock' = [sock EXCEPT ![f] = "up"]
     \/ sock[f] = "connecting" /\ sock' = [sock EXCEPT ![f] = "refused"]
  /\ UNCHANGED <<alive, streams, duties, strayTimers, reactor, ready>>

Next ==
  \/ \E b \in Relays : Enable(b) \/ Destroy(b) \/ RedialFires(b)
  \/ \E p \in Posts : Post(p)
  \/ \E f \in Fds : Dispatch(f) \/ Peer(f)
  \/ Crash
  \/ Poll

Spec == Init /\ [][Next]_vars

-----------------------------------------------------------------------------
(* Properties *)

\* A relay has one redial timer in the reactor exactly while it knows of it,
\* and no timer calls a relay that was destroyed, also when destroying it is
\* what arms the timer.
TimersOwned ==
  /\ strayTimers = 0
  /\ redial \subseteq alive
  /\ \A b \in Relays : timers[b] = IF b \in redial THEN 1 ELSE 0

\* Events for the descriptor of s reach s, unless a destroyed stream's
\* registration has stayed on that descriptor.
Reached(s) ==
  /\ fd[s] # 0 /\ watch[s] = fd[s]
  /\ fd[s] \in DOMAIN by_fd
  /\ by_fd[fd[s]] = s \/ (by_fd[fd[s]] = Freed /\ fd[s] \in stray)

\* check_connect_result met a refusal: nothing further happens to s.
RefusedLate(s) == state[s] = "error" /\ fd[s] # 0 /\ watch[s] = fd[s]

\* Nobody is forgotten: a relay is connecting or connected on a descriptor the
\* reactor serves, or will redial; a POST likewise, or was reported.  A late
\* refusal is the only exception.
NobodyForgotten ==
  \A s \in alive :
    \/ s \in redial \cup reported
    \/ Hears(s) /\ Reached(s)
    \/ RefusedLate(s)

\* Two streams never share a descriptor, and none holds one that was closed:
\* what a stream reads, writes, closes or leaves is its own.
OneOwnerEach ==
  \A s \in alive :
    /\ watch[s] \in {0, fd[s]}
    /\ fd[s] # 0 => /\ sock[fd[s]] # "free"
                    /\ \A t \in alive \ {s} : fd[t] # fd[s]

\* A Signal relay takes its stream for connected exactly while it is open; a
\* Discord relay's WebSocket never sends its upgrade request.
UpWhenOpen ==
  /\ \A s \in Signals : s \in up <=> state[s] = "open"
  /\ Discords \cap up = {}
=============================================================================
