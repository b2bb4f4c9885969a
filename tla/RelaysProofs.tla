---------------------------- MODULE RelaysProofs ----------------------------
(***************************************************************************)
(* Theorems about Relays, for any number of relays, POSTs and descriptors. *)
(***************************************************************************)
EXTENDS Relays, TablesProofs, TLAPS

-----------------------------------------------------------------------------
(* The parts of the invariant.                                             *)

StreamTypes ==
  /\ alive \subseteq Streams
  /\ state \in [Streams -> {"connecting", "handshaking", "open", "closed", "error"}]
  /\ fd \in [Streams -> Fds \cup {0}] /\ watch \in [Streams -> Fds \cup {0}]
  /\ up \subseteq Streams

DutyTypes ==
  /\ redial \subseteq Relays
  /\ reported \subseteq Posts
  /\ timers \in [Relays -> Nat] /\ strayTimers \in Nat

ReactorTypes ==
  /\ stray \subseteq Fds
  /\ IsTable(by_fd, Fds, Streams \cup {Freed})
  /\ sock \in [Fds -> Socks]

ReadyType == ready \in [Fds -> Events]

\* The invariant of types splits into what different actions change.
LEMMA TypeParts == TypeOK <=> StreamTypes /\ DutyTypes /\ ReactorTypes /\ ReadyType
BY DEF TypeOK, StreamTypes, DutyTypes, ReactorTypes, ReadyType

\* The same, after a step.
LEMMA TypePartsNext ==
  TypeOK' <=> StreamTypes' /\ DutyTypes' /\ ReactorTypes' /\ ReadyType'
BY DEF TypeOK, StreamTypes, DutyTypes, ReactorTypes, ReadyType

\* What is not there has nothing.
Fresh ==
  \A s \in Streams \ alive :
    state[s] = "connecting" /\ fd[s] = 0 /\ watch[s] = 0 /\ s \notin up

\* An entry of by_fd is of a registration that is active.
Routes ==
  \A g \in DOMAIN by_fd :
    \/ by_fd[g] = Freed /\ g \in stray
    \/ by_fd[g] \in alive /\ watch[by_fd[g]] = g

\* A relay that will redial has no registration, and no connection to make.
Idle ==
  \A b \in redial :
    watch[b] = 0 /\ (~ Hears(b) \/ (state[b] = "connecting" /\ fd[b] = 0))

StreamInv == StreamTypes /\ ReactorTypes /\ Fresh /\ Routes /\ OneOwnerEach /\ UpWhenOpen
DutyInv == DutyTypes /\ TimersOwned /\ reported \subseteq alive /\ Idle /\ NobodyForgotten
IInv == StreamInv /\ DutyInv /\ ReadyType

\* A step of the streams that are there.
Within == UNCHANGED <<alive, strayTimers>> /\ ready' \in [Fds -> Events]

\* The step is one of s: another stream that is reached stays so.
Others(s) ==
  \A t \in alive \ {s} :
    /\ state'[t] = state[t] /\ fd'[t] = fd[t] /\ watch'[t] = watch[t]
    /\ Reached(t) => Reached(t)'

\* 0 is no descriptor.
LEMMA NoFd == 0 \notin Fds /\ Fds \subseteq Int
BY DEF Fds

-----------------------------------------------------------------------------
(* The entries of by_fd.                                                   *)

\* What removing the registration of s does to by_fd.
LEMMA UnwatchedAt ==
  ASSUME StreamTypes, ReactorTypes, NEW s \in Streams
  PROVE  /\ IsTable(Unwatched(s), Fds, Streams \cup {Freed})
         /\ \A g : g \in DOMAIN Unwatched(s) <=> g \in DOMAIN by_fd /\ g # watch[s]
         /\ \A g \in DOMAIN Unwatched(s) : Unwatched(s)[g] = by_fd[g]
<1>1. IsTable(by_fd, Fds, Streams \cup {Freed}) /\ DOMAIN by_fd \subseteq Fds
  BY IsTableElim DEF ReactorTypes
<1>2. CASE watch[s] = 0
  BY <1>1, <1>2, NoFd DEF Unwatched
<1>3. CASE watch[s] # 0
  <2>1. Unwatched(s) = Without(by_fd, watch[s])
    BY <1>3 DEF Unwatched
  <2>2. IsTable(Without(by_fd, watch[s]), Fds, Streams \cup {Freed})
    BY <1>1, WithoutType
  <2> QED BY <2>1, <2>2 DEF Without, Restrict
<1> QED BY <1>2, <1>3

\* What registering s on a free descriptor does to by_fd: an entry that is
\* already there is a destroyed stream's.
LEMMA RoutedAt ==
  ASSUME StreamInv, NEW s \in Streams, NEW f \in Fds, sock[f] = "free"
  PROVE  LET r == IF f \in DOMAIN by_fd THEN by_fd ELSE With(by_fd, f, s)
         IN  /\ IsTable(r, Fds, Streams \cup {Freed})
             /\ DOMAIN r = DOMAIN by_fd \cup {f}
             /\ \A g \in DOMAIN by_fd : r[g] = by_fd[g]
             /\ r[f] = s \/ (r[f] = Freed /\ f \in stray)
<1>1. IsTable(by_fd, Fds, Streams \cup {Freed})
  BY DEF StreamInv, ReactorTypes
<1>2. CASE f \in DOMAIN by_fd
  <2>1. ~ (by_fd[f] \in alive /\ watch[by_fd[f]] = f)
    BY NoFd DEF StreamInv, OneOwnerEach
  <2>2. by_fd[f] = Freed /\ f \in stray
    BY <1>2, <2>1 DEF StreamInv, Routes
  <2> QED BY <1>1, <1>2, <2>2
<1>3. CASE f \notin DOMAIN by_fd
  <2>1. IsTable(With(by_fd, f, s), Fds, Streams \cup {Freed})
    BY <1>1, WithType
  <2> QED BY <1>3, <2>1 DEF With
<1> QED BY <1>2, <1>3

-----------------------------------------------------------------------------
(* Connecting.                                                             *)

\* A stream that is there, or is made, and has no registration may connect:
\* what the streams are related by stays.
LEMMA ConnectsStreams ==
  ASSUME StreamInv, NEW s \in Streams, Connects(s), watch[s] = 0,
         alive' = alive \cup {s}
  PROVE  StreamInv' /\ Hears(s)' /\ Reached(s)' /\ Others(s)
<1>1. PICK f \in Fds :
        /\ sock[f] = "free"
        /\ state' = [state EXCEPT ![s] = "connecting"]
        /\ fd' = [fd EXCEPT ![s] = f] /\ watch' = [watch EXCEPT ![s] = f]
        /\ by_fd' = IF f \in DOMAIN by_fd THEN by_fd ELSE With(by_fd, f, s)
        /\ sock' = [sock EXCEPT ![f] = "connecting"]
        /\ up' = up \ {s}
        /\ stray' = stray
  BY DEF Connects, Lowest, Served
<1>2. /\ IsTable(by_fd', Fds, Streams \cup {Freed})
      /\ DOMAIN by_fd' = DOMAIN by_fd \cup {f}
      /\ \A g \in DOMAIN by_fd : by_fd'[g] = by_fd[g]
      /\ by_fd'[f] = s \/ (by_fd'[f] = Freed /\ f \in stray)
  BY <1>1, RoutedAt
<1> USE DEF StreamInv
<1>3. StreamTypes'
  BY <1>1 DEF StreamTypes
<1>4. ReactorTypes'
  BY <1>1, <1>2 DEF ReactorTypes, Socks
<1>5. /\ f # 0
      /\ state'[s] = "connecting" /\ fd'[s] = f /\ watch'[s] = f
      /\ \A t \in Streams \ {s} : state'[t] = state[t] /\ fd'[t] = fd[t] /\ watch'[t] = watch[t]
      /\ sock'[f] # "free"
      /\ \A g \in Fds \ {f} : sock'[g] = sock[g]
  BY <1>1, NoFd DEF StreamTypes, ReactorTypes
<1>6. Fresh'
  BY <1>1, <1>5 DEF Fresh
<1>7. Routes'
  <2> SUFFICES ASSUME NEW g \in DOMAIN by_fd'
               PROVE  \/ by_fd'[g] = Freed /\ g \in stray'
                      \/ by_fd'[g] \in alive' /\ watch'[by_fd'[g]] = g
    BY DEF Routes
  <2>1. CASE g \in DOMAIN by_fd
    <3>1. by_fd'[g] = by_fd[g]
      BY <1>2, <2>1
    <3>2. CASE by_fd[g] = Freed /\ g \in stray
      BY <1>1, <3>1, <3>2
    <3>3. CASE by_fd[g] \in alive /\ watch[by_fd[g]] = g
      <4>1. g \in Fds
        BY <2>1, IsTableElim DEF ReactorTypes
      <4>2. by_fd[g] # s
        BY <3>3, <4>1, NoFd
      <4> QED BY <1>5, <3>1, <3>3, <4>2 DEF StreamTypes
    <3> QED BY <2>1, <3>2, <3>3 DEF Routes
  <2>2. CASE g = f
    BY <1>1, <1>2, <1>5, <2>2
  <2> QED BY <1>2, <2>1, <2>2
<1>8. \A t \in alive : fd[t] # f
  BY <1>1, <1>5 DEF OneOwnerEach
<1>9. OneOwnerEach'
  <2>1. /\ watch'[s] \in {0, fd'[s]}
        /\ sock'[fd'[s]] # "free"
        /\ \A t \in alive' \ {s} : fd'[t] # fd'[s]
    BY <1>5, <1>8 DEF StreamTypes
  <2>2. ASSUME NEW t \in alive \ {s}
        PROVE  /\ watch'[t] \in {0, fd'[t]}
               /\ fd'[t] # 0 => sock'[fd'[t]] # "free"
                              /\ \A v \in alive' \ {t} : fd'[v] # fd'[t]
    BY <1>5, <1>8 DEF StreamTypes, OneOwnerEach
  <2> QED BY <2>1, <2>2 DEF OneOwnerEach
<1>10. UpWhenOpen'
  BY <1>1, <1>5 DEF UpWhenOpen, Streams, Relays
<1>11. Hears(s)' /\ Reached(s)'
  BY <1>1, <1>2, <1>5 DEF Hears, Reached
<1>12. ASSUME NEW t \in alive \ {s}, Reached(t) PROVE Reached(t)'
  BY <1>1, <1>2, <1>5, <1>12 DEF Reached, StreamTypes
<1>13. Others(s)
  BY <1>5, <1>12 DEF Others, StreamTypes
<1> QED BY <1>3, <1>4, <1>6, <1>7, <1>9, <1>10, <1>11, <1>13

\* ... or fail to, if it was not open.
LEMMA FailsStreams ==
  ASSUME StreamInv, NEW s \in Streams, FailsToConnect(s), watch[s] = 0,
         ~ Hears(s) \/ (state[s] = "connecting" /\ fd[s] = 0),
         alive' = alive \cup {s}
  PROVE  /\ StreamInv' /\ Others(s)
         /\ watch'[s] = 0 /\ (~ Hears(s)' \/ (state'[s] = "connecting" /\ fd'[s] = 0))
<1> USE DEF StreamInv
<1>1. /\ watch' = watch /\ by_fd' = by_fd /\ stray' = stray /\ sock' = sock
      /\ up' = up \ {s}
      /\ \/ state' = state /\ fd' = fd
         \/ state' = [state EXCEPT ![s] = "error"] /\ fd' = [fd EXCEPT ![s] = 0]
  BY DEF FailsToConnect, reactor
<1>2. StreamTypes' /\ ReactorTypes'
  BY <1>1 DEF StreamTypes, ReactorTypes
<1>3. /\ \A t \in Streams \ {s} : state'[t] = state[t] /\ fd'[t] = fd[t]
      /\ fd'[s] \in {0, fd[s]} /\ state'[s] \in {"error", state[s]}
      /\ state'[s] = "connecting" => fd'[s] = fd[s] /\ state[s] = "connecting"
  BY <1>1 DEF StreamTypes
<1>4. Fresh'
  BY <1>1, <1>3 DEF Fresh
<1>5. Routes'
  BY <1>1 DEF Routes
<1>6. OneOwnerEach'
  BY <1>1, <1>3 DEF OneOwnerEach, StreamTypes, Fresh
<1>7. UpWhenOpen'
  BY <1>1, <1>3 DEF UpWhenOpen, Hears, Streams, Relays
<1>8. watch'[s] = 0 /\ (~ Hears(s)' \/ (state'[s] = "connecting" /\ fd'[s] = 0))
  BY <1>1, <1>3 DEF Hears
<1>9. \A t \in alive \ {s} : Reached(t) => Reached(t)'
  BY <1>1, <1>3 DEF Reached, StreamTypes
<1>10. Others(s)
  BY <1>1, <1>3, <1>9 DEF Others, StreamTypes
<1> QED BY <1>2, <1>4, <1>5, <1>6, <1>7, <1>8, <1>10

-----------------------------------------------------------------------------
(* What is due.                                                            *)

\* Arming the redial of b, and telling the owner of a stream, when the stream
\* has come to rest.
LEMMA AnswersDuties ==
  ASSUME IInv, NEW s \in alive', alive' = alive \cup {s}, strayTimers' = strayTimers,
         Answers(s), Others(s),
         watch'[s] = 0, ~ Hears(s)' \/ (state'[s] = "connecting" /\ fd'[s] = 0)
  PROVE  DutyInv'
<1> USE DEF IInv, DutyInv
<1>1. /\ redial' \in {redial, redial \cup {s}} /\ reported' \in {reported, reported \cup {s}}
      /\ s \in redial' \cup reported'
  BY DEF Answers, Arm
<1>2. DutyTypes' /\ TimersOwned'
  <2>1. CASE s \in Relays /\ Arm(s)
    BY <2>1 DEF Arm, DutyTypes, TimersOwned
  <2>2. CASE s \in Posts /\ reported' = reported \cup {s} /\ UNCHANGED <<redial, timers>>
    BY <2>2 DEF DutyTypes, TimersOwned
  <2> QED BY <2>1, <2>2 DEF Answers
<1>3. reported' \subseteq alive'
  BY <1>1
<1>4. Idle'
  BY <1>1 DEF Idle, Others, Hears, TimersOwned
<1>5. NobodyForgotten'
  <2>1. ASSUME NEW t \in alive \ {s}
        PROVE  t \in redial' \cup reported' \/ (Hears(t)' /\ Reached(t)') \/ RefusedLate(t)'
    BY <1>1 DEF NobodyForgotten, Others, Hears, RefusedLate
  <2> QED BY <1>1, <2>1 DEF NobodyForgotten
<1> QED BY <1>2, <1>3, <1>4, <1>5

\* A step of a stream that ends where events reach it, in a late refusal, or
\* where it will redial.
LEMMA ServedDuties ==
  ASSUME IInv, NEW s \in alive', alive' = alive \cup {s}, strayTimers' = strayTimers,
         UNCHANGED <<redial, timers>>, Others(s),
         reported' \in {reported, reported \cup {s}}, reported' \subseteq Posts,
         s \in redial' => watch'[s] = 0 /\ (~ Hears(s)' \/ (state'[s] = "connecting" /\ fd'[s] = 0)),
         s \in redial' \cup reported' \/ (Hears(s)' /\ Reached(s)') \/ RefusedLate(s)'
  PROVE  DutyInv'
<1> USE DEF IInv, DutyInv
<1>1. DutyTypes' /\ TimersOwned' /\ reported' \subseteq alive'
  BY DEF DutyTypes, TimersOwned
<1>2. Idle'
  BY DEF Idle, Others, Hears, TimersOwned
<1>3. NobodyForgotten'
  BY DEF NobodyForgotten, Others, Hears, RefusedLate
<1> QED BY <1>1, <1>2, <1>3

-----------------------------------------------------------------------------
(* The steps of a stream.                                                  *)

\* A stream that only changes its transport_state.
LEMMA StateStep ==
  ASSUME StreamInv, NEW s \in alive, alive' = alive,
         NEW v \in {"connecting", "handshaking", "open", "closed", "error"},
         state' = [state EXCEPT ![s] = v],
         UNCHANGED <<fd, watch, reactor, sock>>,
         up' \in {up, up \cup {s}},
         s \in Signals => (s \in up' <=> v = "open"),
         s \in Discords => up' = up
  PROVE  StreamInv' /\ Others(s) /\ state'[s] = v
<1> USE DEF StreamInv, reactor
<1>1. StreamTypes' /\ ReactorTypes'
  BY DEF StreamTypes, ReactorTypes
<1>2. state'[s] = v /\ \A t \in Streams \ {s} : state'[t] = state[t]
  BY DEF StreamTypes
<1>3. Fresh' /\ Routes' /\ OneOwnerEach'
  BY <1>2 DEF Fresh, Routes, OneOwnerEach
<1>4. UpWhenOpen'
  BY <1>2 DEF UpWhenOpen, Streams, Relays
<1>5. Others(s)
  BY <1>2 DEF Others, Reached, StreamTypes
<1> QED BY <1>1, <1>2, <1>3, <1>4, <1>5

\* A stream that leaves the reactor; its descriptor stays, or is closed.
LEMMA ClosedStep ==
  ASSUME StreamInv, NEW s \in alive, alive' = alive,
         state' = [state EXCEPT ![s] = "closed"],
         watch' = [watch EXCEPT ![s] = 0],
         by_fd' = Unwatched(s), stray' = stray,
         up' = up \ {s},
         \/ fd' = fd /\ sock' = Unserved(s)
         \/ fd' = [fd EXCEPT ![s] = 0] /\ fd[s] # 0 /\ sock' = [sock EXCEPT ![fd[s]] = "free"]
  PROVE  StreamInv' /\ Others(s) /\ watch'[s] = 0 /\ ~ Hears(s)'
<1> USE DEF StreamInv
<1>1. /\ IsTable(by_fd', Fds, Streams \cup {Freed})
      /\ \A g : g \in DOMAIN by_fd' <=> g \in DOMAIN by_fd /\ g # watch[s]
      /\ \A g \in DOMAIN by_fd' : by_fd'[g] = by_fd[g]
  BY UnwatchedAt DEF StreamTypes
<1>2. sock' \in [Fds -> Socks]
  BY DEF StreamTypes, ReactorTypes, Unserved, Socks
<1>3. StreamTypes' /\ ReactorTypes'
  BY <1>1, <1>2 DEF StreamTypes, ReactorTypes
<1>4. /\ state'[s] = "closed" /\ watch'[s] = 0 /\ fd'[s] \in {0, fd[s]}
      /\ \A t \in Streams \ {s} : state'[t] = state[t] /\ watch'[t] = watch[t] /\ fd'[t] = fd[t]
  BY DEF StreamTypes
<1>5. Fresh'
  BY <1>4 DEF Fresh
<1>6. Routes'
  BY <1>1, <1>4 DEF Routes, StreamTypes
<1>7. /\ fd'[s] # 0 => sock'[fd'[s]] # "free"
      /\ \A t \in alive \ {s} : fd[t] # 0 => sock'[fd[t]] = sock[fd[t]]
  <2>1. CASE fd[s] = 0
    BY <1>4, <2>1 DEF OneOwnerEach, Unserved
  <2>2. CASE fd[s] # 0
    <3>1. fd[s] \in Fds /\ sock[fd[s]] # "free"
      BY <2>2 DEF OneOwnerEach, StreamTypes
    <3>2. /\ sock'[fd[s]] = "unwatched" \/ fd'[s] = 0
          /\ \A g \in Fds \ {fd[s]} : sock'[g] = sock[g]
      <4>1. CASE fd' = fd /\ sock' = Unserved(s)
        BY <2>2, <3>1, <4>1 DEF Unserved, ReactorTypes
      <4>2. CASE fd' = [fd EXCEPT ![s] = 0] /\ sock' = [sock EXCEPT ![fd[s]] = "free"]
        BY <3>1, <4>2 DEF StreamTypes, ReactorTypes
      <4> QED BY <4>1, <4>2
    <3>3. fd'[s] # 0 => sock'[fd'[s]] # "free"
      BY <1>4, <3>2
    <3>4. \A t \in alive \ {s} : fd[t] # 0 => fd[t] \in Fds /\ fd[t] # fd[s]
      BY DEF OneOwnerEach, StreamTypes
    <3> QED BY <3>2, <3>3, <3>4
  <2> QED BY <2>1, <2>2
<1>8. OneOwnerEach'
  BY <1>4, <1>7 DEF OneOwnerEach, StreamTypes
<1>9. UpWhenOpen'
  BY <1>4 DEF UpWhenOpen, Streams, Relays
<1>10. ~ Hears(s)'
  BY <1>4 DEF Hears
<1>11. ASSUME NEW t \in alive \ {s}, Reached(t) PROVE Reached(t)'
  <2>1. fd[t] # watch[s]
    BY <1>11 DEF OneOwnerEach, Reached
  <2> QED BY <1>1, <1>4, <1>11, <2>1 DEF Reached, StreamTypes
<1>12. Others(s)
  BY <1>4, <1>11 DEF Others, StreamTypes
<1> QED BY <1>3, <1>4, <1>5, <1>6, <1>8, <1>9, <1>10, <1>12

\* A step that touches no stream keeps the invariant.
LEMMA IdleStep ==
  ASSUME IInv, Within, UNCHANGED <<streams, reactor, sock, duties>>
  PROVE  IInv'
<1>1. StreamInv'
  BY DEF IInv, Within, streams, reactor, StreamInv, StreamTypes, ReactorTypes, Fresh, Routes,
         OneOwnerEach, UpWhenOpen
<1>2. DutyTypes' /\ TimersOwned' /\ (reported \subseteq alive)' /\ Idle'
  BY DEF IInv, Within, streams, duties, DutyInv, DutyTypes, TimersOwned, Idle, Hears
<1>3. NobodyForgotten'
  BY DEF IInv, Within, streams, reactor, duties, DutyInv, NobodyForgotten, Hears, Reached,
         RefusedLate
<1> QED BY <1>1, <1>2, <1>3 DEF IInv, DutyInv, Within, ReadyType

\* handle_close keeps the invariant.
LEMMA CloseStep ==
  ASSUME IInv, Within, NEW s \in alive, HandleClose(s)
  PROVE  IInv'
<1>1. StreamInv' /\ Others(s) /\ watch'[s] = 0 /\ ~ Hears(s)'
  BY ClosedStep DEF IInv, HandleClose, Within
<1>2. DutyInv'
  BY <1>1, AnswersDuties DEF HandleClose, Within
<1> QED BY <1>1, <1>2 DEF IInv, Within, ReadyType

\* So does WebSocket::close.
LEMMA RejectStep ==
  ASSUME IInv, Within, NEW s \in alive, Rejects(s)
  PROVE  IInv'
<1>1. fd[s] # 0 /\ s \in Relays
  BY DEF Rejects, SockOf, Relays
<1>2. StreamInv' /\ Others(s) /\ watch'[s] = 0 /\ ~ Hears(s)'
  BY <1>1, ClosedStep DEF IInv, Rejects, Within
<1>3. Answers(s)
  BY <1>1 DEF Answers, Rejects
<1>4. DutyInv'
  BY <1>2, <1>3, AnswersDuties DEF Within
<1> QED BY <1>2, <1>4 DEF IInv, Within, ReadyType

\* So does a late refusal.
LEMMA RefusedStep ==
  ASSUME IInv, Within, NEW s \in alive, Refused(s)
  PROVE  IInv'
<1> USE DEF IInv, StreamInv, DutyInv
<1>1. s \in Signals => s \notin up
  BY DEF Refused, UpWhenOpen
<1>2. StreamInv' /\ Others(s) /\ state'[s] = "error"
  BY <1>1, StateStep DEF Refused, Within
<1>3. s \in redial \cup reported \/ RefusedLate(s)'
  BY <1>2 DEF NobodyForgotten, RefusedLate, Reached, Refused, Hears
<1>4. s \in redial => watch'[s] = 0 /\ ~ Hears(s)'
  BY <1>2 DEF Idle, Refused, Hears
<1>5. DutyInv'
  BY <1>2, <1>3, <1>4, ServedDuties DEF Refused, Within, duties, DutyTypes
<1> QED BY <1>2, <1>5 DEF Within, ReadyType

\* So do the connection's opening, the handshake's end, and waiting.
LEMMA ForwardStep ==
  ASSUME IInv, Within, NEW s \in alive, Opens(s) \/ Secures(s) \/ Waits(s) \/ Responds(s)
  PROVE  IInv'
<1> USE DEF IInv, StreamInv, DutyInv
<1>1. Hears(s) /\ s \notin redial
  <2>1. CASE Opens(s)
    BY <2>1 DEF Opens, Hears, SockOf, Idle
  <2>2. CASE Secures(s) \/ Waits(s) \/ Responds(s)
    BY <2>2 DEF Secures, Waits, Responds, Hears, Idle
  <2> QED BY <2>1, <2>2
<1>2. s \in reported \/ Reached(s)
  BY <1>1 DEF NobodyForgotten, RefusedLate, Hears
<1>3. CASE Opens(s) \/ Secures(s)
  <2>1. StreamInv' /\ Others(s) /\ Hears(s)'
    <3>1. CASE Opens(s)
      <4>1. PICK v \in {"handshaking", "open"} :
              state' = [state EXCEPT ![s] = v] /\ (v = "open" <=> s \in Signals)
        BY <3>1 DEF Opens, Tls
      <4>2. s \in Signals => s \in up'
        BY <3>1 DEF Opens, Tls
      <4>3. s \in Discords => up' = up
        BY <3>1, RelaysAssumption DEF Opens, Tls
      <4>4. StreamInv' /\ Others(s) /\ state'[s] = v
        BY <3>1, <4>1, <4>2, <4>3, StateStep DEF Opens, Within
      <4> QED BY <4>4 DEF Hears
    <3>2. CASE Secures(s)
      <4>1. s \notin Signals
        BY <3>2 DEF Secures, Tls
      <4>2. s \in Discords => up' = up
        BY <3>2, RelaysAssumption DEF Secures, Relays
      <4>3. StreamInv' /\ Others(s) /\ state'[s] = "open"
        BY <3>2, <4>1, <4>2, StateStep DEF Secures, Within
      <4> QED BY <4>3 DEF Hears
    <3> QED BY <1>3, <3>1, <3>2
  <2>2. Reached(s) => Reached(s)'
    BY <1>3 DEF Opens, Secures, reactor, Reached
  <2>3. DutyInv'
    BY <1>1, <1>2, <1>3, <2>1, <2>2, ServedDuties DEF Opens, Secures, Within, duties, DutyTypes
  <2> QED BY <2>1, <2>3 DEF Within, ReadyType
<1>4. CASE Waits(s) \/ Responds(s)
  <2>1. StreamInv' /\ Others(s)
    BY <1>4 DEF Waits, Responds, duties, streams, reactor, Within, Others, StreamTypes, ReactorTypes, Fresh,
                Routes, OneOwnerEach, UpWhenOpen, Reached
  <2>2. Hears(s)' /\ (Reached(s) => Reached(s)')
    BY <1>1, <1>4 DEF Waits, Responds, duties, streams, reactor, Hears, Reached
  <2>3. reported' \in {reported, reported \cup {s}} /\ reported' \subseteq Posts
    BY <1>4 DEF Waits, Responds, duties, DutyTypes
  <2>4. DutyInv'
    BY <1>1, <1>2, <1>4, <2>1, <2>2, <2>3, ServedDuties DEF Waits, Responds, duties, Within
  <2> QED BY <2>1, <2>4 DEF Within, ReadyType
<1> QED BY <1>3, <1>4

\* So does every step of the callbacks on an event, and doing nothing.
LEMMA ServeStep ==
  ASSUME IInv, Within, NEW s \in alive, NEW e, Serve(s, e)
  PROVE  IInv'
<1>1. CASE Refused(s)
  BY <1>1, RefusedStep
<1>2. CASE Opens(s) \/ Secures(s) \/ Waits(s) \/ Responds(s)
  BY <1>2, ForwardStep
<1>3. CASE Ends(s, e)
  BY <1>3, CloseStep DEF Ends
<1>4. CASE Rejects(s)
  BY <1>4, RejectStep
<1>5. CASE Ignores(s)
  BY <1>5, IdleStep DEF Ignores
<1> QED BY <1>1, <1>2, <1>3, <1>4, <1>5 DEF Serve

-----------------------------------------------------------------------------
(* The actions.                                                            *)

\* Making a relay keeps the invariant.
LEMMA EnableStep ==
  ASSUME IInv, NEW b \in Relays, Enable(b)
  PROVE  IInv'
<1> USE DEF IInv, StreamInv, DutyInv
<1>1. /\ b \in Streams \ alive /\ watch[b] = 0 /\ fd[b] = 0 /\ state[b] = "connecting"
      /\ b \notin redial /\ alive' = alive \cup {b} /\ b \in alive'
      /\ strayTimers' = strayTimers
  BY DEF Enable, Fresh, Streams, TimersOwned
<1>2. ReadyType'
  BY DEF Enable, ReadyType
<1>3. CASE Connects(b) /\ UNCHANGED duties
  <2>1. StreamInv' /\ Hears(b)' /\ Reached(b)' /\ Others(b)
    BY <1>1, <1>3, ConnectsStreams
  <2>2. DutyInv'
    BY <1>1, <1>3, <2>1, ServedDuties DEF duties, DutyTypes
  <2> QED BY <1>2, <2>1, <2>2
<1>4. CASE FailsToConnect(b) /\ Arm(b)
  <2>1. /\ StreamInv' /\ Others(b) /\ watch'[b] = 0
        /\ ~ Hears(b)' \/ (state'[b] = "connecting" /\ fd'[b] = 0)
    BY <1>1, <1>4, FailsStreams
  <2>2. Answers(b)
    BY <1>4 DEF Answers
  <2>3. DutyInv'
    BY <1>1, <2>1, <2>2, AnswersDuties
  <2> QED BY <1>2, <2>1, <2>3
<1> QED BY <1>3, <1>4 DEF Enable, Begins

\* So does a POST.
LEMMA PostStep ==
  ASSUME IInv, NEW p \in Posts, Post(p)
  PROVE  IInv'
<1> USE DEF IInv, StreamInv, DutyInv
<1>1. /\ p \in Streams \ alive /\ watch[p] = 0 /\ fd[p] = 0 /\ state[p] = "connecting"
      /\ p \notin redial /\ alive' = alive \cup {p} /\ p \in alive'
      /\ strayTimers' = strayTimers
  BY DEF Post, Fresh, Streams, TimersOwned
<1>2. ReadyType'
  BY DEF Post, ReadyType
<1>3. CASE Connects(p) /\ UNCHANGED duties
  <2>1. StreamInv' /\ Hears(p)' /\ Reached(p)' /\ Others(p)
    BY <1>1, <1>3, ConnectsStreams
  <2>2. DutyInv'
    BY <1>1, <1>3, <2>1, ServedDuties DEF duties, DutyTypes
  <2> QED BY <1>2, <2>1, <2>2
<1>4. CASE FailsToConnect(p) /\ Answers(p)
  <2>1. /\ StreamInv' /\ Others(p) /\ watch'[p] = 0
        /\ ~ Hears(p)' \/ (state'[p] = "connecting" /\ fd'[p] = 0)
    BY <1>1, <1>4, FailsStreams
  <2>2. DutyInv'
    BY <1>1, <1>4, <2>1, AnswersDuties
  <2> QED BY <1>2, <2>1, <2>2
<1> QED BY <1>3, <1>4 DEF Post

\* So does a redial, which uses up the timer.
LEMMA RedialStep ==
  ASSUME IInv, NEW b \in Relays, RedialFires(b)
  PROVE  IInv'
<1> USE DEF IInv, StreamInv, DutyInv
<1>1. /\ b \in alive /\ b \in Streams /\ watch[b] = 0 /\ b \notin Posts
      /\ ~ Hears(b) \/ (state[b] = "connecting" /\ fd[b] = 0)
      /\ alive' = alive \cup {b} /\ strayTimers' = strayTimers
  BY RelaysAssumption DEF RedialFires, Idle, Streams, TimersOwned
<1>2. ReadyType'
  BY DEF RedialFires, ReadyType
<1>3. CASE Connects(b) /\ redial' = redial \ {b} /\ timers' = [timers EXCEPT ![b] = @ - 1]
           /\ UNCHANGED reported
  <2>1. StreamInv' /\ Hears(b)' /\ Reached(b)' /\ Others(b)
    BY <1>1, <1>3, ConnectsStreams
  <2>2. timers[b] = 1
    BY DEF TimersOwned, RedialFires
  <2>3. timers' \in [Relays -> Nat] /\ timers'[b] = 0
        /\ \A c \in Relays \ {b} : timers'[c] = timers[c]
    BY <1>3, <2>2 DEF DutyTypes
  <2>4. DutyTypes' /\ TimersOwned'
    BY <1>1, <1>3, <2>3 DEF DutyTypes, TimersOwned
  <2>5. Idle'
    BY <1>1, <1>3, <2>1 DEF Idle, Others, Hears, TimersOwned
  <2>6. NobodyForgotten'
    BY <1>1, <1>3, <2>1 DEF NobodyForgotten, Others, Hears, RefusedLate
  <2> QED BY <1>1, <1>2, <1>3, <2>1, <2>4, <2>5, <2>6
<1>4. CASE FailsToConnect(b) /\ UNCHANGED duties
  <2>1. /\ StreamInv' /\ Others(b) /\ watch'[b] = 0
        /\ ~ Hears(b)' \/ (state'[b] = "connecting" /\ fd'[b] = 0)
    BY <1>1, <1>4, FailsStreams
  <2>2. b \in redial' /\ b \in alive'
    BY <1>1, <1>4 DEF RedialFires, duties
  <2>3. DutyInv'
    BY <1>1, <1>4, <2>1, <2>2, ServedDuties DEF duties, DutyTypes
  <2> QED BY <1>2, <2>1, <2>3
<1> QED BY <1>3, <1>4 DEF RedialFires

\* So does an event, whomever it reaches.
LEMMA DispatchStep ==
  ASSUME IInv, NEW f \in Fds, Dispatch(f)
  PROVE  IInv'
<1>1. Within
  BY DEF Dispatch, Within, IInv, ReadyType, Events
<1>2. CASE UNCHANGED <<streams, reactor, sock, duties>>
  BY <1>1, <1>2, IdleStep
<1>3. CASE by_fd[f] = Freed /\ ServeFreed(ready[f])
  <2>1. CASE \E b \in Relays \cap alive : Serve(b, ready[f]) \/ HandleClose(b)
    BY <1>1, <2>1, ServeStep, CloseStep
  <2> QED BY <1>2, <1>3, <2>1 DEF ServeFreed
<1>4. CASE f \in DOMAIN by_fd /\ by_fd[f] \in Streams
  <2>1. by_fd[f] \in alive
    BY <1>4, RelaysAssumption DEF IInv, StreamInv, Routes
  <2>2. CASE HandleClose(by_fd[f])
    BY <1>1, <2>1, <2>2, CloseStep
  <2>3. CASE Ignores(by_fd[f])
    BY <1>2, <2>3 DEF Ignores
  <2>4. CASE Serve(by_fd[f], ready[f])
    BY <1>1, <2>1, <2>4, ServeStep
  <2>5. \/ f \notin DOMAIN by_fd /\ UNCHANGED <<streams, reactor, sock, duties>>
        \/ by_fd[f] = Freed
        \/ HandleClose(by_fd[f]) \/ Ignores(by_fd[f]) \/ Serve(by_fd[f], ready[f])
    BY DEF Dispatch
  <2> QED BY <1>4, <2>2, <2>3, <2>4, <2>5, RelaysAssumption
<1> QED BY <1>2, <1>3, <1>4 DEF Dispatch

\* So does destroying a relay, whatever its stream is doing.
LEMMA DestroyStep ==
  ASSUME IInv, NEW b \in Relays, Destroy(b)
  PROVE  IInv'
<1> USE DEF IInv, StreamInv, DutyInv
<1>1. /\ b \in alive /\ b \in Streams /\ b \notin Posts
      /\ alive' = alive \ {b}
      /\ state' = [state EXCEPT ![b] = "connecting"]
      /\ fd' = [fd EXCEPT ![b] = 0] /\ watch' = [watch EXCEPT ![b] = 0]
      /\ up' = up \ {b} /\ redial' = redial \ {b} /\ reported' = reported
      /\ timers' = [timers EXCEPT ![b] = 0]
      /\ sock' = IF fd[b] = 0 THEN sock ELSE [sock EXCEPT ![fd[b]] = "free"]
  BY RelaysAssumption DEF Destroy, Streams
<1>2. /\ state'[b] = "connecting" /\ watch'[b] = 0 /\ fd'[b] = 0
      /\ \A t \in Streams \ {b} : state'[t] = state[t] /\ watch'[t] = watch[t] /\ fd'[t] = fd[t]
  BY <1>1 DEF StreamTypes
<1>3. /\ IsTable(by_fd', Fds, Streams \cup {Freed})
      /\ stray \subseteq stray' /\ stray' \subseteq Fds
      /\ \A g \in DOMAIN by_fd' :
           \/ by_fd'[g] = by_fd[g] /\ g \in DOMAIN by_fd /\ by_fd[g] # b
           \/ by_fd'[g] = Freed /\ g \in stray'
      /\ \A g \in DOMAIN by_fd : g # watch[b] => g \in DOMAIN by_fd'
  <2>1. /\ IsTable(Unwatched(b), Fds, Streams \cup {Freed})
        /\ \A g : g \in DOMAIN Unwatched(b) <=> g \in DOMAIN by_fd /\ g # watch[b]
        /\ \A g \in DOMAIN Unwatched(b) : Unwatched(b)[g] = by_fd[g]
    BY <1>1, UnwatchedAt
  <2>2. \A g \in DOMAIN by_fd : by_fd[g] = b => watch[b] = g
    BY <1>1, RelaysAssumption DEF Routes
  <2>3. CASE by_fd' = Unwatched(b) /\ stray' = stray
    <3>1. \A g \in DOMAIN by_fd' : by_fd'[g] = by_fd[g] /\ g \in DOMAIN by_fd /\ by_fd[g] # b
      BY <2>1, <2>2, <2>3
    <3>2. \A g \in DOMAIN by_fd : g # watch[b] => g \in DOMAIN by_fd'
      BY <2>1, <2>3
    <3> QED BY <2>1, <2>3, <3>1, <3>2 DEF ReactorTypes
  <2>4. CASE /\ watch[b] # 0
             /\ by_fd' = [g \in DOMAIN by_fd |-> IF by_fd[g] = b THEN Freed ELSE by_fd[g]]
             /\ stray' = stray \cup {watch[b]}
    <3>1. DOMAIN by_fd \subseteq Fds /\ by_fd \in [DOMAIN by_fd -> Streams \cup {Freed}]
      BY IsTableElim DEF ReactorTypes
    <3>2. by_fd' \in [DOMAIN by_fd -> Streams \cup {Freed}]
      BY <2>4, <3>1
    <3>3. IsTable(by_fd', Fds, Streams \cup {Freed})
      BY <3>1, <3>2, IsTableIntro
    <3>4. watch[b] \in Fds
      BY <1>1, <2>4 DEF StreamTypes
    <3>5. DOMAIN by_fd' = DOMAIN by_fd
      BY <2>4
    <3>6. \A g \in DOMAIN by_fd' :
            \/ by_fd'[g] = by_fd[g] /\ g \in DOMAIN by_fd /\ by_fd[g] # b
            \/ by_fd'[g] = Freed /\ g \in stray'
      BY <2>2, <2>4
    <3>7. stray \subseteq stray' /\ stray' \subseteq Fds
      BY <2>4, <3>4 DEF ReactorTypes
    <3> QED BY <3>3, <3>5, <3>6, <3>7
  <2> QED BY <2>3, <2>4 DEF Destroy
<1>4. StreamTypes'
  BY <1>1 DEF StreamTypes
<1>5. ReactorTypes'
  BY <1>1, <1>3 DEF ReactorTypes, StreamTypes, Socks
<1>6. Fresh'
  BY <1>1, <1>2 DEF Fresh
<1>7. Routes'
  BY <1>1, <1>2, <1>3 DEF Routes, StreamTypes
<1>8. \A t \in alive \ {b} : fd[t] # 0 => fd[t] # fd[b] /\ sock'[fd[t]] = sock[fd[t]]
  BY <1>1 DEF OneOwnerEach, StreamTypes, ReactorTypes
<1>9. OneOwnerEach'
  BY <1>1, <1>2, <1>8 DEF OneOwnerEach, StreamTypes
<1>10. UpWhenOpen'
  BY <1>1, <1>2 DEF UpWhenOpen, Streams, Relays
<1>11. ASSUME NEW t \in alive \ {b}, Reached(t) PROVE Reached(t)'
  <2>1. fd[t] # watch[b] /\ fd[t] \in DOMAIN by_fd'
    BY <1>1, <1>3, <1>11 DEF OneOwnerEach, Reached
  <2>2. by_fd'[fd[t]] = by_fd[fd[t]] \/ (by_fd'[fd[t]] = Freed /\ fd[t] \in stray')
    BY <1>3, <2>1
  <2> QED BY <1>2, <1>3, <1>11, <2>1, <2>2 DEF Reached, StreamTypes
<1>12. TimersLeft(b) = 0
  BY <1>1 DEF TimersLeft, TimersOwned, DutyTypes
<1>13. strayTimers' = 0
  BY <1>12 DEF Destroy, TimersOwned
<1>14. DutyTypes' /\ TimersOwned' /\ (reported \subseteq alive)'
  BY <1>1, <1>13 DEF DutyTypes, TimersOwned
<1>15. Idle'
  BY <1>1, <1>2 DEF Idle, Hears, Streams, DutyTypes
<1>16. NobodyForgotten'
  BY <1>1, <1>2, <1>11 DEF NobodyForgotten, Hears, RefusedLate, StreamTypes
<1>17. ReadyType'
  BY DEF Destroy, ReadyType
<1> QED BY <1>4, <1>5, <1>6, <1>7, <1>9, <1>10, <1>14, <1>15, <1>16, <1>17

\* Nothing there is as it should be.
LEMMA NothingThere == Init => IInv
<1> SUFFICES ASSUME Init PROVE IInv
  OBVIOUS
<1> USE DEF Init
<1>1. StreamTypes /\ DutyTypes /\ ReactorTypes /\ ReadyType
  BY NoFunctionType DEF StreamTypes, DutyTypes, ReactorTypes, ReadyType, Socks, Events
<1>2. Fresh /\ Routes /\ OneOwnerEach /\ UpWhenOpen
  BY DEF Fresh, Routes, OneOwnerEach, UpWhenOpen, NoFunction, Streams, Relays
<1>3. TimersOwned /\ Idle /\ NobodyForgotten
  BY DEF TimersOwned, Idle, NobodyForgotten
<1> QED BY <1>1, <1>2, <1>3 DEF IInv, StreamInv, DutyInv

\* The peers disturb no stream.
LEMMA PeerStep ==
  ASSUME IInv, NEW f \in Fds, Peer(f)
  PROVE  IInv'
<1> USE DEF IInv, StreamInv, DutyInv
<1>1. PICK v \in {"up", "refused"} : sock' = [sock EXCEPT ![f] = v]
  BY DEF Peer
<1>2. UNCHANGED <<alive, streams, duties, strayTimers, reactor, ready>>
  BY DEF Peer
<1>3. StreamTypes' /\ DutyTypes' /\ ReactorTypes' /\ ReadyType'
  BY <1>1, <1>2 DEF StreamTypes, DutyTypes, ReactorTypes, ReadyType, Socks, streams, duties, reactor
<1>4. \A g \in Fds : sock'[g] = "free" => sock[g] = "free"
  BY <1>1 DEF ReactorTypes
<1>5. Fresh' /\ Routes' /\ UpWhenOpen' /\ TimersOwned' /\ Idle' /\ (reported \subseteq alive)'
  BY <1>2 DEF streams, duties, reactor, Fresh, Routes, UpWhenOpen, TimersOwned, Idle, Hears
<1>6. OneOwnerEach'
  BY <1>2, <1>4 DEF streams, OneOwnerEach, StreamTypes
<1>7. NobodyForgotten'
  BY <1>2 DEF streams, duties, reactor, NobodyForgotten, Hears, Reached, RefusedLate
<1> QED BY <1>3, <1>5, <1>6, <1>7

-----------------------------------------------------------------------------
(* The theorems.                                                           *)

\* The invariant is inductive.
LEMMA Inductive == Spec => []IInv
<1>1. Init => IInv
  BY NothingThere
<1>2. IInv /\ [Next]_vars => IInv'
  <2> SUFFICES ASSUME IInv, [Next]_vars PROVE IInv'
    OBVIOUS
  <2>1. ASSUME NEW b \in Relays, Enable(b) \/ Destroy(b) \/ RedialFires(b) PROVE IInv'
    BY <2>1, EnableStep, DestroyStep, RedialStep
  <2>2. ASSUME NEW p \in Posts, Post(p) PROVE IInv'
    BY <2>2, PostStep
  <2>3. ASSUME NEW f \in Fds, Dispatch(f) \/ Peer(f) PROVE IInv'
    BY <2>3, DispatchStep, PeerStep
  <2>4. CASE Crash
    <3>1. Init'
      BY <2>4 DEF Crash, Init
    <3> QED BY <3>1, NothingThere, PTL
  <2>5. CASE Poll
    BY <2>5, IdleStep DEF Poll, Within
  <2>6. CASE UNCHANGED vars
    <3>1. Within /\ UNCHANGED <<streams, reactor, sock, duties>>
      BY <2>6 DEF vars, Within, IInv, ReadyType, streams, reactor, duties
    <3> QED BY <3>1, IdleStep
  <2> QED BY <2>1, <2>2, <2>3, <2>4, <2>5, <2>6 DEF Next
<1> QED BY <1>1, <1>2, PTL DEF Spec

\* Every variable keeps its type: the timers of a destroyed relay are not
\* counted below zero.
THEOREM RelaysTypeOK == Spec => []TypeOK
<1>1. IInv => TypeOK
  BY TypeParts DEF IInv, StreamInv, DutyInv
<1> QED BY <1>1, Inductive, PTL

\* A relay has its one redial timer exactly while it knows of it, and destroying
\* a relay leaves none behind.
THEOREM RelaysTimers == Spec => []TimersOwned
<1>1. IInv => TimersOwned
  BY DEF IInv, DutyInv
<1> QED BY <1>1, Inductive, PTL

\* Relays and POSTs are served, due for another try, done, or refused late.
THEOREM RelaysNobodyForgotten == Spec => []NobodyForgotten
<1>1. IInv => NobodyForgotten
  BY DEF IInv, DutyInv
<1> QED BY <1>1, Inductive, PTL

\* No two streams share a descriptor, whatever is closed, left or given again.
THEOREM RelaysOneOwner == Spec => []OneOwnerEach
<1>1. IInv => OneOwnerEach
  BY DEF IInv, StreamInv
<1> QED BY <1>1, Inductive, PTL

\* A Signal relay believes in its connection exactly while it has one, and a
\* Discord relay's WebSocket never asks to be one.
THEOREM RelaysUpWhenOpen == Spec => []UpWhenOpen
<1>1. IInv => UpWhenOpen
  BY DEF IInv, StreamInv
<1> QED BY <1>1, Inductive, PTL
=============================================================================
