----------------------------- MODULE LinkProofs -----------------------------
(***************************************************************************)
(* Theorems about Link, for every value of its constants.                  *)
(***************************************************************************)
EXTENDS Link, TLAPS, WellFoundedInduction

\* The retry delay is a delay within the configured limits.
LEMMA RetryDelayType ==
  ASSUME NEW n \in Nat
  PROVE  RetryDelay(n) \in RetryMin..RetryMax /\ RetryDelay(n) # 0
BY LinkAssumption DEF RetryDelay

\* What the program queues is made of lines of its own.
LEMMA QueuedLines ==
  /\ \A l \in OurLines : <<l>> \in Seq(OurLines)
  /\ {"CAPAB START", "ERROR", "PONG", "DATA"} \subseteq OurLines
  /\ CapabLines \in Seq(OurLines)
  /\ BurstLines \in Seq(OurLines)
  /\ ServerLine \in Seq(OurLines)
  /\ EnsureBurst \in Seq(OurLines)
  /\ <<>> \in Seq(OurLines)
<1>1. <<>> \in Seq(OurLines)
  OBVIOUS
<1>2. \A l \in OurLines : <<l>> \in Seq(OurLines)
  OBVIOUS
<1>3. {"CAPAB START", "ERROR", "PONG", "DATA", "CAPABILITIES", "CAPAB END",
       "SERVER", "BURST", "ENDBURST"} = OurLines
  BY DEF OurLines
<1>4. CapabLines \in Seq(OurLines)
  <2>1. \A k, l \in OurLines : <<k, l>> \in Seq(OurLines)
    OBVIOUS
  <2> QED BY <1>3, <2>1, Zenon DEF CapabLines
<1>5. BurstLines \in Seq(OurLines)
  <2>1. \A k, l, m \in OurLines : <<k, l, m>> \in Seq(OurLines)
    OBVIOUS
  <2> QED BY <1>3, <2>1, Zenon DEF BurstLines
<1>6. ServerLine \in Seq(OurLines)
  BY <1>1, <1>2, <1>3 DEF ServerLine
<1>7. EnsureBurst \in Seq(OurLines)
  BY <1>1, <1>5 DEF EnsureBurst
<1> QED BY <1>1, <1>2, <1>3, <1>4, <1>5, <1>6, <1>7

\* What a session has said grows by these lines.
Says(lines) == sent' = sent \o lines

OutputOK == stale \in BOOLEAN /\ unsent \in Nat /\ sent \in Seq(OurLines)

\* Queueing lines keeps the output buffer and what was sent well typed.
LEMMA QueueType ==
  ASSUME OutputOK, NEW lines \in Seq(OurLines), Queue(lines)
  PROVE  OutputOK'
BY DEF OutputOK, Queue

\* So does sending them, whatever the state of the stream.
LEMMA SendType ==
  ASSUME OutputOK, NEW lines \in Seq(OurLines), Send(lines)
  PROVE  OutputOK'
BY QueueType DEF OutputOK, Send, output

\* The backoff stays between its two bounds.
LEMMA TimerType ==
  ASSUME TypeOK, ScheduleReconnect
  PROVE  attempts' \in Nat /\ retry_timer' \in {0} \cup RetryMin..RetryMax
BY RetryDelayType DEF TypeOK, ScheduleReconnect, timer

\* to_idle and close end in a state of the machine.
LEMMA GoDownType ==
  ASSUME TypeOK, GoDown
  PROVE  /\ state' \in States /\ inbound' \in BOOLEAN /\ conn' \in ConnStates
         /\ caps_done' \in BOOLEAN /\ server_sent' \in BOOLEAN
         /\ burst_sent' \in BOOLEAN /\ registered' \in BOOLEAN
         /\ attempts' \in Nat
         /\ retry_timer' \in {0} \cup RetryMin..RetryMax
BY TimerType DEF TypeOK, GoDown, flags, States, ConnStates

\* A lost connection keeps or loses its output, never invents any.
LEMMA LoseOutputType ==
  ASSUME TypeOK, LoseOutput, sent' = sent
  PROVE  OutputOK'
<1>1. 0 \in Nat /\ FALSE \in BOOLEAN
  OBVIOUS
<1> QED BY <1>1, Zenon DEF TypeOK, LoseOutput, PushedOut, OutputOK

\* Dialling is well typed, whatever connect(2) answers.
LEMMA ConnectType ==
  ASSUME TypeOK, Connect, registered' \in BOOLEAN
  PROVE  TypeOK'
<1>1. OutputOK' /\ heard' \in SUBSET PeerHandshake
  BY DEF TypeOK, Connect, ResetSession, OutputOK
<1>2. attempts' \in Nat /\ retry_timer' \in {0} \cup RetryMin..RetryMax
  BY RetryDelayType DEF TypeOK, Connect
<1>3. /\ state' \in States /\ inbound' \in BOOLEAN /\ conn' \in ConnStates
      /\ caps_done' \in BOOLEAN /\ server_sent' \in BOOLEAN
      /\ burst_sent' \in BOOLEAN
  BY DEF TypeOK, Connect, ResetSession, States, ConnStates
<1> QED BY <1>1, <1>2, <1>3 DEF TypeOK, OutputOK

\* So is what follows the connection and the TLS handshake.
LEMMA TransportReadyType ==
  ASSUME TypeOK, TransportReady
  PROVE  TypeOK'
<1>1. OutputOK'
  BY QueueType, QueuedLines DEF TypeOK, OutputOK, TransportReady
<1> QED
  BY <1>1 DEF TypeOK, TransportReady, OutputOK, timer, States, ConnStates

\* Every variable keeps its type.
THEOREM LinkTypeOK == Spec => []TypeOK
<1>1. Init => TypeOK
  <2>1. <<>> \in Seq(OurLines) /\ {} \in SUBSET PeerHandshake /\ 0 \in Nat
    OBVIOUS
  <2> QED BY <2>1, Zenon DEF Init, TypeOK, States, ConnStates
<1>2. TypeOK /\ [Next]_vars => TypeOK'
  <2> SUFFICES ASSUME TypeOK, [Next]_vars PROVE TypeOK'
    OBVIOUS
  <2>0. OutputOK
    BY DEF TypeOK, OutputOK
  <2>1. CASE AddUplink
    BY <2>1, ConnectType DEF AddUplink
  <2>2. CASE AddInbound
    <3>1. OutputOK'
      BY <2>0, <2>2, QueueType, QueuedLines DEF AddInbound
    <3> QED
      BY <2>2, <3>1 DEF AddInbound, TypeOK, OutputOK, flags, timer, States, ConnStates
  <2>3. CASE RetryFires
    BY <2>3, ConnectType DEF RetryFires, TypeOK
  <2>4. CASE Connected
    <3>1. CASE SendTls
      BY <2>4, <3>1 DEF Connected, TypeOK, flags, timer, output, ConnStates
    <3>2. CASE ~SendTls
      BY <2>4, <3>2, TransportReadyType DEF Connected
    <3> QED BY <3>1, <3>2
  <2>5. CASE ConnectRefused
    BY <2>5 DEF ConnectRefused, TypeOK, flags, timer, output, ConnStates
  <2>6. CASE HandshakeDone
    BY <2>6, TransportReadyType DEF HandshakeDone
  <2>7. CASE PeerDrops
    <3>1. OutputOK'
      BY <2>7, LoseOutputType DEF PeerDrops
    <3> QED BY <2>7, <3>1, GoDownType DEF PeerDrops, OutputOK, TypeOK
  <2>8. CASE Flush
    <3>1. unsent' \in 0..unsent /\ stale' = FALSE /\ sent' = sent
      BY <2>8 DEF Flush
    <3>2. unsent \in Nat
      BY <2>0 DEF OutputOK
    <3>3. unsent' \in Nat
      BY <3>2, <3>1, SMT
    <3>4. OutputOK'
      BY <2>0, <3>1, <3>3, Zenon DEF OutputOK
    <3> QED BY <2>8, <3>4, Zenon DEF Flush, TypeOK, OutputOK, flags, timer
  <2>9. CASE CapabStart
    <3>1. OutputOK'
      BY <2>0, <2>9, SendType, QueuedLines DEF CapabStart
    <3> QED
      BY <2>9, <3>1 DEF CapabStart, Hears, TypeOK, OutputOK, timer, PeerHandshake
  <2>10. CASE Capabilities
    BY <2>10 DEF Capabilities, Hears, TypeOK, flags, timer, output, PeerHandshake
  <2>11. CASE CapabEnd
    <3>1. OutputOK' /\ server_sent' \in BOOLEAN
      BY <2>0, <2>11, SendType, QueuedLines DEF CapabEnd, OutputOK, output, TypeOK
    <3> QED
      BY <2>11, <3>1 DEF CapabEnd, Hears, TypeOK, OutputOK, timer, PeerHandshake
  <2>12. CASE Server
    <3>1. OutputOK' /\ server_sent' \in BOOLEAN /\ burst_sent' \in BOOLEAN
      BY <2>0, <2>12, SendType, QueuedLines DEF Server, TypeOK
    <3> QED
      BY <2>12, <3>1 DEF Server, Hears, TypeOK, OutputOK, timer, PeerHandshake, States
  <2>13. CASE Reject
    <3>1. OutputOK' /\ heard' \in SUBSET PeerHandshake
      <4>1. CASE Queue(<<"ERROR">>)
        BY <2>0, <2>13, <4>1, QueueType, QueuedLines DEF Reject, TypeOK
      <4>2. CASE LoseOutput /\ sent' = sent
        BY <2>13, <4>2, LoseOutputType DEF Reject, TypeOK
      <4>3. CASE PushedOut /\ sent' = sent \o <<"ERROR">>
        <5>1. <<"ERROR">> \in Seq(OurLines)
          BY QueuedLines
        <5>2. heard' = heard
          BY <2>13 DEF Reject
        <5>3. sent' \in Seq(OurLines)
          BY <2>0, <4>3, <5>1 DEF OutputOK
        <5>4. unsent' \in Nat /\ stale' \in BOOLEAN
          <6>1. 0 \in Nat
            OBVIOUS
          <6> QED BY <4>3, <6>1, Zenon DEF PushedOut
        <5> QED BY <5>2, <5>3, <5>4 DEF TypeOK, OutputOK
      <4> QED BY <2>13, <4>1, <4>2, <4>3, Zenon DEF Reject
    <3> QED
      BY <2>13, <3>1, GoDownType DEF Reject, TypeOK, OutputOK
  <2>14. CASE PeerError
    <3>1. OutputOK'
      BY <2>14, LoseOutputType DEF PeerError
    <3> QED BY <2>14, <3>1, GoDownType DEF PeerError, OutputOK, TypeOK
  <2>15. CASE Burst
    <3>1. OutputOK' /\ burst_sent' \in BOOLEAN
      BY <2>0, <2>15, SendType, QueuedLines DEF Burst, OutputOK, output, TypeOK
    <3> QED
      BY <2>15, <3>1 DEF Burst, Hears, TypeOK, OutputOK, timer, PeerHandshake, States
  <2>16. CASE EndBurst
    BY <2>16 DEF EndBurst, Hears, TypeOK, flags, output, PeerHandshake, States
  <2>17. CASE Ping
    <3>1. OutputOK'
      BY <2>0, <2>17, SendType, QueuedLines DEF Ping
    <3> QED BY <2>17, <3>1 DEF Ping, TypeOK, OutputOK, flags, timer
  <2>18. CASE Deliver
    <3>1. OutputOK'
      BY <2>0, <2>18, SendType, QueuedLines DEF Deliver
    <3> QED BY <2>18, <3>1 DEF Deliver, TypeOK, OutputOK, flags, timer
  <2>19. CASE Reburst
    <3>1. OutputOK'
      BY <2>0, <2>19, SendType, QueuedLines DEF Reburst
    <3> QED BY <2>19, <3>1 DEF Reburst, TypeOK, OutputOK, flags, timer
  <2>20. CASE UNCHANGED vars
    BY <2>20 DEF vars, TypeOK
  <2> QED
    BY <2>1, <2>2, <2>3, <2>4, <2>5, <2>6, <2>7, <2>8, <2>9, <2>10, <2>11,
       <2>12, <2>13, <2>14, <2>15, <2>16, <2>17, <2>18, <2>19, <2>20 DEF Next
<1> QED BY <1>1, <1>2, PTL DEF Spec

-----------------------------------------------------------------------------
(* The safety invariants.  They are not inductive alone: that a live link   *)
(* has no timer rests on which streams a state of the link may own, and on  *)
(* an idle link owning nothing.                                             *)

StateMatchesStream ==
  /\ state = "idle" => conn = "closed" /\ retry_timer = 0 /\ inbound = FALSE
  /\ state = "dying" => conn = "closed"
  /\ conn = "closed" => state \in {"idle", "connecting", "dying"}
  /\ conn \in {"connecting", "error"} => state = "connecting"
  /\ conn = "open" => state \in {"nego", "waiting", "burst", "linked"}
  /\ conn = "handshaking" => state \in {"connecting", "nego"}

Safe ==
  /\ StateMatchesStream
  /\ RetryArmedIffDown
  /\ HubListsLiveLinks
  /\ Authenticated

IInv == TypeOK /\ Safe

\* schedule_reconnect arms the timer of an uplink and of no other link.
LEMMA ScheduleArms ==
  ASSUME TypeOK, ScheduleReconnect
  PROVE  /\ Uplink => retry_timer' # 0
         /\ ~Uplink => retry_timer' = retry_timer
BY RetryDelayType DEF TypeOK, ScheduleReconnect, Uplink, timer

\* A link with a stream in use is down in no sense, so no timer is armed.
LEMMA LiveIsUnarmed ==
  ASSUME Safe, conn # "closed"
  PROVE  retry_timer = 0 /\ state # "idle" /\ state # "dying"
BY DEF Safe, StateMatchesStream, RetryArmedIffDown

\* Every way down leaves a link that redials with its timer armed.
LEMMA GoDownSafe ==
  ASSUME TypeOK, Safe, GoDown, conn # "closed",
         heard \subseteq heard'
  PROVE  Safe'
<1>1. RetryArmedIffDown'
  BY LiveIsUnarmed, ScheduleArms DEF GoDown, RetryArmedIffDown, Uplink
<1> QED
  BY <1>1 DEF Safe, GoDown, flags, StateMatchesStream, HubListsLiveLinks,
     Authenticated

\* Dialling keeps the safety invariant.
LEMMA ConnectSafe ==
  ASSUME TypeOK, Safe, Connect,
         (state = "idle" /\ registered' = TRUE) \/ registered' = registered
  PROVE  Safe'
<1>1. RetryArmedIffDown'
  BY RetryDelayType DEF TypeOK, Connect, RetryArmedIffDown, Uplink
<1> QED
  BY <1>1 DEF Safe, Connect, ResetSession, StateMatchesStream,
     HubListsLiveLinks, Authenticated

\* So does a transport that becomes ready.
LEMMA TransportReadySafe ==
  ASSUME Safe, TransportReady, conn \in {"connecting", "handshaking"}
  PROVE  Safe'
BY LiveIsUnarmed DEF Safe, TransportReady, timer, StateMatchesStream,
   RetryArmedIffDown, HubListsLiveLinks, Authenticated, Uplink

\* Steps that only talk leave the state of the link, its stream, its timer and
\* its entry in the hub alone.
LEMMA TalkSafe ==
  ASSUME Safe,
         UNCHANGED <<state, inbound, burst_sent, timer, conn, registered>>,
         heard \subseteq heard'
  PROVE  Safe'
BY DEF Safe, timer, StateMatchesStream, RetryArmedIffDown, HubListsLiveLinks,
   Authenticated, Uplink

\* IInv, the invariants together with the link's coupling to its stream, is
\* preserved by every callback.
LEMMA SafeStep == IInv /\ [Next]_vars => Safe'
<1> SUFFICES ASSUME TypeOK, Safe, [Next]_vars PROVE Safe'
  BY DEF IInv
<1>1. CASE AddUplink
  BY <1>1, ConnectSafe DEF AddUplink
<1>2. CASE AddInbound
  BY <1>2 DEF AddInbound, Safe, flags, timer, StateMatchesStream,
     RetryArmedIffDown, HubListsLiveLinks, Authenticated, Uplink
<1>3. CASE RetryFires
  BY <1>3, ConnectSafe DEF RetryFires
<1>4. CASE Connected
  <2>1. CASE SendTls
    BY <1>4, <2>1, LiveIsUnarmed DEF Connected, Safe, flags, timer,
       StateMatchesStream, RetryArmedIffDown, HubListsLiveLinks,
       Authenticated, Uplink
  <2>2. CASE ~SendTls
    BY <1>4, <2>2, TransportReadySafe DEF Connected
  <2> QED BY <2>1, <2>2
<1>5. CASE ConnectRefused
  BY <1>5, LiveIsUnarmed DEF ConnectRefused, Safe, flags, timer,
     StateMatchesStream, RetryArmedIffDown, HubListsLiveLinks,
     Authenticated, Uplink
<1>6. CASE HandshakeDone
  BY <1>6, TransportReadySafe DEF HandshakeDone
<1>7. CASE PeerDrops
  BY <1>7, GoDownSafe DEF PeerDrops
<1>8. CASE Flush
  BY <1>8, TalkSafe DEF Flush, flags
<1>9. CASE CapabStart
  BY <1>9, TalkSafe DEF CapabStart, Hears
<1>10. CASE Capabilities
  BY <1>10, TalkSafe DEF Capabilities, Hears, flags
<1>11. CASE CapabEnd
  BY <1>11, TalkSafe DEF CapabEnd, Hears
<1>12. CASE Server
  BY <1>12, LiveIsUnarmed DEF Server, Hears, Safe, timer, StateMatchesStream,
     RetryArmedIffDown, HubListsLiveLinks, Authenticated, Uplink
<1>13. CASE Reject
  BY <1>13, GoDownSafe DEF Reject
<1>14. CASE PeerError
  BY <1>14, GoDownSafe DEF PeerError
<1>15. CASE Burst
  BY <1>15, LiveIsUnarmed DEF Burst, Hears, Safe, timer, StateMatchesStream,
     RetryArmedIffDown, HubListsLiveLinks, Authenticated, Uplink
<1>16. CASE EndBurst
  BY <1>16, LiveIsUnarmed DEF EndBurst, Hears, Safe, flags, StateMatchesStream,
     RetryArmedIffDown, HubListsLiveLinks, Authenticated, Uplink
<1>17. CASE Ping
  BY <1>17, TalkSafe DEF Ping, flags
<1>18. CASE Deliver
  BY <1>18, TalkSafe DEF Deliver, flags
<1>19. CASE Reburst
  BY <1>19, TalkSafe DEF Reburst, flags
<1>20. CASE UNCHANGED vars
  BY <1>20, TalkSafe DEF vars, timer
<1> QED
  BY <1>1, <1>2, <1>3, <1>4, <1>5, <1>6, <1>7, <1>8, <1>9, <1>10, <1>11,
     <1>12, <1>13, <1>14, <1>15, <1>16, <1>17, <1>18, <1>19, <1>20 DEF Next

\* Safe holds in every reachable state, whatever the peer sends.
THEOREM LinkSafe == Spec => []Safe
<1>1. Init => Safe
  BY DEF Init, Safe, StateMatchesStream, RetryArmedIffDown, HubListsLiveLinks,
     Authenticated, Uplink
<1>2. TypeOK /\ Safe /\ [Next]_vars => Safe'
  BY SafeStep DEF IInv
<1> QED BY <1>1, <1>2, LinkTypeOK, PTL DEF Spec

\* A redial is armed exactly while a redialling uplink is down.
THEOREM LinkRetryArmed == Spec => []RetryArmedIffDown
<1>1. Safe => RetryArmedIffDown
  BY DEF Safe
<1> QED BY <1>1, LinkSafe, PTL

\* The hub lists every link that can carry traffic and no dead one.
THEOREM LinkHubLists == Spec => []HubListsLiveLinks
<1>1. Safe => HubListsLiveLinks
  BY DEF Safe
<1> QED BY <1>1, LinkSafe, PTL

\* Traffic is exchanged only after -----------------------------------------------------------------------------
(* Our netburst is sent at most once in a session, unless an operator asks  *)
(* for it with REBURST.                                                     *)

BurstCounted ==
  /\ burst_sent = FALSE => Positions("BURST") = {}
  /\ BurstAtMostOnce

\* Lines other than BURST leave the positions of BURST in the output alone.
LEMMA QueueNoBurst ==
  ASSUME TypeOK, NEW lines \in Seq(OurLines), Says(lines),
         \A k \in 1..Len(lines) : lines[k] # "BURST"
  PROVE  Positions("BURST")' = Positions("BURST")
<1>1. sent \in Seq(OurLines)
  BY DEF TypeOK
<1>2. sent' = sent \o lines
  BY DEF Says
<1>3. /\ Len(sent') = Len(sent) + Len(lines)
      /\ \A k \in 1..Len(sent') :
           sent'[k] = IF k <= Len(sent) THEN sent[k] ELSE lines[k - Len(sent)]
  BY <1>1, <1>2
<1>4. \A k \in 1..Len(sent') :
        sent'[k] = "BURST" => k \in 1..Len(sent) /\ sent[k] = "BURST"
  BY <1>1, <1>3
<1>5. \A k \in 1..Len(sent) : k \in 1..Len(sent') /\ sent'[k] = sent[k]
  BY <1>1, <1>3
<1> QED BY <1>4, <1>5 DEF Positions

\* The netburst holds one BURST, and is the first when there was none.
LEMMA QueueFirstBurst ==
  ASSUME TypeOK, Says(BurstLines), Positions("BURST") = {}
  PROVE  \A i, j \in Positions("BURST")' : i = j
<1>1. sent \in Seq(OurLines) /\ BurstLines \in Seq(OurLines)
  BY QueuedLines DEF TypeOK
<1>2. sent' = sent \o BurstLines
  BY DEF Says
<1>3. Len(BurstLines) = 3 /\ BurstLines[2] = "DATA" /\ BurstLines[3] = "ENDBURST"
  BY DEF BurstLines
<1>4. /\ Len(sent') = Len(sent) + 3
      /\ \A k \in 1..Len(sent') :
           sent'[k] = IF k <= Len(sent) THEN sent[k] ELSE BurstLines[k - Len(sent)]
  <2>1. \A s, t \in Seq(OurLines) :
          /\ Len(s \o t) = Len(s) + Len(t)
          /\ \A k \in 1..Len(s \o t) :
               (s \o t)[k] = IF k <= Len(s) THEN s[k] ELSE t[k - Len(s)]
    OBVIOUS
  <2> QED BY <1>1, <1>2, <1>3, <2>1
<1>5. \A k \in 1..Len(sent) : sent[k] # "BURST"
  BY DEF Positions
<1>6. \A k \in 1..Len(sent') : sent'[k] = "BURST" => k = Len(sent) + 1
  <2> SUFFICES ASSUME NEW k \in 1..Len(sent'), sent'[k] = "BURST"
               PROVE  k = Len(sent) + 1
    OBVIOUS
  <2>1. k > Len(sent)
    BY <1>1, <1>4, <1>5
  <2>2. k - Len(sent) \in 1..3 /\ BurstLines[k - Len(sent)] = "BURST"
    BY <1>1, <1>4, <2>1
  <2>3. k - Len(sent) = 1
    BY <1>3, <2>2
  <2> QED BY <1>1, <2>3
<1> QED BY <1>6 DEF Positions

\* The kinds of steps: a fresh session, no output, output without BURST, and
\* ensure_burst.
LEMMA BurstCountedStep ==
  ASSUME TypeOK, BurstCounted,
         \/ sent' = <<>>
         \/ sent' = sent /\ (burst_sent => burst_sent')
         \/ /\ burst_sent' = burst_sent
            /\ \E lines \in Seq(OurLines) :
                 /\ \A k \in 1..Len(lines) : lines[k] # "BURST"
                 /\ Says(lines)
         \/ burst_sent' = TRUE /\ Send(EnsureBurst)
  PROVE  BurstCounted'
<1>1. CASE sent' = <<>>
  <2>1. Positions("BURST")' = {}
    BY <1>1 DEF Positions
  <2> QED BY <2>1 DEF BurstCounted, BurstAtMostOnce
<1>2. CASE sent' = sent /\ (burst_sent => burst_sent')
  BY <1>2 DEF BurstCounted, BurstAtMostOnce, Positions, TypeOK
<1>3. CASE /\ burst_sent' = burst_sent
           /\ \E lines \in Seq(OurLines) :
                 /\ \A k \in 1..Len(lines) : lines[k] # "BURST"
                 /\ Says(lines)
  <2>1. Positions("BURST")' = Positions("BURST")
    BY <1>3, QueueNoBurst
  <2> QED BY <1>3, <2>1 DEF BurstCounted, BurstAtMostOnce
<1>4. CASE burst_sent' = TRUE /\ Send(EnsureBurst)
  <2>1. CASE ~Takes(state, conn)
    BY <1>4, <2>1 DEF Send, output, BurstCounted, BurstAtMostOnce, Positions
  <2>2. CASE Takes(state, conn) /\ burst_sent
    <3>1. Says(<<>>)
      BY <1>4, <2>2 DEF Send, EnsureBurst, Queue, Says
    <3>2. Positions("BURST")' = Positions("BURST")
      <4>1. \A k \in 1..Len(<<>>) : FALSE
        OBVIOUS
      <4> QED BY <3>1, <4>1, QueueNoBurst, QueuedLines
    <3> QED BY <1>4, <3>2 DEF BurstCounted, BurstAtMostOnce
  <2>3. CASE Takes(state, conn) /\ burst_sent = FALSE
    <3>1. Says(BurstLines) /\ Positions("BURST") = {}
      BY <1>4, <2>3 DEF Send, EnsureBurst, BurstCounted, Queue, Says
    <3> QED BY <1>4, <3>1, QueueFirstBurst DEF BurstCounted, BurstAtMostOnce
  <2> QED BY <2>1, <2>2, <2>3 DEF TypeOK
<1> QED BY <1>1, <1>2, <1>3, <1>4

\* Sending lines of which none is BURST is one of those kinds.
LEMMA SendNoBurst ==
  ASSUME NEW lines \in Seq(OurLines), Send(lines), burst_sent' = burst_sent,
         \A k \in 1..Len(lines) : lines[k] # "BURST"
  PROVE  \/ sent' = sent /\ (burst_sent => burst_sent')
         \/ /\ burst_sent' = burst_sent
            /\ \E ls \in Seq(OurLines) :
                 /\ \A k \in 1..Len(ls) : ls[k] # "BURST"
                 /\ Says(ls)
BY DEF Send, output, Queue, Says

\* The replies of the handshake hold no BURST.
LEMMA NoBurstLines ==
  /\ \A l \in OurLines \ {"BURST"} : \A k \in 1..Len(<<l>>) : <<l>>[k] # "BURST"
  /\ \A k \in 1..Len(CapabLines) : CapabLines[k] # "BURST"
  /\ \A k \in 1..Len(ServerLine) : ServerLine[k] # "BURST"
<1>1. \A l : Len(<<l>>) = 1 /\ <<l>>[1] = l
  OBVIOUS
<1>2. \A l \in OurLines \ {"BURST"} : \A k \in 1..Len(<<l>>) : <<l>>[k] # "BURST"
  BY <1>1
<1>3. \A k \in 1..Len(CapabLines) : CapabLines[k] # "BURST"
  <2>1. /\ Len(CapabLines) = 2
        /\ CapabLines[1] = "CAPABILITIES" /\ CapabLines[2] = "CAPAB END"
    BY DEF CapabLines
  <2>2. 1..2 = {1, 2}
    OBVIOUS
  <2> QED BY <2>1, <2>2
<1>4. \A k \in 1..Len(ServerLine) : ServerLine[k] # "BURST"
  BY DEF ServerLine
<1> QED BY <1>2, <1>3, <1>4

\* Queueing such a reply keeps the count of bursts.
LEMMA QueueOne ==
  ASSUME TypeOK, BurstCounted, burst_sent' = burst_sent,
         NEW l \in OurLines \ {"BURST"}, Says(<<l>>)
  PROVE  BurstCounted'
<1>1. <<l>> \in Seq(OurLines)
  BY QueuedLines
<1>2. \A k \in 1..Len(<<l>>) : <<l>>[k] # "BURST"
  BY NoBurstLines
<1> QED BY <1>1, <1>2, BurstCountedStep

\* Without REBURST a session carries one netburst of ours at most.
THEOREM LinkBurstOnce == AllowReburst = FALSE => (Spec => []BurstAtMostOnce)
<1> SUFFICES ASSUME AllowReburst = FALSE PROVE Spec => []BurstAtMostOnce
  OBVIOUS
<1>1. Init => BurstCounted
  BY DEF Init, BurstCounted, BurstAtMostOnce, Positions
<1>2. TypeOK /\ BurstCounted /\ [Next]_vars => BurstCounted'
  <2> SUFFICES ASSUME TypeOK, BurstCounted, [Next]_vars PROVE BurstCounted'
    OBVIOUS
  <2>1. CASE AddUplink \/ RetryFires
    BY <2>1, BurstCountedStep DEF AddUplink, RetryFires, Connect, ResetSession
  <2>2. CASE AddInbound \/ Connected \/ HandshakeDone
    <3>1. \/ sent' = sent /\ burst_sent' = burst_sent
          \/ Says(<<"CAPAB START">>) /\ burst_sent' = burst_sent
      BY <2>2 DEF AddInbound, Connected, HandshakeDone, TransportReady, flags,
         output, Queue, Says
    <3>2. CASE sent' = sent /\ burst_sent' = burst_sent
      BY <3>2, BurstCountedStep
    <3>3. CASE Says(<<"CAPAB START">>) /\ burst_sent' = burst_sent
      <4>1. "CAPAB START" \in OurLines \ {"BURST"}
        BY DEF OurLines
      <4> QED BY <3>3, <4>1, QueueOne
    <3> QED BY <3>1, <3>2, <3>3
  <2>3. CASE ConnectRefused \/ PeerDrops \/ Flush \/ Capabilities \/ PeerError
    <3>1. sent' = sent /\ burst_sent' = burst_sent
      BY <2>3 DEF ConnectRefused, PeerDrops, Flush, Capabilities, PeerError,
         GoDown, flags, output
    <3> QED BY <3>1, BurstCountedStep
  <2>4. CASE CapabStart
    <3>1. CASE caps_done
      <4>1. Send(<<>>) /\ burst_sent' = burst_sent
        BY <2>4, <3>1 DEF CapabStart
      <4>2. sent' = sent
        BY <4>1 DEF Send, Queue, output, TypeOK
      <4> QED BY <4>1, <4>2, BurstCountedStep
    <3>2. CASE ~caps_done
      <4>1. Send(CapabLines) /\ burst_sent' = burst_sent
        BY <2>4, <3>2 DEF CapabStart
      <4> QED BY <4>1, BurstCountedStep, SendNoBurst, QueuedLines, NoBurstLines
    <3> QED BY <3>1, <3>2
  <2>5. CASE CapabEnd
    BY <2>5, BurstCountedStep, SendNoBurst, QueuedLines, NoBurstLines
       DEF CapabEnd, output
  <2>6. CASE Server
    <3>1. CASE inbound
      BY <2>6, <3>1, BurstCountedStep, SendNoBurst, QueuedLines, NoBurstLines DEF Server
    <3>2. CASE ~inbound
      BY <2>6, <3>2, BurstCountedStep DEF Server
    <3> QED BY <3>1, <3>2
  <2>7. CASE Reject
    <3>1. \/ sent' = sent /\ burst_sent' = burst_sent
          \/ Says(<<"ERROR">>) /\ burst_sent' = burst_sent
      BY <2>7 DEF Reject, GoDown, flags, Queue, Says
    <3>2. CASE sent' = sent /\ burst_sent' = burst_sent
      BY <3>2, BurstCountedStep
    <3>3. CASE Says(<<"ERROR">>) /\ burst_sent' = burst_sent
      <4>1. "ERROR" \in OurLines \ {"BURST"}
        BY DEF OurLines
      <4> QED BY <3>3, <4>1, QueueOne
    <3> QED BY <3>1, <3>2, <3>3
  <2>8. CASE Burst
    <3>1. CASE state = "waiting"
      BY <2>8, <3>1, BurstCountedStep DEF Burst
    <3>2. CASE state # "waiting"
      BY <2>8, <3>2, BurstCountedStep DEF Burst, output
    <3> QED BY <3>1, <3>2
  <2>9. CASE EndBurst
    BY <2>9, BurstCountedStep DEF EndBurst, flags, output
  <2>10. CASE Ping \/ Deliver
    <3>1. (Send(<<"PONG">>) \/ Send(<<"DATA">>)) /\ burst_sent' = burst_sent
      BY <2>10 DEF Ping, Deliver, flags
    <3> QED BY <3>1, BurstCountedStep, SendNoBurst, QueuedLines, NoBurstLines
  <2>11. CASE Reburst
    BY <2>11 DEF Reburst
  <2>12. CASE UNCHANGED vars
    BY <2>12, BurstCountedStep DEF vars
  <2> QED
    BY <2>1, <2>2, <2>3, <2>4, <2>5, <2>6, <2>7, <2>8, <2>9, <2>10, <2>11,
       <2>12 DEF Next
<1>3. BurstCounted => BurstAtMostOnce
  BY DEF BurstCounted
<1> QED BY <1>1, <1>2, <1>3, LinkTypeOK, PTL DEF Spec

-----------------------------------------------------------------------------
(* No traffic before the peer has authenticated.                            *)

\* Lines that are no traffic leave the positions of traffic alone.
LEMMA NoTraffic ==
  ASSUME TypeOK, NEW lines \in Seq(OurLines), Says(lines),
         \A k \in 1..Len(lines) : lines[k] \notin {"BURST", "DATA", "ENDBURST"}
  PROVE  Traffic' \subseteq Traffic
<1>1. sent \in Seq(OurLines) /\ sent' = sent \o lines
  BY DEF TypeOK, Says
<1>2. /\ Len(sent') = Len(sent) + Len(lines)
      /\ \A k \in 1..Len(sent') :
           sent'[k] = IF k <= Len(sent) THEN sent[k] ELSE lines[k - Len(sent)]
  BY <1>1
<1>3. \A k \in 1..Len(sent') : sent'[k] \in {"BURST", "DATA", "ENDBURST"} =>
        k \in 1..Len(sent) /\ sent'[k] = sent[k]
  BY <1>1, <1>2
<1> QED BY <1>3 DEF Traffic, Positions

\* Nor do steps that say nothing, or start over.
LEMMA SilentNoTraffic ==
  ASSUME sent' = sent \/ sent' = <<>>
  PROVE  Traffic' \subseteq Traffic
<1>1. CASE sent' = sent
  BY <1>1 DEF Traffic, Positions
<1>2. CASE sent' = <<>>
  <2>1. \A l : Positions(l)' = {}
    BY <1>2 DEF Positions
  <2> QED BY <2>1 DEF Traffic
<1> QED BY <1>1, <1>2

\* Nor does sending lines of the handshake.
LEMMA SendNoTraffic ==
  ASSUME TypeOK, NEW lines \in Seq(OurLines), Send(lines) \/ Says(lines),
         \A k \in 1..Len(lines) : lines[k] \notin {"BURST", "DATA", "ENDBURST"}
  PROVE  Traffic' \subseteq Traffic
<1>1. CASE sent' = sent
  BY <1>1, SilentNoTraffic
<1>2. CASE Says(lines)
  BY <1>2, NoTraffic
<1> QED BY <1>1, <1>2 DEF Send, output, Queue, Says

\* The lines of the handshake are no traffic.
LEMMA HandshakeLines ==
  /\ \A l \in OurLines \ {"BURST", "DATA", "ENDBURST"} :
       \A k \in 1..Len(<<l>>) : <<l>>[k] \notin {"BURST", "DATA", "ENDBURST"}
  /\ \A k \in 1..Len(CapabLines) :
       CapabLines[k] \notin {"BURST", "DATA", "ENDBURST"}
  /\ \A k \in 1..Len(ServerLine) :
       ServerLine[k] \notin {"BURST", "DATA", "ENDBURST"}
  /\ \A k \in 1..Len(<<>>) : FALSE
<1>1. \A l \in OurLines \ {"BURST", "DATA", "ENDBURST"} :
        \A k \in 1..Len(<<l>>) : <<l>>[k] \notin {"BURST", "DATA", "ENDBURST"}
  <2>1. \A l : Len(<<l>>) = 1 /\ <<l>>[1] = l
    OBVIOUS
  <2> QED BY <2>1
<1>2. \A k \in 1..Len(CapabLines) :
        CapabLines[k] \notin {"BURST", "DATA", "ENDBURST"}
  <2>1. /\ Len(CapabLines) = 2 /\ 1..2 = {1, 2}
        /\ CapabLines[1] = "CAPABILITIES" /\ CapabLines[2] = "CAPAB END"
    BY DEF CapabLines
  <2> QED BY <2>1
<1>3. \A k \in 1..Len(ServerLine) :
        ServerLine[k] \notin {"BURST", "DATA", "ENDBURST"}
  BY DEF ServerLine
<1>4. \A k \in 1..Len(<<>>) : FALSE
  OBVIOUS
<1> QED BY <1>1, <1>2, <1>3, <1>4

\* A step says nothing but lines of the handshake, or the peer has
\* authenticated, or the step is REBURST.
LEMMA TrafficStep ==
  ASSUME TypeOK, Authenticated, [Next]_vars
  PROVE  "SERVER" \in heard' \/ Traffic' \subseteq Traffic \/ Reburst
<1>0. {"CAPAB START", "PONG", "ERROR"} \subseteq OurLines \ {"BURST", "DATA", "ENDBURST"}
  BY DEF OurLines
<1>1. CASE AddUplink \/ RetryFires
  BY <1>1, SilentNoTraffic DEF AddUplink, RetryFires, Connect, ResetSession
<1>2. CASE AddInbound \/ Connected \/ HandshakeDone
  <2>1. sent' = sent \/ Says(<<"CAPAB START">>)
    BY <1>2 DEF AddInbound, Connected, HandshakeDone, TransportReady, output,
       Queue, Says
  <2> QED BY <1>0, <2>1, SilentNoTraffic, SendNoTraffic, HandshakeLines, QueuedLines
<1>3. CASE ConnectRefused \/ PeerDrops \/ Flush \/ Capabilities \/ PeerError
           \/ EndBurst
  <2>1. sent' = sent
    BY <1>3 DEF ConnectRefused, PeerDrops, Flush, Capabilities, PeerError,
       EndBurst, output
  <2> QED BY <2>1, SilentNoTraffic
<1>4. CASE CapabStart
  <2>1. Send(<<>>) \/ Send(CapabLines)
    BY <1>4 DEF CapabStart
  <2> QED BY <2>1, SendNoTraffic, HandshakeLines, QueuedLines
<1>5. CASE CapabEnd
  <2>1. sent' = sent \/ Send(ServerLine)
    BY <1>5 DEF CapabEnd, output
  <2> QED BY <2>1, SilentNoTraffic, SendNoTraffic, HandshakeLines, QueuedLines
<1>6. CASE Server
  BY <1>6 DEF Server, Hears
<1>7. CASE Reject
  <2>1. sent' = sent \/ Says(<<"ERROR">>)
    BY <1>7 DEF Reject, Queue, Says
  <2> QED BY <1>0, <2>1, SilentNoTraffic, SendNoTraffic, HandshakeLines, QueuedLines
<1>8. CASE Burst \/ Deliver
  BY <1>8 DEF Burst, Deliver, Hears, Authenticated
<1>9. CASE Ping
  <2>1. Send(<<"PONG">>)
    BY <1>9 DEF Ping
  <2> QED BY <1>0, <2>1, SendNoTraffic, HandshakeLines, QueuedLines
<1>10. CASE UNCHANGED vars
  BY <1>10, SilentNoTraffic DEF vars
<1> QED
  BY <1>1, <1>2, <1>3, <1>4, <1>5, <1>6, <1>7, <1>8, <1>9, <1>10 DEF Next

\* A session gets past negotiation, hands on a line of the peer or queues a
\* burst or a routed line only after the peer's SERVER with its password -
\* REBURST excepted, and the bytes an earlier session left in the stream.
THEOREM LinkAuthenticated == Spec => AuthenticatedFirst
<1>1. Safe => Authenticated
  BY DEF Safe
<1>2. TypeOK /\ Authenticated /\ Authenticated' /\ [Next]_vars =>
        [/\ Authenticated'
         /\ "SERVER" \in heard' \/ Traffic' \subseteq Traffic \/ Reburst]_vars
  BY TrafficStep
<1> QED BY <1>1, <1>2, LinkTypeOK, LinkSafe, PTL DEF Spec, AuthenticatedFirst

-----------------------------------------------------------------------------
(* The link implements the abstract session, towards a peer that follows    *)
(* the handshake.  Such a peer ends its burst only after it has opened it,  *)
(* so a link that is linked has sent its own.                               *)

BurstBeforeEnd ==
  /\ state \in {"burst", "linked"} => burst_sent
  /\ "BURST" \in heard => burst_sent

\* A peer in order never ends a burst that it did not begin.
LEMMA BurstBeforeEndStep ==
  ASSUME PeerInOrder, TypeOK, BurstBeforeEnd, [Next]_vars
  PROVE  BurstBeforeEnd'
<1>1. CASE AddUplink \/ RetryFires
  BY <1>1 DEF AddUplink, RetryFires, Connect, ResetSession, BurstBeforeEnd
<1>2. CASE AddInbound \/ Connected \/ ConnectRefused \/ HandshakeDone \/ Flush
  BY <1>2 DEF AddInbound, Connected, ConnectRefused, HandshakeDone, Flush,
     TransportReady, flags, BurstBeforeEnd
<1>3. CASE PeerDrops \/ Reject \/ PeerError
  BY <1>3 DEF PeerDrops, Reject, PeerError, GoDown, flags, BurstBeforeEnd
<1>4. CASE CapabStart \/ Capabilities \/ CapabEnd
  BY <1>4 DEF CapabStart, Capabilities, CapabEnd, Hears, flags, BurstBeforeEnd
<1>5. CASE Server
  BY <1>5 DEF Server, Hears, BurstBeforeEnd
<1>6. CASE Burst
  BY <1>6 DEF Burst, Hears, BurstBeforeEnd
<1>7. CASE EndBurst
  BY <1>7 DEF EndBurst, Hears, InOrder, flags, BurstBeforeEnd
<1>8. CASE Ping \/ Deliver \/ Reburst
  BY <1>8 DEF Ping, Deliver, Reburst, flags, BurstBeforeEnd
<1>9. CASE UNCHANGED vars
  BY <1>9 DEF vars, BurstBeforeEnd
<1> QED
  BY <1>1, <1>2, <1>3, <1>4, <1>5, <1>6, <1>7, <1>8, <1>9 DEF Next

\* The phase of the abstract session, from the state of the link.
LEMMA PhaseOf ==
  /\ state = "idle" => Phase = "new"
  /\ state = "connecting" /\ conn = "closed" => Phase = "down"
  /\ state = "connecting" /\ conn # "closed" => Phase = "opening"
  /\ state = "nego" => Phase = "talking"
  /\ state \in {"waiting", "burst"} => Phase = "authed"
  /\ state = "linked" => Phase = "up"
  /\ state = "dying" => Phase = "down"
BY DEF Phase

\* The same, after a step.
LEMMA PhaseOfNext ==
  /\ state' = "idle" => Phase' = "new"
  /\ state' = "connecting" /\ conn' = "closed" => Phase' = "down"
  /\ state' = "connecting" /\ conn' # "closed" => Phase' = "opening"
  /\ state' = "nego" => Phase' = "talking"
  /\ state' \in {"waiting", "burst"} => Phase' = "authed"
  /\ state' = "linked" => Phase' = "up"
  /\ state' = "dying" => Phase' = "down"
BY DEF Phase

\* Going down is the abstract session's Drop.
LEMMA GoDownIsDrop ==
  ASSUME TypeOK, Safe, GoDown, conn # "closed"
  PROVE  S!Drop
<1>1. Phase' = "down"
  BY PhaseOfNext DEF GoDown
<1>2. Phase \in {"opening", "talking", "authed", "up"}
  BY PhaseOf, LiveIsUnarmed DEF TypeOK, States
<1>3. (retry_timer' # 0) \in {Reconnect, FALSE}
  BY LiveIsUnarmed, ScheduleArms, LinkAssumption DEF GoDown, Uplink
<1> QED BY <1>1, <1>2, <1>3 DEF S!Drop, GoDown, flags

\* Dialling is the abstract session's Dial, or a dial that fails at once.
LEMMA ConnectIsDial ==
  ASSUME TypeOK, Safe, Connect, state = "idle" \/ retry_timer # 0
  PROVE  S!Dial \/ S!DialFails
<1>1. S!MayDial
  BY PhaseOf DEF S!MayDial, Safe, RetryArmedIffDown
<1>2. inbound = FALSE
  BY DEF Safe, StateMatchesStream, RetryArmedIffDown, Uplink, TypeOK
<1>3. CASE conn' = "connecting" /\ retry_timer' = 0
  BY <1>1, <1>3, PhaseOfNext DEF S!Dial, Connect, ResetSession
<1>4. CASE conn' = "closed"
  <2>1. (retry_timer' # 0) = Reconnect
    BY <1>2, <1>4, RetryDelayType, LinkAssumption DEF Connect, TypeOK
  <2> QED BY <1>1, <1>4, <2>1, PhaseOfNext DEF S!DialFails, Connect, ResetSession
<1> QED BY <1>3, <1>4 DEF Connect

\* Steps that change neither phase, burst nor timer are stutters.
LEMMA TalkIsStutter ==
  ASSUME UNCHANGED <<state, conn, burst_sent, retry_timer>>
  PROVE  UNCHANGED S!sessionVars
BY DEF Phase, S!sessionVars

\* A ready transport starts the abstract session or changes nothing in it.
LEMMA ReadyStep ==
  ASSUME TypeOK, Safe, TransportReady, conn \in {"connecting", "handshaking"}
  PROVE  S!Ready \/ UNCHANGED S!sessionVars
<1>1. Phase' = "talking" /\ burst_sent' = burst_sent /\ retry_timer' = retry_timer
  BY PhaseOfNext DEF TransportReady, timer
<1>2. Phase = "opening" \/ Phase = "talking"
  BY PhaseOf DEF Safe, StateMatchesStream
<1> QED BY <1>1, <1>2 DEF S!Ready, S!sessionVars

\* Every step of the link is a step of the abstract session or a stutter.
LEMMA SessionStep ==
  ASSUME PeerInOrder, TypeOK, Safe, BurstBeforeEnd, [Next]_vars
  PROVE  S!SessionNext \/ UNCHANGED S!sessionVars
<1>1. CASE AddUplink \/ RetryFires
  BY <1>1, ConnectIsDial DEF AddUplink, RetryFires, S!SessionNext
<1>2. CASE AddInbound
  BY <1>2, PhaseOf, PhaseOfNext DEF AddInbound, flags, timer, S!Accept, S!SessionNext
<1>3. CASE Connected
  <2>1. CASE SendTls
    <3>1. Phase = "opening" /\ Phase' = "opening"
      BY <1>3, <2>1, PhaseOf, PhaseOfNext DEF Connected, Safe, StateMatchesStream
    <3> QED BY <1>3, <2>1, <3>1 DEF Connected, flags, timer, S!sessionVars
  <2>2. CASE ~SendTls
    BY <1>3, <2>2, ReadyStep DEF Connected, S!SessionNext
  <2> QED BY <2>1, <2>2
<1>4. CASE ConnectRefused
  <2>1. Phase = "opening" /\ Phase' = "opening"
    BY <1>4, PhaseOf, PhaseOfNext DEF ConnectRefused, Safe, StateMatchesStream
  <2> QED BY <1>4, <2>1 DEF ConnectRefused, flags, timer, S!sessionVars
<1>5. CASE HandshakeDone
  BY <1>5, ReadyStep DEF HandshakeDone, S!SessionNext
<1>6. CASE PeerDrops \/ Reject \/ PeerError
  BY <1>6, GoDownIsDrop DEF PeerDrops, Reject, PeerError, S!SessionNext
<1>7. CASE Flush \/ Capabilities \/ Ping \/ Deliver \/ Reburst
  BY <1>7, TalkIsStutter
     DEF Flush, Capabilities, Ping, Deliver, Reburst, flags, timer
<1>8. CASE CapabStart \/ CapabEnd
  BY <1>8, TalkIsStutter DEF CapabStart, CapabEnd, timer
<1>9. CASE Server
  <2>1. Phase \in {"talking", "authed"} /\ Phase' = "authed" /\ retry_timer' = retry_timer
    BY <1>9, PhaseOf, PhaseOfNext DEF Server, timer
  <2>2. burst_sent' \in {burst_sent, TRUE}
    BY <1>9 DEF Server
  <2>3. CASE Phase = "talking"
    BY <2>1, <2>2, <2>3 DEF S!Authenticate, S!SessionNext
  <2>4. CASE Phase = "authed"
    BY <2>1, <2>2, <2>4 DEF S!Announce, S!SessionNext, S!sessionVars, TypeOK
  <2> QED BY <2>1, <2>3, <2>4
<1>10. CASE Burst
  <2>1. Phase = "authed" /\ Phase' = "authed" /\ retry_timer' = retry_timer
    BY <1>10, PhaseOf, PhaseOfNext DEF Burst, timer
  <2>2. burst_sent' \in {burst_sent, TRUE}
    BY <1>10 DEF Burst
  <2> QED BY <2>1, <2>2 DEF S!Announce, S!SessionNext, S!sessionVars, TypeOK
<1>11. CASE EndBurst
  <2>1. burst_sent
    BY <1>11 DEF EndBurst, Hears, InOrder, BurstBeforeEnd
  <2>2. Phase = "authed" /\ Phase' = "up"
    BY <1>11, PhaseOf, PhaseOfNext DEF EndBurst
  <2> QED BY <1>11, <2>1, <2>2 DEF EndBurst, flags, S!Complete, S!SessionNext, TypeOK
<1>12. CASE UNCHANGED vars
  BY <1>12, TalkIsStutter DEF vars
<1> QED
  BY <1>1, <1>2, <1>3, <1>4, <1>5, <1>6, <1>7, <1>8, <1>9, <1>10, <1>11,
     <1>12 DEF Next

\* With a peer that follows the handshake, a link behaves as a Session does.
THEOREM LinkImplementsSession == PeerInOrder => (Spec => ImplementsSession)
<1> SUFFICES ASSUME PeerInOrder PROVE Spec => ImplementsSession
  OBVIOUS
<1>1. Init => S!SessionInit
  BY PhaseOf DEF Init, S!SessionInit
<1>2. Init => BurstBeforeEnd
  BY DEF Init, BurstBeforeEnd
<1>3. TypeOK /\ BurstBeforeEnd /\ [Next]_vars => BurstBeforeEnd'
  BY BurstBeforeEndStep
<1>4. TypeOK /\ Safe /\ BurstBeforeEnd /\ [Next]_vars
        => [S!SessionNext]_(S!sessionVars)
  BY SessionStep
<1> QED
  BY <1>1, <1>2, <1>3, <1>4, LinkTypeOK, LinkSafe, PTL
     DEF Spec, ImplementsSession, S!SessionSpec

\* Whoever takes the link for linked finds our burst sent, towards a peer that
\* keeps to the handshake.
THEOREM LinkBurstSent == PeerInOrder => (Spec => [](state = "linked" => burst_sent))
<1> SUFFICES ASSUME PeerInOrder PROVE Spec => [](state = "linked" => burst_sent)
  OBVIOUS
<1>1. Init => BurstBeforeEnd
  BY DEF Init, BurstBeforeEnd
<1>2. TypeOK /\ BurstBeforeEnd /\ [Next]_vars => BurstBeforeEnd'
  BY BurstBeforeEndStep
<1>3. BurstBeforeEnd => (state = "linked" => burst_sent)
  BY DEF BurstBeforeEnd
<1> QED BY <1>1, <1>2, <1>3, LinkTypeOK, PTL DEF Spec

-----------------------------------------------------------------------------
(* The order of the handshake.  While the peer keeps to it, what we have    *)
(* said is in order, no further than what we have answered.                *)

\* No line of s is of a stage later than n.
UpTo(s, n) == \A i \in 1..Len(s) : Stage[s[i]] \in 0..n

\* What we say is in order, and as far as the flags and the peer's lines say.
SoFarInOrder ==
  /\ HandshakeOrder
  /\ ~server_sent => UpTo(sent, 1)
  /\ ~burst_sent => UpTo(sent, 2)
  /\ burst_sent => server_sent
  /\ server_sent => "CAPAB START" \in heard
  /\ "CAPABILITIES" \in heard => "CAPAB START" \in heard
  /\ "CAPAB END" \in heard => "CAPAB START" \in heard
  /\ "SERVER" \in heard => "CAPAB START" \in heard
  /\ conn # "open" /\ state # "dying" => heard = {}

\* The stages are numbered from 0 to 3.
LEMMA SmallNumbers ==
  /\ 0 \in 0..3 /\ 1 \in 0..3 /\ 2 \in 0..3 /\ 3 \in 0..3
  /\ 1 <= 1 /\ 1 <= 2 /\ 2 <= 2 /\ 2 <= 3 /\ 3 <= 3
  /\ \A n \in 0..3 : n <= n
OBVIOUS

\* A bound on the stages may be raised.
LEMMA UpToMore ==
  ASSUME NEW s, NEW n \in 0..3, NEW m \in 0..3, n <= m, UpTo(s, n)
  PROVE  UpTo(s, m)
<1> HIDE DEF Stage
<1> QED BY DEF UpTo

\* lines are in order, of stages n to top.
Within(lines, n, top) ==
  /\ UpTo(lines, top)
  /\ \A i \in 1..Len(lines) : Stage[lines[i]] = 0 \/ n <= Stage[lines[i]]
  /\ \A i, j \in 1..Len(lines) :
       i < j /\ Stage[lines[j]] # 0 => Stage[lines[i]] <= Stage[lines[j]]

\* The stage of every line.
LEMMA StageOf ==
  /\ \A l \in OurLines : Stage[l] \in 0..3
  /\ Stage["CAPAB START"] = 1 /\ Stage["CAPABILITIES"] = 1
  /\ Stage["CAPAB END"] = 1 /\ Stage["SERVER"] = 2 /\ Stage["BURST"] = 3
  /\ Stage["ENDBURST"] = 3 /\ Stage["DATA"] = 0 /\ Stage["PONG"] = 0
  /\ Stage["ERROR"] = 0
BY DEF Stage, OurLines

\* Lines of stages from n on, in order, keep the order after lines of stages
\* up to n.
LEMMA QueueInOrder ==
  ASSUME TypeOK, HandshakeOrder, NEW lines \in Seq(OurLines), Says(lines),
         NEW n \in 0..3, NEW top \in 0..3, UpTo(sent, n), n <= top,
         Within(lines, n, top)
  PROVE  HandshakeOrder' /\ UpTo(sent', top)
<1>1. sent \in Seq(OurLines) /\ sent' = sent \o lines
  BY DEF TypeOK, Says
<1>2. /\ Len(sent') = Len(sent) + Len(lines)
      /\ Len(sent) \in Nat /\ Len(lines) \in Nat
      /\ \A k \in 1..Len(sent') :
           sent'[k] = IF k <= Len(sent) THEN sent[k] ELSE lines[k - Len(sent)]
  BY <1>1
<1>3. /\ \A k \in 1..Len(sent) : Stage[sent[k]] \in 0..3
      /\ \A k \in 1..Len(lines) : Stage[lines[k]] \in 0..3
  <2>1. /\ \A k \in 1..Len(sent) : sent[k] \in OurLines
        /\ \A k \in 1..Len(lines) : lines[k] \in OurLines
    BY <1>1
  <2> QED BY <2>1, StageOf
<1>4. \A k \in 1..Len(sent') :
        \/ k \in 1..Len(sent) /\ sent'[k] = sent[k]
        \/ k - Len(sent) \in 1..Len(lines) /\ sent'[k] = lines[k - Len(sent)]
  BY <1>2
<1>5. UpTo(sent', top)
  <2>1. UpTo(sent, top) /\ UpTo(lines, top)
    BY UpToMore DEF Within
  <2> QED BY <1>4, <2>1 DEF UpTo
<1>6. ASSUME NEW i \in 1..Len(sent'), NEW j \in 1..Len(sent'), i < j,
             Stage[sent'[j]] # 0
      PROVE  Stage[sent'[i]] <= Stage[sent'[j]]
  <2>1. CASE j \in 1..Len(sent)
    <3>1. i \in 1..Len(sent)
      BY <1>2, <1>6, <2>1
    <3> QED BY <1>2, <1>6, <2>1, <3>1 DEF HandshakeOrder
  <2>2. CASE i \in 1..Len(sent) /\ j - Len(sent) \in 1..Len(lines)
    <3>1. sent'[i] = sent[i] /\ sent'[j] = lines[j - Len(sent)]
      BY <1>2, <2>2
    <3>2. Stage[sent[i]] <= n /\ n <= Stage[lines[j - Len(sent)]]
      BY <2>2, <3>1, <1>6 DEF UpTo, Within
    <3>3. Stage[sent[i]] \in 0..3 /\ Stage[lines[j - Len(sent)]] \in 0..3
      BY <1>3, <2>2
    <3>4. Stage[sent[i]] <= Stage[lines[j - Len(sent)]]
      BY <3>2, <3>3
    <3> QED BY <3>1, <3>4
  <2>3. CASE i - Len(sent) \in 1..Len(lines) /\ j - Len(sent) \in 1..Len(lines)
    <3>1. sent'[i] = lines[i - Len(sent)] /\ sent'[j] = lines[j - Len(sent)]
      BY <1>2, <2>3
    <3>2. i - Len(sent) < j - Len(sent)
      BY <1>2, <1>6
    <3>3. Stage[lines[i - Len(sent)]] <= Stage[lines[j - Len(sent)]]
      <4> HIDE DEF Stage
      <4>1. Stage[lines[j - Len(sent)]] # 0
        BY <1>6, <3>1
      <4> QED BY <2>3, <3>2, <4>1 DEF Within
    <3> QED BY <3>1, <3>3
  <2> QED BY <1>2, <1>4, <1>6, <2>1, <2>2, <2>3
<1> QED BY <1>5, <1>6 DEF HandshakeOrder

\* A single line is in order.
LEMMA OneWithin ==
  ASSUME NEW l, NEW n \in 0..3, NEW top \in 0..3, n <= top,
         Stage[l] = 0 \/ Stage[l] \in n..top
  PROVE  Within(<<l>>, n, top)
<1>1. Len(<<l>>) = 1 /\ <<l>>[1] = l
  OBVIOUS
<1>2. \A i \in 1..Len(<<l>>) : <<l>>[i] = l /\ i = 1
  BY <1>1
<1>3. \A i, j \in 1..Len(<<l>>) : ~(i < j)
  BY <1>1
<1>4. Stage[l] \in 0..top /\ (Stage[l] = 0 \/ n <= Stage[l])
  OBVIOUS
<1> HIDE DEF Stage
<1> QED BY <1>2, <1>3, <1>4, Zenon DEF Within, UpTo

\* The stages of what the handlers queue.
LEMMA LinesWithin ==
  /\ \A n \in 0..3 : Within(<<>>, n, n)
  /\ \A n \in 0..3, l \in {"DATA", "PONG", "ERROR"} : Within(<<l>>, n, n)
  /\ Within(<<"CAPAB START">>, 1, 1)
  /\ Within(CapabLines, 1, 1)
  /\ Within(<<"SERVER">>, 1, 2)
  /\ Within(BurstLines, 2, 3)
<1>1. \A n \in 0..3 : Within(<<>>, n, n)
  BY DEF Within, UpTo
<1>4. \A n \in 0..3, l \in {"DATA", "PONG", "ERROR"} : Within(<<l>>, n, n)
  <2>1. \A l \in {"DATA", "PONG", "ERROR"} : Stage[l] = 0
    BY StageOf
  <2>2. SUFFICES ASSUME NEW n \in 0..3, NEW l \in {"DATA", "PONG", "ERROR"}
                 PROVE  Within(<<l>>, n, n)
    OBVIOUS
  <2>3. n \in 0..3 /\ n <= n /\ Stage[l] = 0
    BY <2>1
  <2> QED BY <2>3, OneWithin
<1>5. Within(<<"CAPAB START">>, 1, 1) /\ Within(<<"SERVER">>, 1, 2)
  <2>1. Stage["CAPAB START"] \in 1..1 /\ Stage["SERVER"] \in 1..2
    <3>1. 1 \in 1..1 /\ 2 \in 1..2
      OBVIOUS
    <3> QED BY <3>1, StageOf, Zenon
  <2>2. 1 \in 0..3 /\ 2 \in 0..3 /\ 1 <= 1 /\ 1 <= 2
    OBVIOUS
  <2>3. Within(<<"CAPAB START">>, 1, 1)
    BY <2>1, <2>2, OneWithin
  <2>4. Within(<<"SERVER">>, 1, 2)
    BY <2>1, <2>2, OneWithin
  <2> QED BY <2>3, <2>4
<1>6. Within(CapabLines, 1, 1)
  <2>1. /\ Len(CapabLines) = 2 /\ 1..2 = {1, 2}
        /\ CapabLines[1] = "CAPABILITIES" /\ CapabLines[2] = "CAPAB END"
    BY DEF CapabLines
  <2>2. \A i \in 1..Len(CapabLines) : Stage[CapabLines[i]] = 1
    BY <2>1, StageOf
  <2> QED BY <2>2 DEF Within, UpTo
<1>7. Within(BurstLines, 2, 3)
  <2>1. /\ Len(BurstLines) = 3 /\ 1..3 = {1, 2, 3}
        /\ BurstLines[1] = "BURST" /\ BurstLines[2] = "DATA"
        /\ BurstLines[3] = "ENDBURST"
    BY DEF BurstLines
  <2>2. /\ Stage[BurstLines[1]] = 3 /\ Stage[BurstLines[2]] = 0
        /\ Stage[BurstLines[3]] = 3
    BY <2>1, StageOf
  <2> QED BY <2>1, <2>2 DEF Within, UpTo
<1> QED BY <1>1, <1>4, <1>5, <1>6, <1>7

\* So does sending them, whether the stream takes them or not.
LEMMA SendInOrder ==
  ASSUME TypeOK, HandshakeOrder, NEW lines \in Seq(OurLines),
         Send(lines) \/ Says(lines),
         NEW n \in 0..3, NEW top \in 0..3, UpTo(sent, n), n <= top,
         Within(lines, n, top)
  PROVE  HandshakeOrder' /\ UpTo(sent', top)
<1>1. CASE Says(lines)
  BY <1>1, QueueInOrder
<1>2. CASE sent' = sent
  <2>1. UpTo(sent, top)
    BY UpToMore
  <2> QED BY <1>2, <2>1 DEF HandshakeOrder
<1> QED BY <1>1, <1>2 DEF Send, output, Queue, Says

\* Steps that say nothing, and hear nothing that matters.
LEMMA QuietInOrder ==
  ASSUME SoFarInOrder, sent' = sent, server_sent' = server_sent,
         burst_sent' = burst_sent, heard' = heard,
         conn' # "open" /\ state' # "dying" => conn # "open" /\ state # "dying"
  PROVE  SoFarInOrder'
BY DEF SoFarInOrder, HandshakeOrder

\* A fresh session has said nothing.
LEMMA FreshInOrder ==
  ASSUME sent' = <<>>, server_sent' = FALSE, burst_sent' = FALSE, heard' = {}
  PROVE  SoFarInOrder'
<1>1. \A i \in 1..Len(sent') : FALSE
  OBVIOUS
<1> QED BY <1>1, Zenon DEF SoFarInOrder, HandshakeOrder, UpTo

\* Lines of no stage disturb nothing.
LEMMA AsideInOrder ==
  ASSUME TypeOK, SoFarInOrder, NEW l \in {"DATA", "PONG", "ERROR"},
         Send(<<l>>) \/ Says(<<l>>), server_sent' = server_sent,
         burst_sent' = burst_sent, heard' = heard,
         conn' # "open" /\ state' # "dying" => conn # "open" /\ state # "dying"
  PROVE  SoFarInOrder'
<1>1. <<l>> \in Seq(OurLines)
  BY QueuedLines
<1>2. \A n \in 0..3 : UpTo(sent, n) => HandshakeOrder' /\ UpTo(sent', n)
  <2> SUFFICES ASSUME NEW n \in 0..3, UpTo(sent, n)
               PROVE  HandshakeOrder' /\ UpTo(sent', n)
    OBVIOUS
  <2>1. Within(<<l>>, n, n)
    BY LinesWithin
  <2>2. HandshakeOrder /\ n <= n
    BY SmallNumbers, Zenon DEF SoFarInOrder
  <2> QED BY <1>1, <2>1, <2>2, SendInOrder
<1>3. /\ HandshakeOrder' /\ (UpTo(sent, 1) => UpTo(sent', 1))
      /\ (UpTo(sent, 2) => UpTo(sent', 2))
  <2>1. UpTo(sent, 3)
    <3>1. \A i \in 1..Len(sent) : sent[i] \in OurLines
      BY DEF TypeOK
    <3> QED BY <3>1, StageOf DEF UpTo
  <2> QED BY <1>2, <2>1, SmallNumbers
<1> QED BY <1>3 DEF SoFarInOrder

\* CAPAB START opens a session before we have said more.
LEMMA OpeningInOrder ==
  ASSUME TypeOK, SoFarInOrder, Queue(<<"CAPAB START">>), heard = {},
         server_sent' = server_sent, burst_sent' = burst_sent, heard' = heard
  PROVE  SoFarInOrder'
<1>1. ~server_sent /\ ~burst_sent /\ HandshakeOrder /\ UpTo(sent, 1)
  BY DEF SoFarInOrder
<1>2. HandshakeOrder' /\ UpTo(sent', 1)
  BY <1>1, SmallNumbers, LinesWithin, QueuedLines, SendInOrder DEF Queue, Says
<1>3. UpTo(sent', 2)
  BY <1>2, UpToMore, SmallNumbers
<1> QED BY <1>1, <1>2, <1>3 DEF SoFarInOrder

\* A peer in order answers what it has read: a line of ours that it has got
\* we have said, in its stage.
LEMMA FlushedServer ==
  ASSUME TypeOK, SoFarInOrder, Flushed("SERVER")
  PROVE  server_sent
<1>1. PICK i \in 1..(Len(sent) - unsent) : sent[i] = "SERVER"
  BY DEF Flushed
<1>2. i \in 1..Len(sent)
  BY <1>1 DEF TypeOK
<1>3. Stage[sent[i]] = 2
  BY <1>1, StageOf
<1>4. ~(2 \in 0..1)
  OBVIOUS
<1> QED BY <1>2, <1>3, <1>4, Zenon DEF SoFarInOrder, UpTo

\* Sending nothing says nothing.
LEMMA SendNothing ==
  ASSUME TypeOK, Send(<<>>)
  PROVE  sent' = sent
BY DEF Send, Queue, output, TypeOK

\* Steps that only listen, after the peer's CAPAB START.
LEMMA ListenInOrder ==
  ASSUME SoFarInOrder, sent' = sent, server_sent' = server_sent,
         burst_sent' = burst_sent, conn' = "open", "CAPAB START" \in heard,
         NEW line, heard' = heard \cup {line}
  PROVE  SoFarInOrder'
BY DEF SoFarInOrder, HandshakeOrder

\* Our replies to CAPAB START come before our SERVER.
LEMMA CapabStartInOrder ==
  ASSUME PeerInOrder, TypeOK, SoFarInOrder, CapabStart
  PROVE  SoFarInOrder'
<1>1. /\ conn = "open" /\ conn' = "open" /\ "CAPAB START" \notin heard
      /\ heard' = heard \cup {"CAPAB START"}
      /\ server_sent' = server_sent /\ burst_sent' = burst_sent
  BY DEF CapabStart, Hears, InOrder
<1>2. ~server_sent /\ ~burst_sent /\ HandshakeOrder /\ UpTo(sent, 1)
  BY <1>1 DEF SoFarInOrder
<1>3. \E lines \in {<<>>, CapabLines} : Send(lines)
  BY DEF CapabStart
<1>4. HandshakeOrder' /\ UpTo(sent', 1)
  BY <1>2, <1>3, SmallNumbers, LinesWithin, QueuedLines, SendInOrder
<1>5. UpTo(sent', 2)
  BY <1>4, UpToMore, SmallNumbers
<1> QED BY <1>1, <1>2, <1>4, <1>5 DEF SoFarInOrder

\* Our SERVER comes before our burst.
LEMMA ServerLineInOrder ==
  ASSUME TypeOK, SoFarInOrder, Send(ServerLine), "CAPAB START" \in heard,
         conn' = "open", server_sent' = TRUE, burst_sent' = burst_sent,
         NEW line, heard' = heard \cup {line}
  PROVE  SoFarInOrder'
<1>1. HandshakeOrder' /\ (~burst_sent => UpTo(sent', 2))
  <2>1. CASE ~server_sent
    <3>1. ~burst_sent /\ UpTo(sent, 1) /\ HandshakeOrder
      BY <2>1 DEF SoFarInOrder
    <3>2. Send(<<"SERVER">>) /\ <<"SERVER">> \in Seq(OurLines)
      BY <2>1, QueuedLines DEF ServerLine
    <3> QED BY <3>1, <3>2, SmallNumbers, LinesWithin, SendInOrder
  <2>2. CASE server_sent
    <3>1. Send(<<>>) /\ <<>> \in Seq(OurLines)
      BY <2>2, QueuedLines DEF ServerLine
    <3>2. sent' = sent
      BY <3>1, SendNothing
    <3> QED BY <3>2 DEF SoFarInOrder, HandshakeOrder
  <2> QED BY <2>1, <2>2
<1> QED BY <1>1 DEF SoFarInOrder

\* Our burst comes last.
LEMMA EnsureBurstInOrder ==
  ASSUME TypeOK, SoFarInOrder, Send(EnsureBurst), server_sent,
         conn' = "open", server_sent' = server_sent, burst_sent' = TRUE,
         NEW line, heard' = heard \cup {line}
  PROVE  SoFarInOrder'
<1>1. HandshakeOrder'
  <2>1. CASE ~burst_sent
    <3>1. UpTo(sent, 2) /\ HandshakeOrder
      BY <2>1 DEF SoFarInOrder
    <3>2. Send(BurstLines)
      BY <2>1 DEF EnsureBurst
    <3> QED BY <3>1, <3>2, SmallNumbers, LinesWithin, QueuedLines, SendInOrder
  <2>2. CASE burst_sent
    <3>1. Send(<<>>) /\ <<>> \in Seq(OurLines)
      BY <2>2, QueuedLines DEF EnsureBurst
    <3>2. sent' = sent
      BY <3>1, SendNothing
    <3> QED BY <3>2 DEF SoFarInOrder, HandshakeOrder
  <2> QED BY <2>1, <2>2
<1> QED BY <1>1 DEF SoFarInOrder

\* What we have said stays in order, towards a peer in order.
LEMMA InOrderStep ==
  ASSUME PeerInOrder, ~AllowReburst, TypeOK, Safe, SoFarInOrder, [Next]_vars
  PROVE  SoFarInOrder'
<1>1. CASE AddUplink \/ RetryFires
  BY <1>1, FreshInOrder DEF AddUplink, RetryFires, Connect, ResetSession
<1>2. CASE AddInbound
  <2>1. heard = {}
    BY <1>2 DEF AddInbound, Safe, StateMatchesStream, SoFarInOrder
  <2> QED BY <1>2, <2>1, OpeningInOrder DEF AddInbound, flags
<1>3. CASE TransportReady /\ conn \in {"connecting", "handshaking"}
  <2>1. heard = {}
    BY <1>3, LiveIsUnarmed DEF SoFarInOrder
  <2> QED BY <1>3, <2>1, OpeningInOrder DEF TransportReady
<1>4. CASE Connected \/ HandshakeDone
  <2>1. CASE TransportReady
    BY <1>3, <1>4, <2>1 DEF Connected, HandshakeDone
  <2>2. CASE Connected /\ SendTls
    BY <2>2, QuietInOrder, LiveIsUnarmed DEF Connected, flags, output
  <2> QED BY <1>4, <2>1, <2>2 DEF Connected, HandshakeDone
<1>5. CASE ConnectRefused \/ PeerDrops \/ PeerError \/ Flush
  BY <1>5, QuietInOrder, LiveIsUnarmed
     DEF ConnectRefused, PeerDrops, PeerError, Flush, GoDown, flags, output
<1>6. CASE CapabStart
  BY <1>6, CapabStartInOrder
<1>7. CASE Capabilities
  BY <1>7 DEF Capabilities, Hears, InOrder, flags, output, SoFarInOrder,
     HandshakeOrder
<1>8. CASE CapabEnd
  <2>1. /\ "CAPAB START" \in heard /\ conn = "open" /\ conn' = "open"
        /\ heard' = heard \cup {"CAPAB END"} /\ burst_sent' = burst_sent
    BY <1>8 DEF CapabEnd, Hears, InOrder, SoFarInOrder
  <2>2. CASE inbound
    BY <1>8, <2>1, <2>2, ListenInOrder DEF CapabEnd, output
  <2>3. CASE ~inbound
    BY <1>8, <2>1, <2>3, ServerLineInOrder DEF CapabEnd
  <2> QED BY <2>2, <2>3
<1>9. CASE Server
  <2>1. /\ "CAPAB START" \in heard /\ conn' = "open"
        /\ heard' = heard \cup {"SERVER"}
    BY <1>9 DEF Server, Hears, InOrder, SoFarInOrder
  <2>2. CASE inbound
    BY <1>9, <2>1, <2>2, ServerLineInOrder DEF Server
  <2>3. CASE ~inbound
    <3>1. server_sent
      BY <1>9, <2>3, FlushedServer DEF Server, Hears, InOrder
    <3> QED BY <1>9, <2>1, <2>3, <3>1, EnsureBurstInOrder DEF Server
  <2> QED BY <2>2, <2>3
<1>10. CASE Burst
  <2>1. /\ server_sent /\ conn = "open" /\ conn' = "open"
        /\ heard' = heard \cup {"BURST"} /\ server_sent' = server_sent
    BY <1>10, FlushedServer DEF Burst, Hears, InOrder
  <2>2. CASE state = "waiting"
    BY <1>10, <2>1, <2>2, EnsureBurstInOrder DEF Burst
  <2>3. CASE state # "waiting"
    <3>1. "CAPAB START" \in heard
      BY <2>1 DEF SoFarInOrder
    <3> QED BY <1>10, <2>1, <2>3, <3>1, ListenInOrder DEF Burst, output
  <2> QED BY <2>2, <2>3
<1>11. CASE EndBurst
  BY <1>11 DEF EndBurst, Hears, flags, output, SoFarInOrder, HandshakeOrder
<1>12. CASE Reject
  <2>1. /\ state' = "dying" /\ conn = "open" /\ heard' = heard
        /\ server_sent' = server_sent /\ burst_sent' = burst_sent
        /\ sent' = sent \/ Says(<<"ERROR">>)
    BY <1>12 DEF Reject, GoDown, flags, Queue, Says
  <2>2. CASE sent' = sent
    BY <2>1, <2>2, QuietInOrder
  <2>3. CASE Says(<<"ERROR">>)
    <3>1. "ERROR" \in {"DATA", "PONG", "ERROR"}
      OBVIOUS
    <3>2. Send(<<"ERROR">>) \/ Says(<<"ERROR">>)
      BY <2>3
    <3>3. conn' # "open" /\ state' # "dying" => conn # "open" /\ state # "dying"
      BY <2>1
    <3> QED BY <2>1, <3>1, <3>2, <3>3, AsideInOrder, Zenon
  <2> QED BY <2>1, <2>2, <2>3
<1>13. CASE Ping \/ Deliver
  BY <1>13, AsideInOrder DEF Ping, Deliver, flags
<1>14. CASE Reburst
  BY <1>14 DEF Reburst
<1>15. CASE UNCHANGED vars
  BY <1>15, QuietInOrder DEF vars
<1> QED
  BY <1>1, <1>2, <1>4, <1>5, <1>6, <1>7, <1>8, <1>9, <1>10, <1>11, <1>12,
     <1>13, <1>14, <1>15 DEF Next

\* Towards a peer that keeps to the handshake, so do we: CAPAB, then SERVER,
\* then our burst, in every session.
THEOREM LinkHandshakeOrder ==
  PeerInOrder /\ ~AllowReburst => (Spec => []HandshakeOrder)
<1> SUFFICES ASSUME PeerInOrder, ~AllowReburst PROVE Spec => []HandshakeOrder
  OBVIOUS
<1>1. Init => SoFarInOrder
  <2>1. \A i \in 1..Len(<<>>) : FALSE
    OBVIOUS
  <2> QED BY <2>1, Zenon DEF Init, SoFarInOrder, HandshakeOrder, UpTo
<1>2. TypeOK /\ Safe /\ SoFarInOrder /\ [Next]_vars => SoFarInOrder'
  BY InOrderStep
<1>3. SoFarInOrder => HandshakeOrder
  BY DEF SoFarInOrder
<1> QED BY <1>1, <1>2, <1>3, LinkTypeOK, LinkSafe, PTL DEF Spec

-----------------------------------------------------------------------------
(* The backoff.  Its delays are recursive functions of the number of        *)
(* attempts; induction is over the set of the numbers with a property, by   *)
(* the least number without it.                                             *)

\* The order of the natural numbers, as a relation.
Less == {p \in Nat \X Nat : p[1] < p[2]}

\* A set with 0 that is closed under successor has all natural numbers.
LEMMA NatsBySuccessor ==
  ASSUME NEW T, 0 \in T, \A n \in Nat : n \in T => n + 1 \in T
  PROVE  Nat \subseteq T
<1>1. IsWellFoundedOn(Less, Nat)
  BY NatLessThanWellFounded, Zenon DEF OpToRel, Less
<1> DEFINE Rest == Nat \ T
<1>2. SUFFICES ASSUME Rest # {} PROVE FALSE
  OBVIOUS
<1>3. PICK x \in Rest : \A y \in Rest : <<y, x>> \notin Less
  <2>1. Rest \subseteq Nat
    OBVIOUS
  <2> HIDE DEF Rest
  <2> QED BY <1>1, <1>2, <2>1, WFMin
<1>4. \A y \in Rest : ~(y < x)
  BY <1>3 DEF Less
<1>5. x - 1 \in Nat /\ x - 1 < x /\ x - 1 + 1 = x
  OBVIOUS
<1> QED BY <1>4, <1>5

\* A first value and a step define a function on the natural numbers.
LEMMA Iterates ==
  ASSUME NEW V, NEW first \in V, NEW step \in [V -> V]
  PROVE  \E f \in [Nat -> V] :
           f[0] = first /\ \A n \in Nat : f[n + 1] = step[f[n]]
<1> DEFINE Begins(g, n) == /\ g[0] = first
                           /\ \A k \in 1..n : g[k] = step[g[k - 1]]
           Partial(n) == {g \in [0..n -> V] : Begins(g, n)}
           T == {n \in Nat : Partial(n) # {}}
<1>1. Partial(0) # {}
  <2>1. [k \in 0..0 |-> first] \in Partial(0)
    OBVIOUS
  <2> QED BY <2>1
<1>2. ASSUME NEW n \in Nat, Partial(n) # {} PROVE Partial(n + 1) # {}
  <2>1. PICK g \in [0..n -> V] : Begins(g, n)
    BY <1>2
  <2> DEFINE h == [k \in 0..n + 1 |-> IF k = n + 1 THEN step[g[n]] ELSE g[k]]
  <2>2. h \in [0..n + 1 -> V]
    BY <2>1
  <2>3. h[0] = first
    BY <2>1
  <2>4. ASSUME NEW k \in 1..n + 1 PROVE h[k] = step[h[k - 1]]
    <3>1. CASE k = n + 1
      BY <3>1
    <3>2. CASE k # n + 1
      BY <2>1, <3>2
    <3> QED BY <3>1, <3>2
  <2> QED BY <2>2, <2>3, <2>4
<1>3. Nat \subseteq T
  <2>1. 0 \in T /\ \A n \in Nat : n \in T => n + 1 \in T
    <3> HIDE DEF Partial
    <3> QED BY <1>1, <1>2
  <2> HIDE DEF T
  <2> QED BY <2>1, NatsBySuccessor
<1>4. ASSUME NEW n \in Nat, NEW g \in Partial(n), NEW m \in Nat, NEW h \in Partial(m)
      PROVE  \A k \in 0..n : k <= m => g[k] = h[k]
  <2> DEFINE Same == {k \in Nat : k <= n /\ k <= m => g[k] = h[k]}
  <2>1. 0 \in Same
    BY <1>4
  <2>2. ASSUME NEW k \in Nat, k \in Same PROVE k + 1 \in Same
    <3>1. CASE k + 1 <= n /\ k + 1 <= m
      <4>1. g[k] = h[k]
        BY <2>2, <3>1
      <4>2. k + 1 \in 1..n /\ k + 1 \in 1..m /\ k + 1 - 1 = k
        BY <3>1
      <4>3. g[k + 1] = step[g[k]] /\ h[k + 1] = step[h[k]]
        BY <4>2
      <4> QED BY <4>1, <4>3
    <3> QED BY <3>1
  <2>3. Nat \subseteq Same
    <3> HIDE DEF Same
    <3> QED BY <2>1, <2>2, NatsBySuccessor
  <2> QED BY <2>3
<1> DEFINE some == [n \in Nat |-> CHOOSE g : g \in Partial(n)]
           f == [n \in Nat |-> some[n][n]]
<1>5. \A n \in Nat : some[n] \in Partial(n)
  BY <1>3
<1>6. f \in [Nat -> V]
  <2>1. ASSUME NEW n \in Nat PROVE some[n][n] \in V
    <3>1. some[n] \in [0..n -> V] /\ n \in 0..n
      <4> HIDE DEF some
      <4> QED BY <1>5
    <3> HIDE DEF some
    <3> QED BY <3>1
  <2> HIDE DEF some
  <2> QED BY <2>1
<1>7. ASSUME NEW n \in Nat
      PROVE  f[n] = IF n = 0 THEN first ELSE step[f[n - 1]]
  <2>1. CASE n = 0
    BY <1>5, <2>1
  <2>2. CASE n # 0
    <3>1. n - 1 \in Nat /\ n \in 1..n /\ n - 1 \in 0..n - 1 /\ n - 1 <= n
      BY <2>2
    <3>2. some[n][n] = step[some[n][n - 1]]
      BY <1>5, <3>1
    <3>3. some[n - 1][n - 1] = some[n][n - 1]
      <4> HIDE DEF Partial, some
      <4> QED BY <1>4, <1>5, <3>1
    <3> QED BY <2>2, <3>1, <3>2, <3>3
  <2> QED BY <2>1, <2>2
<1>8. f[0] = first /\ \A n \in Nat : f[n + 1] = step[f[n]]
  <2>1. \A n \in Nat : n + 1 \in Nat /\ n + 1 # 0 /\ n + 1 - 1 = n
    OBVIOUS
  <2> HIDE DEF f
  <2> QED BY <1>7, <2>1
<1> HIDE DEF f
<1> QED BY <1>6, <1>8

\* The doubling loop of schedule_reconnect, unfolded.
LEMMA DoubledDef ==
  \A n \in Nat :
    /\ Doubled[0] = RetryMin
    /\ Doubled[n] \in Nat
    /\ Doubled[n + 1] = IF Doubled[n] < RetryMax THEN 2 * Doubled[n] ELSE Doubled[n]
<1> DEFINE step == [d \in Nat |-> IF d < RetryMax THEN 2 * d ELSE d]
           Loop(f) == f = [n \in Nat |-> IF n = 0 THEN RetryMin
                                         ELSE IF f[n - 1] < RetryMax
                                              THEN 2 * f[n - 1] ELSE f[n - 1]]
<1>1. step \in [Nat -> Nat] /\ RetryMin \in Nat
  BY LinkAssumption
<1>2. PICK f \in [Nat -> Nat] :
        f[0] = RetryMin /\ \A n \in Nat : f[n + 1] = step[f[n]]
  <2> DEFINE Delays == Nat
  <2>1. step \in [Delays -> Delays] /\ RetryMin \in Delays
    BY <1>1
  <2>2. \E f \in [Nat -> Delays] :
          f[0] = RetryMin /\ \A n \in Nat : f[n + 1] = step[f[n]]
    <3> HIDE DEF step, Delays
    <3> QED BY <2>1, Iterates
  <2> QED BY <2>2
<1>3. Loop(f)
  <2>1. \A n \in Nat : n # 0 => n - 1 \in Nat /\ f[n - 1] \in Nat /\ n - 1 + 1 = n
    OBVIOUS
  <2>2. \A n \in Nat : n # 0 => f[n] = step[f[n - 1]]
    BY <1>2, <2>1
  <2> QED BY <1>2, <2>1, <2>2
<1>4. Doubled = CHOOSE g : Loop(g)
  BY DEF Doubled
<1>5. Loop(Doubled)
  <2> HIDE DEF Loop
  <2> QED BY <1>3, <1>4
<1> DEFINE T == {n \in Nat : Doubled[n] \in Nat}
<1>6. /\ Doubled[0] = RetryMin
      /\ \A n \in Nat : Doubled[n + 1] =
           IF Doubled[n] < RetryMax THEN 2 * Doubled[n] ELSE Doubled[n]
  <2>1. \A n \in Nat : Doubled[n] = IF n = 0 THEN RetryMin
                                    ELSE IF Doubled[n - 1] < RetryMax
                                         THEN 2 * Doubled[n - 1] ELSE Doubled[n - 1]
    BY <1>5, Zenon
  <2>2. \A n \in Nat : n + 1 \in Nat /\ n + 1 # 0 /\ n + 1 - 1 = n
    OBVIOUS
  <2> QED BY <2>1, <2>2
<1>7. Nat \subseteq T
  <2>1. 0 \in T
    BY <1>1, <1>6
  <2>2. \A n \in Nat : n \in T => n + 1 \in T
    BY <1>6
  <2> HIDE DEF T
  <2> QED BY <2>1, <2>2, NatsBySuccessor
<1> QED BY <1>6, <1>7

\* The reference, without the stop of the loop.
LEMMA RedoubledDef ==
  \A n \in Nat :
    /\ Redoubled[0] = RetryMin
    /\ Redoubled[n] \in Nat
    /\ Redoubled[n + 1] = 2 * Redoubled[n]
<1> DEFINE step == [d \in Nat |-> 2 * d]
           Loop(f) == f = [n \in Nat |-> IF n = 0 THEN RetryMin
                                         ELSE 2 * f[n - 1]]
<1>1. step \in [Nat -> Nat] /\ RetryMin \in Nat
  BY LinkAssumption
<1>2. PICK f \in [Nat -> Nat] :
        f[0] = RetryMin /\ \A n \in Nat : f[n + 1] = step[f[n]]
  <2> DEFINE Delays == Nat
  <2>1. step \in [Delays -> Delays] /\ RetryMin \in Delays
    BY <1>1
  <2>2. \E f \in [Nat -> Delays] :
          f[0] = RetryMin /\ \A n \in Nat : f[n + 1] = step[f[n]]
    <3> HIDE DEF step, Delays
    <3> QED BY <2>1, Iterates
  <2> QED BY <2>2
<1>3. Loop(f)
  <2>1. \A n \in Nat : n # 0 => n - 1 \in Nat /\ f[n - 1] \in Nat /\ n - 1 + 1 = n
    OBVIOUS
  <2>2. \A n \in Nat : n # 0 => f[n] = step[f[n - 1]]
    BY <1>2, <2>1
  <2> QED BY <1>2, <2>1, <2>2
<1>4. Redoubled = CHOOSE g : Loop(g)
  BY DEF Redoubled
<1>5. Loop(Redoubled)
  <2> HIDE DEF Loop
  <2> QED BY <1>3, <1>4
<1> DEFINE T == {n \in Nat : Redoubled[n] \in Nat}
<1>6. /\ Redoubled[0] = RetryMin
      /\ \A n \in Nat : Redoubled[n + 1] =
           2 * Redoubled[n]
  <2>1. \A n \in Nat : Redoubled[n] = IF n = 0 THEN RetryMin
                                    ELSE 2 * Redoubled[n - 1]
    BY <1>5, Zenon
  <2>2. \A n \in Nat : n + 1 \in Nat /\ n + 1 # 0 /\ n + 1 - 1 = n
    OBVIOUS
  <2> QED BY <2>1, <2>2
<1>7. Nat \subseteq T
  <2>1. 0 \in T
    BY <1>1, <1>6
  <2>2. \A n \in Nat : n \in T => n + 1 \in T
    BY <1>6
  <2> HIDE DEF T
  <2> QED BY <2>1, <2>2, NatsBySuccessor
<1> QED BY <1>6, <1>7

\* The loop and its cap compute the smaller of the two: RetryMin doubled n
\* times, and RetryMax.
LEMMA DelayIsCapped ==
  ASSUME NEW n \in Nat
  PROVE  RetryDelay(n) = IF Redoubled[n] < RetryMax THEN Redoubled[n] ELSE RetryMax
<1> DEFINE Agree(k) == /\ Doubled[k] >= RetryMin
                       /\ \/ Doubled[k] = Redoubled[k]
                          \/ Doubled[k] >= RetryMax /\ Redoubled[k] >= RetryMax
           T == {k \in Nat : Agree(k)}
<1>1. RetryMin \in Nat \ {0} /\ RetryMax \in Nat /\ RetryMin <= RetryMax
  BY LinkAssumption
<1>2. Agree(0)
  BY <1>1, DoubledDef, RedoubledDef
<1>3. ASSUME NEW k \in Nat, Agree(k) PROVE Agree(k + 1)
  BY <1>1, <1>3, DoubledDef, RedoubledDef
<1>4. Nat \subseteq T
  <2>1. 0 \in T /\ \A k \in Nat : k \in T => k + 1 \in T
    <3> HIDE DEF Agree
    <3> QED BY <1>2, <1>3
  <2> HIDE DEF T
  <2> QED BY <2>1, NatsBySuccessor
<1>5. Agree(n) /\ Doubled[n] \in Nat /\ Redoubled[n] \in Nat
  BY <1>4, DoubledDef, RedoubledDef
<1> QED BY <1>1, <1>5 DEF RetryDelay

\* The delays of the n-th attempt are those of BackoffSchedule.
LEMMA ScheduleDelay ==
  ASSUME TypeOK, retry_timer' = RetryDelay(attempts), attempts' = attempts + 1
  PROVE  /\ retry_timer' = IF Redoubled[attempts' - 1] < RetryMax
                           THEN Redoubled[attempts' - 1] ELSE RetryMax
         /\ attempts = 0 => retry_timer' = RetryMin
<1>1. attempts \in Nat /\ attempts' - 1 = attempts
  BY DEF TypeOK
<1>2. RetryDelay(attempts) =
        IF Redoubled[attempts] < RetryMax THEN Redoubled[attempts] ELSE RetryMax
  BY <1>1, DelayIsCapped
<1>3. Redoubled[0] = RetryMin /\ RetryMin <= RetryMax /\ RetryMin \in Nat /\ RetryMax \in Nat
  BY RedoubledDef, LinkAssumption
<1>4. attempts = 0 => RetryDelay(attempts) = RetryMin
  BY <1>2, <1>3
<1> QED BY <1>1, <1>2, <1>4

\* A link that gets up starts its count of attempts over.
LinkedStartsOver == state = "linked" => attempts = 0

\* Every step keeps it.
LEMMA LinkedStartsOverStep == LinkedStartsOver /\ [Next]_vars => LinkedStartsOver'
BY DEF LinkedStartsOver, Next, vars, timer, flags, AddUplink, RetryFires, Connect,
   AddInbound, Connected, HandshakeDone, TransportReady, ConnectRefused, PeerDrops,
   Reject, PeerError, GoDown, Flush, CapabStart, Capabilities, CapabEnd, Server,
   Burst, EndBurst, Ping, Deliver, Reburst

\* A step that arms the timer takes the delay from the number of attempts.
LEMMA BackoffStep ==
  ASSUME TypeOK, LinkedStartsOver, [Next]_vars
  PROVE  /\ retry_timer' # 0 /\ retry_timer' # retry_timer =>
              retry_timer' = IF Redoubled[attempts' - 1] < RetryMax
                             THEN Redoubled[attempts' - 1] ELSE RetryMax
         /\ state = "linked" /\ state' = "dying" /\ Uplink =>
              retry_timer' = RetryMin
<1>1. \/ retry_timer' = RetryDelay(attempts) /\ attempts' = attempts + 1
      \/ /\ retry_timer' = 0 \/ retry_timer' = retry_timer
         /\ ~(state = "linked" /\ state' = "dying" /\ Uplink)
  BY DEF Next, vars, timer, flags, AddUplink, RetryFires, Connect,
     AddInbound, Connected, HandshakeDone, TransportReady, ConnectRefused, PeerDrops,
     Reject, PeerError, GoDown, ScheduleReconnect, Uplink, Flush, CapabStart,
     Capabilities, CapabEnd, Server, Burst, EndBurst, Ping, Deliver, Reburst
<1> QED BY <1>1, ScheduleDelay DEF LinkedStartsOver

\* The n-th failure in a row waits retry_min doubled n-1 times, at most
\* retry_max, and a link that was up starts over: for every interval.
THEOREM LinkBackoff == Spec => BackoffSchedule
<1>1. Init => LinkedStartsOver
  BY DEF Init, LinkedStartsOver
<1>2. LinkedStartsOver /\ [Next]_vars => LinkedStartsOver'
  BY LinkedStartsOverStep
<1>3. TypeOK /\ LinkedStartsOver /\ [Next]_vars
        => [/\ retry_timer' # 0 /\ retry_timer' # retry_timer =>
                 LET d == Redoubled[attempts' - 1]
                 IN  retry_timer' = IF d < RetryMax THEN d ELSE RetryMax
            /\ state = "linked" /\ state' = "dying" /\ Uplink => retry_timer' = RetryMin
           ]_vars
  BY BackoffStep
<1> QED BY <1>1, <1>2, <1>3, LinkTypeOK, PTL DEF Spec, BackoffSchedule
=============================================================================
