\* An InspIRCd peer that keeps to the handshake, on a network that fails at
\* most MaxFailures times in a row.
SPECIFICATION FairSpec
CONSTANTS
  RetryMin = 2
  RetryMax = 7
  Reconnect = TRUE
  SendTls = TRUE
  AcceptInbound = TRUE
  AllowReburst = FALSE
  RefusedLate = FALSE
  PeerInOrder = TRUE
  MaxFailures = 3
  MaxSent = 9
INVARIANTS BurstAtMostOnce HandshakeOrder
PROPERTIES ImplementsSession AlwaysRelinks
CHECK_DEADLOCK FALSE
