\* connect(2) may be refused after EINPROGRESS; the peer behaves, the network
\* fails at most MaxFailures times in a row.
SPECIFICATION FairSpec
CONSTANTS
  RetryMin = 2
  RetryMax = 7
  Reconnect = TRUE
  SendTls = TRUE
  AcceptInbound = FALSE
  AllowReburst = FALSE
  RefusedLate = TRUE
  PeerInOrder = TRUE
  MaxFailures = 3
  MaxSent = 9
PROPERTIES AttemptEnds
CHECK_DEADLOCK FALSE
