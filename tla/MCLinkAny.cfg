\* Any line of the peer at any time, REBURST, inbound and outbound.
SPECIFICATION Spec
CONSTANTS
  RetryMin = 2
  RetryMax = 7
  Reconnect = TRUE
  SendTls = FALSE
  AcceptInbound = TRUE
  AllowReburst = TRUE
  RefusedLate = TRUE
  PeerInOrder = FALSE
  MaxFailures = 4
  MaxSent = 7
INVARIANTS TypeOK RetryArmedIffDown HubListsLiveLinks
PROPERTIES AuthenticatedFirst BackoffSchedule
CHECK_DEADLOCK FALSE
