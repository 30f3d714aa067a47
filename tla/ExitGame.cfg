SPECIFICATION Spec
CONSTANTS
  t1 = t1
  t2 = t2
  TransportId <- MCTransportId
  NoTransport = NoTransport
  MaxInbox = 1
  TokensUsable = TRUE
CHECK_DEADLOCK FALSE
INVARIANT JoinedHasTransport
