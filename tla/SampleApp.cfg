SPECIFICATION AppSpec
CONSTANTS
  t1 = t1
  t2 = t2
  TransportId <- MCTransportId
  NoTransport = NoTransport
  MaxInbox = 1
  TokensUsable = FALSE
CHECK_DEADLOCK FALSE
INVARIANTS
  AppTypeOK
  OneLobbyCall
  NoTransportLeak
  NoReusedMemory
PROPERTIES
  SessionOrder
  Answered
