SPECIFICATION Spec
CONSTANTS
  client = client
  host = host
  Peer <- MCPeer
  SeqMod = 16
  Window = 2
  RelMod = 4
  AckBits = 2
  SentSize = 4
  ReceivedSize = 4
  ResendDelay = 1
  ClientReliable = 3
  ClientUnreliable = 0
  ClientTime = 1
  HostReliable = 2
  HostUnreliable = 1
  HostTime = 1
  MaxReliable <- MCMaxReliable
  MaxUnreliable <- MCMaxUnreliable
  MaxTime <- MCMaxTime
CHECK_DEADLOCK FALSE
INVARIANTS
  GivenUpOnlyIfSeen
  NoAckMissed
