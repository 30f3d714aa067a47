SPECIFICATION Spec
CONSTANTS
  SeqMod = 16
  Entries = 4
  Bits = 4
  Ahead = 3
  Behind = 8
  MaxNumber = 26
  ByteMod = 4
  ByteBits = 1
  FragmentSize = 2
  MaxFragments = 3
  Sent = {0, 3, 15}
  Payload = {4, 5}
INVARIANTS
  TypeOK
  NoLeftover
  AcksExactly
  HeaderReadBack
  FragmentsReadBack
PROPERTY RefinesIdeal
