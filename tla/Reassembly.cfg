SPECIFICATION Spec
CONSTANTS
  SeqMod = 16
  Size <- MCSize
  FragmentAbove = 3
  FragmentSize = 2
  ReceivedSize = 4
  ReassemblySize = 2
  Block = {b1, b2, b3}
  NoBlock = NoBlock
  Ahead = 2
  Behind = 6
  MaxNumber = 20
INVARIANTS
  TypeOK
  BlocksOwned
  WholePackets
  NeverCompletedInVain
  AckedOnlyIfWhole
PROPERTY KeptWhileYoung
