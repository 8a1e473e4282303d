SPECIFICATION FairSpec
CONSTANTS
  Protocols = {"IBUS", "SBUS", "CRSF", "MSP"}
  Base = 8
  IbusSize = 6
  IbusCommand = 1
  SbusSize = 5
  SbusStart = 5
  CrsfSync = 7
  CrsfMax = 8
  RcType = 1
  RcSize = 4
  LinkType = 2
  LinkSize = 3
  MspType = 3
  MspMin = 3
  OtherType = 4
  OtherSize = 3
  FragmentSize = 4
  Dollar = 7
  CharM = 6
  CharX = 5
  Directions = {3, 4}
  HeaderV1 = 2
  HeaderV2 = 5
  MspBuf = 5
  Payloads = {0, 1, 6}
  SeqMod = 4
  DataMax = 4
  Totals = {1, 4}
  MaxFragments = 6
  MaxMissed = 3
INVARIANTS IndexInBounds WholeFrameTaken TakenWasSent DataNeverMixed
PROPERTIES FindsFrames
