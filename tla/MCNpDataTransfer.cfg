CONSTANTS
  Pixels = 4
  ColorBits = 24
  BufferLength = 8
  Versions = 2
  NoSymbol = NoSymbol
SPECIFICATION FairSpec
INVARIANTS TypeOK NoBufferRace NextSymbolReady
PROPERTIES StreamsFrame TransferEnds
