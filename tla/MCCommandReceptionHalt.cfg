CONSTANTS
  Letter = c
  Name = n
  Digit = d
  Cut = x
  ESC = ESC
  BS = BS
  NL = NL
  NUL = NUL
  Capacity = 2
  BufferLength = 4
  PacketLength = 3
  MaxBytes = 5
  MaxOffline = 1
SPECIFICATION Spec
CHECK_DEADLOCK FALSE

PROPERTIES ErrorHaltsSequence
