CONSTANTS
  BufferLength = 2
  LineStates <- MCLineStates
  EventMax = 3
SPECIFICATION FairSpec
CHECK_DEADLOCK FALSE
INVARIANTS TypeOK BuffersNotReused WriteStateEnds
PROPERTIES NoOutputLost WriteReturns FlushReturnsInService
