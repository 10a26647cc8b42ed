CONSTANTS
  NeoPixels = 2
  Startup <- MCStartup
  QueueLength = 3
  HeapSize = 5
  Keyframes <- MCKeyframes
  ChannelLists <- MCChannelLists
  Repeats <- MCRepeats
  Framerates = {2, 3}
  Black <- MCBlack
  Timesteps = 4
SPECIFICATION Spec
CHECK_DEADLOCK FALSE
INVARIANTS
  TypeOK
  HeapSafe
  TimeWithinKeyframe
  RepeatAccounting
