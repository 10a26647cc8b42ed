CONSTANTS
  NeoPixels = 1
  Startup <- MCStartup
  QueueLength = 3
  HeapSize = 4
  Keyframes <- MCKeyframes
  ChannelLists <- MCOneChannel
  Repeats <- MCRepeats
  Framerates = {2, 3}
  Black <- MCBlack
  Timesteps = 4
SPECIFICATION Spec
CHECK_DEADLOCK FALSE
PROPERTIES
  FiniteKeyframesEnd
