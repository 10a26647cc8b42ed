CONSTANTS
  red = red
  green = green
  blue = blue
  Black = Black
  Between = Between
  Colors <- MCColors
  MaxInput = 3
  Fades <- MCOneColor
  Framerates = {2, 3}
SPECIFICATION Spec
CHECK_DEADLOCK FALSE
INVARIANT EndsAtLastColor
