CONSTANTS
  Sizes = {2, 3}
  Values = {d, a, b}
  Default = d
  Blank = Blank
  NoCrc = NoCrc
  OnStack = OnStack
  InFlash = InFlash
SPECIFICATION Spec
INVARIANTS TypeOK ConfigUsable NothingTornAccepted SettingsKept
