CONSTANTS
  Length = 4
  Elements = {e1, e2, e3}
  NULL = NULL
SPECIFICATION Spec
INVARIANT NoNullQueued
PROPERTY ImplementsFifo
