SPECIFICATION Spec
CONSTANTS
  Server = {s1, s2}
  Adapter = {a1}
  Caller = {c1, c2}
  Requests <- OneOrNone
  Base = Base
  NoOne = NoOne
SYMMETRY Symmetry
INVARIANTS
  SlotIsSound
  ServedAdapterKept
  RevertIsSafe
PROPERTY CrashIsReported
