SPECIFICATION Spec
CONSTANTS
  Server = {s1, s2}
  Adapter = {a1}
  Caller = {c1}
  Requests <- OneOrNone
  Base = Base
  NoOne = NoOne
INVARIANT StopLeavesNoError
