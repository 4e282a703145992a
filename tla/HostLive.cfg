SPECIFICATION LiveSpec
CONSTANTS
  Call = {c1, c2}
  Id = {i1}
  Target = {colima}
  Colima = colima
  Args = {g1, g2}
  Life = {l1}
  None = None
  Trainer = {1, 2}
  GuardCmd = {1}
  GuardConfigs <- OneConfig
  NoTrainer = 0
  Omlx = {o1, o2}
  LiCall = {d1}
  NoOmlx = NoOmlx
  Server = {s1, s2}
  Adapter = {}
  Caller = {k1}
  Requests <- BaseModel
  Base = Base
  NoOne = NoOne
CHECK_DEADLOCK FALSE
PROPERTIES
  TargetIsReleased
  GuardLoopEnds
  DeadRuntimeLeavesSlot
  DeadServerLeavesSlot
  RevertIsReleased
